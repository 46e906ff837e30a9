------------------------------- MODULE MCParts -------------------------------
(* StreamLines, DiffGuard, Settings and RunDir in one run: they share       *)
(* nothing, so each behaviour is one of one of them, and the others stay    *)
(* where they begin.                                                        *)
EXTENDS StreamLines, DiffGuard, Settings, RunDir, TLC

CONSTANTS x, y, o  \* the runs of RunDir; o is over

VARIABLE subject  \* the one that runs

vars == <<subject, streamVars, diffVars, settingsVars, dirsVars>>

(* Deltas with text, with usage and with both; characters of one and of two *)
(* bytes, so that the cap of five falls on a character and within one.      *)
TextOf == ("ab" :> <<1, 2>>) @@ ("u" :> <<>>) @@ ("au" :> <<1>>)

(* b/x is a file of its own, not x under git's prefix. *)
TwoPaths == {<<"x">>, <<"b", "x">>}
Mentioned == <<"y">>

Names == (x :> 1) @@ (y :> 2) @@ (o :> 3)

Init ==
  /\ subject \in {"stream", "diff", "settings", "dirs"}
  /\ StreamInit
  /\ DiffInit
  /\ SettingsInit
  /\ DirsInit
  /\ subject # "settings" => key = "model"
  /\ subject # "dirs" =>
       /\ held = Runs
       /\ \A r \in Earlier : dir[r] = [lock |-> FALSE, content |-> FALSE, mtime |-> 0]

StreamStep ==
  /\ subject = "stream"
  /\ StreamNext
  /\ UNCHANGED <<subject, diffVars, settingsVars, dirsVars>>

DiffStep ==
  /\ subject = "diff"
  /\ DiffNext
  /\ UNCHANGED <<subject, streamVars, settingsVars, dirsVars>>

SettingsStep ==
  /\ subject = "settings"
  /\ SettingsNext
  /\ UNCHANGED <<subject, streamVars, diffVars, dirsVars>>

DirsStep ==
  /\ subject = "dirs"
  /\ DirsNext
  /\ UNCHANGED <<subject, streamVars, diffVars, settingsVars>>

Next == StreamStep \/ DiffStep \/ SettingsStep \/ DirsStep

Spec == Init /\ [][Next]_vars
===============================================================================
