------------------------------ MODULE Durable ------------------------------
(***************************************************************************)
(* What librsu promises of a table it keeps in flash, without copies,      *)
(* magic numbers or checksums: a value that calls change one edit at a     *)
(* time.  Whenever the process or the board stops, the value that is found *)
(* again is the one before or the one after the edit in progress, or the   *)
(* library refuses to serve; it never serves a third one.                  *)
(***************************************************************************)
CONSTANTS
  Initial,       \* the value of a new board
  Edits(_),      \* the values one edit may turn a value into
  Replacements,  \* the values that calls may put in place of any value
  Found(_),      \* the values that may follow a loss
  None           \* no value

VARIABLES
  value,  \* what the table stands for
  next,   \* what is being installed; value when there is no edit in progress
  mode,   \* "off", "busy", "serving", "refused" or "unsafe"
  view    \* what callers are shown while serving, None otherwise

vars == <<value, next, mode, view>>

Init == value = Initial /\ next = Initial /\ mode = "off" /\ view = None

Boot == mode = "off" /\ mode' = "busy" /\ UNCHANGED <<value, next, view>>

\* A call starts; what it will install may be known at once or only later.
Call ==
  /\ mode = "serving"
  /\ mode' = "busy" /\ view' = None
  /\ next' \in {value} \cup Edits(value) \cup Replacements
  /\ UNCHANGED value

Edit ==
  /\ mode = "busy" /\ next = value
  /\ next' \in Edits(value)
  /\ UNCHANGED <<value, mode, view>>

Settle ==
  /\ mode = "busy"
  /\ value' \in {value, next} /\ next' = value'
  /\ \/ mode' = "busy" /\ view' = None
     \/ mode' = "serving" /\ view' = value'

\* The process or the board stops, in the middle of an edit or not.
Halt == mode' = "off" /\ view' = None /\ UNCHANGED <<value, next>>

Refuse ==
  /\ mode = "busy"
  /\ mode' = "refused" /\ view' = None
  /\ UNCHANGED <<value, next>>

\* A flash error, or a table written over one that was refused: the value is lost.
Lose ==
  /\ mode # "off"
  /\ mode' = "unsafe" /\ view' = None
  /\ value' = None /\ next' = None

\* A replacement was installed completely, or loading found a table again.
Recover ==
  /\ mode = "unsafe"
  /\ Found(value') /\ next' = value'
  /\ \/ mode' = "busy" /\ view' = None
     \/ mode' = "serving" /\ view' = value'

Next ==
  \/ mode # "unsafe" /\ (Boot \/ Call \/ Edit \/ Settle \/ Halt \/ Refuse)
  \/ Lose
  \/ Recover

Spec == Init /\ [][Next]_vars
=============================================================================
