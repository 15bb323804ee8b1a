----------------------------- MODULE TaskLedger -----------------------------
(***************************************************************************)
(* What a ConversationController over the in-memory store promises about   *)
(* the user's tasks, whatever the receive loop, the turns and the calls do *)
(* in between: a list that changes by one task at a time, of which a       *)
(* finished task is never again part, and a saved list that was the list   *)
(* of the moment it was saved.                                             *)
(***************************************************************************)
EXTENDS SequencesExt

CONSTANT Tasks

VARIABLES
  listed,   \* active_task_ids
  saved,    \* active_task_ids of the user's saved session: {}, or {a list}
  finished  \* tasks a terminal event was handled of

vars == <<listed, saved, finished>>

Init == listed = <<>> /\ saved = {} /\ finished = {}

(* A task is heard of; what is then said of it may suspend before saving.  *)
Notice(t) ==
  /\ t \notin finished
  /\ listed' = Append(RemoveFirst(listed, t), t)
  /\ saved' \in {saved, {listed'}}
  /\ UNCHANGED finished

(* A terminal event is through: its task leaves the list, and the store.   *)
Finish(t) ==
  /\ listed' = RemoveFirst(listed, t)
  /\ finished' = finished \cup {t}
  /\ saved' = {listed'}

Save == saved' = {listed} /\ UNCHANGED <<listed, finished>>

(* A call begins, with the saved list if it resumes and there is one.      *)
BeginCall ==
  /\ listed' \in {<<>>} \cup saved
  /\ UNCHANGED <<saved, finished>>

(* The process dies.                                                       *)
Forget == listed' = <<>> /\ saved' = {} /\ UNCHANGED finished

Next ==
  \/ \E t \in Tasks : Notice(t) \/ Finish(t)
  \/ Save \/ BeginCall \/ Forget

Spec == Init /\ [][Next]_vars
=============================================================================
