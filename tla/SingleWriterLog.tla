--------------------------- MODULE SingleWriterLog ---------------------------
(***************************************************************************)
(* What a Session Fabric session promises to those who write and follow    *)
(* its event log: the log is a sequence that only ever grows at its end,   *)
(* each entry comes from a request that was admitted while its runner held *)
(* the session, and a request appends at most once per admission.  Losing  *)
(* the session does not undo an admission.                                 *)
(*                                                                         *)
(* Rows, seq numbers, unique-constraint races, clocks and terms are all    *)
(* absent: SessionLease implements this specification with them.           *)
(***************************************************************************)
EXTENDS Sequences

CONSTANTS Runners, Calls, Bodies, Free

VARIABLES log,       \* the entries, oldest first
          holder,    \* the runner that may be admitted, or Free
          admitted   \* for each request, the runner it was admitted as, or Free

logVars == <<log, holder, admitted>>

Init ==
    /\ log = <<>>
    /\ holder = Free
    /\ admitted = [c \in Calls |-> Free]

\* The session changes hands or becomes free.
Pass(r) ==
    /\ holder' = r
    /\ UNCHANGED <<log, admitted>>

Admit(c) ==
    /\ holder # Free
    /\ admitted[c] = Free
    /\ admitted' = [admitted EXCEPT ![c] = holder]
    /\ UNCHANGED <<log, holder>>

Write(c) ==
    /\ admitted[c] # Free
    /\ \E b \in Bodies : log' = Append(log, [runner |-> admitted[c], body |-> b])
    /\ admitted' = [admitted EXCEPT ![c] = Free]
    /\ UNCHANGED holder

GiveUp(c) ==
    /\ admitted[c] # Free
    /\ admitted' = [admitted EXCEPT ![c] = Free]
    /\ UNCHANGED <<log, holder>>

Next ==
    \/ \E r \in Runners \cup {Free} : Pass(r)
    \/ \E c \in Calls : Admit(c) \/ Write(c) \/ GiveUp(c)

Spec == Init /\ [][Next]_logVars
=============================================================================
