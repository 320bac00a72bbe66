----------------------------- MODULE AtomicLog -----------------------------
(***************************************************************************)
(* What the event log promises its callers (the doc comments of append,    *)
(* append_with_delete and of the ModelEventStore trait): a call appends    *)
(* its event and applies its state write in one indivisible step, at most  *)
(* once, only when its precondition and its guard hold, and its answer     *)
(* tells the truth about it.                                               *)
(***************************************************************************)
EXTENDS Naturals, Sequences

CONSTANTS Requests, Items, Ops, None

VARIABLES
    log,      \* the events, oldest first; the revision is the length
    state,    \* per item, the request whose write it holds, or None
    call,     \* per request, its arguments, or None before the call
    answer    \* per request, how the call returned and with what revision

vars == <<log, state, call, answer>>

Init ==
    /\ log = <<>>
    /\ state = [i \in Items |-> None]
    /\ call = [r \in Requests |-> None]
    /\ answer = [r \in Requests |-> [tag |-> "pending", revision |-> 0]]

Call(r) ==
    /\ call[r] = None
    /\ \E o \in Ops : call' = [call EXCEPT ![r] = o]
    /\ UNCHANGED <<log, state, answer>>

Logged(r) == \E n \in 1 .. Len(log) : log[n].request = r

\* The indivisible append.  A call answered with an error may still append
\* (its fate is unknown to the caller); one refused or acknowledged may not.
Append_(r) ==
    LET o == call[r]
    IN  /\ o # None
        /\ ~Logged(r)
        /\ answer[r].tag \in {"pending", "error"}
        /\ o.expected = None \/ o.expected = Len(log)
        /\ o.write = "create" => state[o.item] = None
        /\ o.write = "delete" => state[o.item] # None
        /\ log' = Append(log, [request |-> r, item |-> o.item, write |-> o.write])
        /\ state' = [state EXCEPT ![o.item] = IF o.write = "delete" THEN None ELSE r]
        /\ UNCHANGED <<call, answer>>

Truthful(r, tag, rev) ==
    CASE tag = "ok" -> rev \in 1 .. Len(log) /\ log[rev].request = r
      [] tag = "mismatch" -> ~Logged(r) /\ rev = Len(log) /\ call[r].expected \notin {None, rev}
      [] tag = "conflict" -> ~Logged(r) /\ call[r].write = "create"
      [] tag = "gone" -> ~Logged(r) /\ call[r].write = "delete"
      [] tag = "error" -> TRUE

Answer(r) ==
    /\ call[r] # None
    /\ answer[r].tag = "pending"
    /\ \E tag \in {"ok", "mismatch", "conflict", "gone", "error"}, rev \in 0 .. Len(log) :
          /\ Truthful(r, tag, rev)
          /\ answer' = [answer EXCEPT ![r] = [tag |-> tag, revision |-> rev]]
    /\ UNCHANGED <<log, state, call>>

Next == \E r \in Requests : Call(r) \/ Append_(r) \/ Answer(r)

Spec == Init /\ [][Next]_vars
=============================================================================
