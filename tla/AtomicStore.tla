---------------------------- MODULE AtomicStore ----------------------------
(***************************************************************************)
(* What a JSON repository promises its callers: a method that returns has  *)
(* changed the list as a whole and at once, a method that raises has       *)
(* changed nothing, and a damaged file is never written over.              *)
(***************************************************************************)
EXTENDS Repositories

CONSTANTS
    Thread,     \* the threads of the server
    Row,        \* the rows a list may hold
    Scrap,      \* what a damaged file holds instead of rows
    NoCall      \* a thread that has not called anything

VARIABLES
    kind,       \* which repository this is
    file,       \* the list in its file
    op,         \* the method each thread has called
    status      \* where its call is

(* A file that does not parse as a list. *)
Damaged == {Scrap}

(* What can be called of a repository. *)
Calls(k) == [method : Methods(k), row : RowsOf(k, Row)]

Init ==
    /\ kind \in Kinds
    /\ file \in (SUBSET RowsOf(kind, Row)) \union {Damaged}
    /\ op = [t \in Thread |-> NoCall]
    /\ status = [t \in Thread |-> "idle"]

Call(t) ==
    /\ status[t] # "working"
    /\ \E o \in Calls(kind) :
          op' = [op EXCEPT ![t] = o]
    /\ status' = [status EXCEPT ![t] = "working"]
    /\ UNCHANGED <<kind, file>>

Return(t) ==
    /\ status[t] = "working"
    /\ file # Damaged
    /\ ~Raises(kind, op[t], file)
    /\ file' = After(kind, op[t], file)
    /\ status' = [status EXCEPT ![t] = "returned"]
    /\ op' = [op EXCEPT ![t] = NoCall]
    /\ UNCHANGED kind

Raise(t) ==
    /\ status[t] = "working"
    /\ status' = [status EXCEPT ![t] = "raised"]
    /\ op' = [op EXCEPT ![t] = NoCall]
    /\ UNCHANGED <<kind, file>>

(* The process dies: the calls under way are gone, the file stays. *)
Die ==
    /\ status' = [t \in Thread |->
                    IF status[t] = "working" THEN "dead" ELSE status[t]]
    /\ op' = [t \in Thread |-> NoCall]
    /\ UNCHANGED <<kind, file>>

Next ==
    \/ \E t \in Thread : Call(t) \/ Return(t) \/ Raise(t)
    \/ Die

Spec == Init /\ [][Next]_<<kind, file, op, status>>

===========================================================================
