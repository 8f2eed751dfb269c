----------------------------- MODULE JsonStore -----------------------------
(***************************************************************************)
(* One JSON repository and the threads that use it.                        *)
(*                                                                         *)
(* A method reads the list (read_json_list), computes the new list and     *)
(* writes it with write_json_list_atomic: a temporary file in the same     *)
(* directory, then os.replace.  Nothing is locked between the reading and  *)
(* the replacing, so in the threaded server the steps of several calls     *)
(* interleave; any of them may fail, and the process may die between two.  *)
(***************************************************************************)
EXTENDS Repositories, Naturals

CONSTANTS
    Thread,     \* the threads of the server
    Row,        \* the rows a list may hold
    Scrap,      \* what a damaged file holds instead of rows
    NoCall,     \* a thread that has not called anything
    Modes,      \* whether requests may come one at a time, at once, or both
    MaxFaults   \* bound: failing file operations and deaths in a behaviour

ASSUME ModesAssumption == Modes \subseteq BOOLEAN
ASSUME MaxFaultsAssumption == MaxFaults \in Nat
ASSUME ScrapAssumption == Scrap \notin Row

VARIABLES
    serial,     \* whether the requests come one at a time
    kind,       \* which repository this is
    file,       \* the list in its file
    pc,         \* where each thread is
    op,         \* the method it has called
    items,      \* the list it is about to write
    temp,       \* its temporary file
    faults      \* failures so far

vars == <<serial, kind, file, pc, op, items, temp, faults>>

(* A file that does not parse as a list. *)
Damaged == {Scrap}

(* What can be called of a repository. *)
Calls(k) == [method : Methods(k), row : RowsOf(k, Row)]

ASSUME NoCallAssumption == \A k \in Kinds : NoCall \notin Calls(k)

Idle == {"idle", "returned", "raised", "dead"}

Working == {"reading", "writing", "replacing"}

Fault == faults < MaxFaults /\ faults' = faults + 1

NoFault == UNCHANGED faults

Goto(t, label) == pc' = [pc EXCEPT ![t] = label]

(* The call ends, and what the thread held of it is gone.  (A temporary file *)
(* that stays on disk has a name that is never read or used again.)          *)
Answer(t, label) ==
    /\ Goto(t, label)
    /\ op' = [op EXCEPT ![t] = NoCall]
    /\ items' = [items EXCEPT ![t] = {}]
    /\ temp' = [temp EXCEPT ![t] = "none"]

TypeOK ==
    /\ serial \in BOOLEAN
    /\ kind \in Kinds
    /\ file \in (SUBSET RowsOf(kind, Row)) \union {Damaged}
    /\ pc \in [Thread -> Idle \union Working]
    /\ op \in [Thread -> Calls(kind) \union {NoCall}]
    /\ items \in [Thread -> SUBSET RowsOf(kind, Row)]
    /\ temp \in [Thread -> {"none", "torn", "whole"}]
    /\ faults \in 0..MaxFaults

(* The file is missing or holds a list that was written before, or somebody *)
(* has damaged it.                                                          *)
Init ==
    /\ serial \in Modes
    /\ kind \in Kinds
    /\ \/ file \in SUBSET RowsOf(kind, Row) /\ Unique(kind, file)
       \/ file = Damaged
    /\ pc = [t \in Thread |-> "idle"]
    /\ op = [t \in Thread |-> NoCall]
    /\ items = [t \in Thread |-> {}]
    /\ temp = [t \in Thread |-> "none"]
    /\ faults = 0

Call(t) ==
    /\ pc[t] \in Idle
    /\ serial => \A q \in Thread : pc[q] \notin Working
    /\ \E o \in Calls(kind) :
          op' = [op EXCEPT ![t] = o]
    /\ Goto(t, "reading")
    /\ UNCHANGED <<serial, kind, file, items, temp, faults>>

(* Seeded fault: a damaged file is read as an empty list. *)
ReadAnything(t) ==
    LET rows == IF file = Damaged THEN {} ELSE file
    IN  /\ pc[t] = "reading"
        /\ ~Raises(kind, op[t], rows)
        /\ Writes(kind, op[t], rows)
        /\ items' = [items EXCEPT ![t] = After(kind, op[t], rows)]
        /\ Goto(t, "writing")
        /\ UNCHANGED <<serial, kind, file, op, temp, faults>>

(* read_json_list, and what the method makes of the list. *)
Read(t) ==
    /\ pc[t] = "reading"
    /\ file # Damaged
    /\ ~Raises(kind, op[t], file)
    /\ IF Writes(kind, op[t], file)
       THEN /\ items' = [items EXCEPT ![t] = After(kind, op[t], file)]
            /\ Goto(t, "writing")
            /\ UNCHANGED <<op, temp>>
       ELSE Answer(t, "returned")
    /\ UNCHANGED <<serial, kind, file, faults>>

ReadRaises(t) ==
    /\ pc[t] = "reading"
    /\ \/ Fault
       \/ NoFault /\ file = Damaged
       \/ NoFault /\ file # Damaged /\ Raises(kind, op[t], file)
    /\ Answer(t, "raised")
    /\ UNCHANGED <<serial, kind, file>>

(* The temporary file is written, flushed and synced before it is closed. *)
WriteTemp(t) ==
    /\ pc[t] = "writing"
    /\ temp' = [temp EXCEPT ![t] = "whole"]
    /\ Goto(t, "replacing")
    /\ UNCHANGED <<serial, kind, file, op, items, faults>>

(* Seeded fault: a temporary file that could not be completed is used. *)
WriteTempFailsUnnoticed(t) ==
    /\ pc[t] = "writing"
    /\ Fault
    /\ temp' = [temp EXCEPT ![t] = "torn"]
    /\ Goto(t, "replacing")
    /\ UNCHANGED <<serial, kind, file, op, items>>

(* A failure while it is written leaves it behind, torn: its name is only   *)
(* noted for the cleanup once it is complete.                               *)
WriteTempFails(t) ==
    /\ pc[t] = "writing"
    /\ Fault
    /\ Answer(t, "raised")
    /\ UNCHANGED <<serial, kind, file>>

Replace(t) ==
    /\ pc[t] = "replacing"
    /\ file' = IF temp[t] = "whole" THEN items[t] ELSE Damaged
    /\ Answer(t, "returned")
    /\ UNCHANGED <<serial, kind, faults>>

(* Seeded fault: the failure is noticed after the file was replaced. *)
ReplaceFailsLate(t) ==
    /\ pc[t] = "replacing"
    /\ Fault
    /\ file' = items[t]
    /\ Answer(t, "raised")
    /\ UNCHANGED <<serial, kind>>

ReplaceFails(t) ==
    /\ pc[t] = "replacing"
    /\ Fault
    /\ Answer(t, "raised")
    /\ UNCHANGED <<serial, kind, file>>

(* The process dies: the calls under way are gone, the file stays as it is, *)
(* and the next process calls from the same threads.                        *)
Crash ==
    /\ Fault
    /\ pc' = [t \in Thread |-> IF pc[t] \in Working THEN "dead" ELSE pc[t]]
    /\ op' = [t \in Thread |-> NoCall]
    /\ items' = [t \in Thread |-> {}]
    /\ temp' = [t \in Thread |-> "none"]
    /\ UNCHANGED <<serial, kind, file>>

Next ==
    \/ \E t \in Thread :
        \/ Call(t)
        \/ Read(t) \/ ReadRaises(t)
        \/ WriteTemp(t) \/ WriteTempFails(t)
        \/ Replace(t) \/ ReplaceFails(t)
    \/ Crash

Spec == Init /\ [][Next]_vars

---------------------------------------------------------------------------
(* However the calls interleave, fail or die, no two rows of a list clash:  *)
(* no two products have one id or one name, no product two configurations   *)
(* of one plugin, no two snapshots or profiles one id.                      *)
UniqueKeys == file # Damaged => Unique(kind, file)

(* A damaged file is not written over: no request turns it into an empty or *)
(* a one-row list.  And none damages it: os.replace only ever puts a        *)
(* complete list into its place.                                            *)
DamageIsKept == [][(file = Damaged) <=> (file' = Damaged)]_vars

(* One request at a time, a repository is atomic: whatever fails or dies,   *)
(* a method that returns has changed the list at once and as a whole, and a *)
(* method that raises has changed nothing.                                  *)
Seen == [t \in Thread |->
            IF ~serial THEN "idle"
            ELSE IF pc[t] \in Working THEN "working" ELSE pc[t]]

Store == INSTANCE AtomicStore WITH
    file   <- IF serial THEN file ELSE {},
    op     <- IF serial THEN op ELSE [t \in Thread |-> NoCall],
    status <- Seen

IsAtomic == Store!Spec

(* The Operation Log keeps every entry it ever had.                         *)
AppendOnly ==
    [][kind = "logs" /\ file # Damaged /\ file' # Damaged
        => file \subseteq file']_vars

(* What they rest on.  A list about to be written has no clash, and only a  *)
(* complete temporary file replaces the list.                               *)
WritesAreSound ==
    /\ \A t \in Thread :
        /\ Unique(kind, items[t])
        /\ pc[t] = "replacing" => temp[t] = "whole"
        /\ pc[t] \in {"writing", "replacing"} => file # Damaged
        /\ pc[t] \in Working => op[t] # NoCall

(* One request at a time, what was read is still what the file holds.       *)
SerialView ==
    serial => \A t \in Thread :
        /\ pc[t] \in Working =>
            \A q \in Thread : pc[q] \in Working => q = t
        /\ pc[t] \in {"writing", "replacing"} =>
            /\ ~Raises(kind, op[t], file)
            /\ items[t] = After(kind, op[t], file)

IInv == TypeOK /\ UniqueKeys /\ WritesAreSound /\ SerialView

===========================================================================
