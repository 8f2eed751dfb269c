--------------------------- MODULE MCLogCollector ---------------------------
(* A small instance of LogCollector for TLC. *)
EXTENDS LogCollector

CONSTANTS top, other, sub, a, b, c

(* A source with two files and a directory that holds a third; a second one. *)
Tree == [p \in Path |-> CASE p \in {top, other} -> None
                          [] p \in {a, sub} -> top
                          [] p = b -> sub
                          [] p = c -> other]

Directory == [kind |-> "directory", file |-> None]
Nothing == [kind |-> "absent", file |-> None]
LogFile(f) == [kind |-> "file", file |-> f]

Disk == [p \in Path |-> CASE p \in {top, other, sub} -> Directory
                          [] p = a -> LogFile(1)
                          [] p = b -> LogFile(2)
                          [] p = c -> LogFile(3)]

Size(n) == [size |-> n, version |-> 0]

Begin(usable, sources, dsk, sizes, faults, changes) ==
    [usable |-> usable, sources |-> sources, disk |-> dsk,
     body |-> [f \in 1..3 |-> Size(sizes[f])],
     budget |-> [faults |-> faults, changes |-> changes]]

(* Failing calls and changes; files that do not all fit in; a source that is *)
(* not there, or is in another one; no source that may be used.              *)
Beginnings ==
    {Begin(TRUE, <<top>>, Disk, <<1, 1, 1>>, n, 3 - n) : n \in 0..3}
    \union {Begin(TRUE, <<top, other>>, Disk, <<1, 1, 2>>, 1, 2),
            Begin(TRUE, <<top, other>>, Disk, <<1, 2, 1>>, 0, 2),
            Begin(TRUE, <<other, top>>, [Disk EXCEPT ![other] = Nothing],
                  <<1, 1, 1>>, 1, 0),
            Begin(TRUE, <<top, sub>>, [Disk EXCEPT ![a] = Nothing],
                  <<1, 1, 1>>, 1, 1),
            Begin(FALSE, <<>>, Disk, <<1, 1, 1>>, 1, 0)}

===========================================================================
