-------------------------- MODULE TcmManagerArena --------------------------
(***************************************************************************)
(* One of the arenas of TcmManager, as TcmArena sees it.                   *)
(***************************************************************************)
EXTENDS TcmManager

CONSTANT Observed    \* the number of the arena

ASSUME TcmManagerArenaAssumption == Observed \in Nat

Arena == INSTANCE TcmArena WITH
    Base <- ArenaBase(Observed), Size <- ArenaBytes,
    Requests <- {Bytes}, Alignments <- {Alignment},
    Pointers <- ArenaBase(Observed) .. ArenaBase(Observed) + ArenaBytes - 1,
    free <- FreeAfterCall(Observed),
    allocations <- allocations[Observed],
    result <- answer[Observed]

\* Under its mutex an arena behaves as if each allocate() and deallocate() on
\* it were one indivisible step, whichever workers make the calls.
ImplementsArena ==
    /\ Observed \in Arenas => Arena!Init
    /\ [][(Observed \in Arenas) => [Arena!Next]_(Arena!vars)]_vars
=============================================================================
