-------------------------------- MODULE ParRP --------------------------------
(***************************************************************************)
(* The partitioned replacement policy Par of par_rp.cc / par_rp.hh, for   *)
(* one cache set.  The set's NumWay entries are created one by one by     *)
(* instantiateEntry; the first of them creates the set's partition table  *)
(* (ParTable: ParConfig[p] entries per partition, each holding a way      *)
(* index or -1) and owner table (OwnerTable: partition x way -> bool).    *)
(* The cache controller that calls the policy is not in the repository,   *)
(* so every public method may be called with any way and partition; a     *)
(* failing assert() aborts the simulator (pc = "assert").  The inner      *)
(* replacement policy (replPolicy) keeps per-entry data that only decides *)
(* which partition entry is the victim, so its choice is nondeterministic.*)
(***************************************************************************)
EXTENDS Integers, FiniteSets, Functions

CONSTANTS
    NumWay,     \* num_way
    ParConfig   \* par_config: quota of every partition, a function 0..P-1 -> Nat

NoWay == -1

Ways == 0 .. NumWay - 1

Partitions == DOMAIN ParConfig

\* The entry slots of partition p in its ParTable row.
Slots(p) == 1 .. ParConfig[p]

VARIABLES
    m_count,      \* instance counter of replacement data (this set's share)
    par_table,    \* [p |-> [slot |-> way_index or -1]]
    owner_table,  \* [p |-> [way |-> BOOLEAN]]
    alive,        \* the ways whose ParReplData still exists
    freed,        \* how many times the set's tables have been deleted
    ret,          \* the way returned by the last getVictim call, or NoWay
    last_op,      \* the method called last (history only, read by no action)
    pc            \* "ok", or "assert" once an assert has failed

vars == <<m_count, par_table, owner_table, alive, freed, ret, last_op, pc>>

(* Mutant of EmptyParTable: the entry loop runs to i <= par_size. *)
EmptyParTableExtraSlot == [p \in Partitions |-> [i \in 0 .. ParConfig[p] |-> NoWay]]

(* The ParTable built by instantiateEntry: every entry empty (-1). *)
EmptyParTable == [p \in Partitions |-> [i \in Slots(p) |-> NoWay]]

(* The OwnerTable built by instantiateEntry: no way owned. *)
EmptyOwnerTable == [p \in Partitions |-> [w \in Ways |-> FALSE]]

(* Par::Par: the constructor is fatal unless the quotas add up to num_way. *)
TotParSize == FoldFunction(+, 0, ParConfig)

ConstructorOk == TotParSize = NumWay

Init ==
    /\ ConstructorOk
    /\ m_count = 0
    /\ par_table = EmptyParTable
    /\ owner_table = EmptyOwnerTable
    /\ alive = {}
    /\ freed = 0
    /\ ret = NoWay
    /\ last_op = "none"
    /\ pc = "ok"

(* The set's entries all exist, none destroyed: the policy is in use.     *)
InUse == pc = "ok" /\ m_count = NumWay /\ alive = Ways /\ freed = 0

Abort == pc' = "assert" /\ UNCHANGED <<m_count, par_table, owner_table, alive, freed, ret>>

(* get_owners *)
Owners(w) == {p \in Partitions : owner_table[p][w]}

(* The slots of partition p whose way_index is w. *)
SlotsHolding(p, w) == {i \in Slots(p) : par_table[p][i] = w}

(* The first slot of partition p whose way_index is w (the loops stop at  *)
(* the first match).                                                       *)
FirstSlot(p, w) == CHOOSE i \in SlotsHolding(p, w) : \A j \in SlotsHolding(p, w) : i <= j

(* get_replacement_data returns non-null iff some slot of p holds w. *)
HasReplData(p, w) == SlotsHolding(p, w) # {}

(* The count loop of touch and parAvail: non-empty slots of p. *)
Count(p) == Cardinality({i \in Slots(p) : par_table[p][i] # NoWay})

(* instantiateEntry: way m_count % num_way; at way 0 fresh tables.  Each  *)
(* entry wraps the raw table pointers in shared_ptrs of its own.          *)
InstantiateEntry ==
    /\ last_op' = "instantiateEntry"
    /\ pc = "ok"
    /\ m_count < NumWay
    /\ LET way_index == m_count % NumWay IN
       /\ IF way_index = 0
            THEN par_table' = EmptyParTable /\ owner_table' = EmptyOwnerTable
            ELSE UNCHANGED <<par_table, owner_table>>
       /\ alive' = alive \cup {way_index}
    /\ m_count' = m_count + 1
    /\ UNCHANGED <<freed, ret, pc>>

(* invalidate(rd): invalidate an unowned entry; only sanity checks. *)
Invalidate(w) ==
    /\ last_op' = "invalidate"
    /\ InUse
    /\ IF Owners(w) = {} /\ \A p \in Partitions : ~HasReplData(p, w)
         THEN ret' = NoWay /\ UNCHANGED <<m_count, par_table, owner_table, alive, freed, pc>>
         ELSE Abort

(* getVictim(candidates): the first candidate way no partition owns.  The *)
(* candidates are the set's ways in order.                                *)
GetVictim ==
    /\ last_op' = "getVictim"
    /\ InUse
    /\ LET unowned == {w \in Ways : Owners(w) = {}} IN
       IF unowned # {}
         THEN /\ ret' = CHOOSE w \in unowned : \A v \in unowned : w <= v
              /\ UNCHANGED <<m_count, par_table, owner_table, alive, freed, pc>>
         ELSE Abort

(* invalidate(rd, par_id): the way must be owned by the partition; drop   *)
(* the ownership and unlink the first par entry holding the way.          *)
InvalidatePar(w, p) ==
    /\ last_op' = "invalidatePar"
    /\ InUse
    /\ IF owner_table[p][w] /\ HasReplData(p, w)
         THEN /\ owner_table' = [owner_table EXCEPT ![p][w] = FALSE]
              /\ par_table' = [par_table EXCEPT ![p][FirstSlot(p, w)] = NoWay]
              /\ ret' = NoWay
              /\ UNCHANGED <<m_count, alive, freed, pc>>
         ELSE Abort

(* The bring-in branch of touch: claim the first empty slot of p for w. *)
BringIn(w, p) ==
    LET empty == SlotsHolding(p, NoWay)
    IN  IF Count(p) < ParConfig[p] /\ empty # {}
          THEN /\ owner_table' = [owner_table EXCEPT ![p][w] = TRUE]
               /\ par_table' = [par_table EXCEPT ![p][FirstSlot(p, NoWay)] = w]
               /\ ret' = NoWay
               /\ UNCHANGED <<m_count, alive, freed, pc>>
          ELSE Abort

(* Mutant of Touch: the ownership test is dropped, so a touch by an owner *)
(* brings the way in again.                                                *)
TouchNoOwnerCheck(w, p) ==
    /\ last_op' = "touch"
    /\ InUse
    /\ BringIn(w, p)

(* touch(rd, par_id): an owned way only updates the partition's inner     *)
(* replacement data; otherwise the way is brought into the partition,     *)
(* which must have a vacant entry.  Other partitions' ownership of the    *)
(* way is not looked at, so a way may be owned by several partitions.     *)
Touch(w, p) ==
    /\ last_op' = "touch"
    /\ InUse
    /\ IF owner_table[p][w]
         THEN IF HasReplData(p, w)
                THEN ret' = NoWay /\ UNCHANGED <<m_count, par_table, owner_table, alive, freed, pc>>
                ELSE Abort
         ELSE BringIn(w, p)

(* reset(rd, par_id): a newly filled way, which nobody may own, becomes   *)
(* owned by the partition in its first empty entry.                       *)
Reset(w, p) ==
    /\ last_op' = "reset"
    /\ InUse
    /\ IF Owners(w) = {} /\ ~HasReplData(p, w) /\ SlotsHolding(p, NoWay) # {}
         THEN /\ owner_table' = [owner_table EXCEPT ![p][w] = TRUE]
              /\ par_table' = [par_table EXCEPT ![p][FirstSlot(p, NoWay)] = w]
              /\ ret' = NoWay
              /\ UNCHANGED <<m_count, alive, freed, pc>>
         ELSE Abort

(* getVictim(candidates, par_id): the candidates the partition owns must  *)
(* number exactly its quota; the inner policy picks one of them.          *)
GetVictimPar(p) ==
    /\ last_op' = "getVictimPar"
    /\ InUse
    /\ LET par_candidates == {w \in Ways : owner_table[p][w]} IN
       IF /\ \A w \in par_candidates : HasReplData(p, w)
          /\ Cardinality(par_candidates) = ParConfig[p]
         THEN /\ \E victim \in par_candidates : ret' = victim
              /\ UNCHANGED <<m_count, par_table, owner_table, alive, freed, pc>>
         ELSE Abort

(* Mutant of ParAvail: a full partition is reported available. *)
ParAvailLe(p) == Count(p) <= ParConfig[p]

(* parAvail: whether the partition has a free entry. *)
ParAvail(p) == Count(p) < ParConfig[p]

(* parHit: whether the partition owns the way. *)
ParHit(w, p) == owner_table[p][w]

(* Destruction of the ParReplData of way w.  Its shared_ptr to the set's  *)
(* tables is the only one of its control block, so the tables go with it. *)
DestroyEntry(w) ==
    /\ last_op' = "destroy"
    /\ pc = "ok"
    /\ m_count = NumWay
    /\ w \in alive
    /\ alive' = alive \ {w}
    /\ freed' = freed + 1
    /\ UNCHANGED <<m_count, par_table, owner_table, ret, pc>>

Next ==
    \/ InstantiateEntry
    \/ GetVictim
    \/ \E p \in Partitions : GetVictimPar(p)
    \/ \E w \in Ways : Invalidate(w) \/ DestroyEntry(w)
    \/ \E w \in Ways, p \in Partitions :
          InvalidatePar(w, p) \/ Touch(w, p) \/ Reset(w, p)

Spec == Init /\ [][Next]_vars

TypeOK ==
    /\ m_count \in 0 .. NumWay
    /\ par_table \in [Partitions -> UNION {[Slots(p) -> Ways \cup {NoWay}] : p \in Partitions}]
    /\ \A p \in Partitions : DOMAIN par_table[p] = Slots(p)
    /\ owner_table \in [Partitions -> [Ways -> BOOLEAN]]
    /\ alive \subseteq Ways
    /\ freed \in 0 .. NumWay
    /\ ret \in Ways \cup {NoWay}
    /\ last_op \in {"none", "instantiateEntry", "invalidate", "getVictim", "invalidatePar",
                    "touch", "reset", "getVictimPar", "destroy"}
    /\ pc \in {"ok", "assert"}

(* The two tables of a set never disagree while no assert has failed: a   *)
(* partition owns a way in the owner table exactly when one of its par    *)
(* entries holds the way, and never in two entries.  touch, reset and the *)
(* partition invalidate each update both tables, in separate loops.       *)
TablesAgree ==
    pc = "ok" =>
      \A p \in Partitions, w \in Ways :
         /\ owner_table[p][w] <=> HasReplData(p, w)
         /\ Cardinality(SlotsHolding(p, w)) <= 1

(* The comment of getVictim(candidates) says an unowned way is guaranteed *)
(* to exist when it is called, i.e. when the requesting partition has a   *)
(* free entry (parAvail).  This rests on the constructor's check that the *)
(* quotas add up to num_way and on touch's vacancy assert.                *)
UnownedVictimExists ==
    (InUse /\ \E p \in Partitions : ParAvail(p)) => \E w \in Ways : Owners(w) = {}

(* The comment of getVictim(candidates, par_id) says the victim is chosen *)
(* among entries solely owned by the partition.                           *)
VictimSolelyOwned ==
    pc = "ok" /\ ret # NoWay => Cardinality(Owners(ret)) <= 1

(* The set's tables are deleted at most once. *)
TablesFreedOnce == freed <= 1
====
