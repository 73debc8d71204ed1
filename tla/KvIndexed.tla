----------------------------- MODULE KvIndexed -----------------------------
(***************************************************************************)
(* The value index the two loopspace kvtx implementations keep next to the *)
(* committed contents: armB a counter per value, the rerun arm the set of  *)
(* keys per value.  Both are dicts whose entry for a value is deleted with *)
(* its last key, and both are indexed with [old] and no default, so an     *)
(* entry that is missing when it is needed is a KeyError in the middle of  *)
(* an operation.  The index is touched by set() and delete() outside       *)
(* transactions and, item by item, by commit().                            *)
(***************************************************************************)
EXTENDS KvOverlay

ASSUME KeysAssumption == IsFiniteSet(Keys)

VARIABLES
    vc,        \* armB  _vk: value -> number of keys
    vk         \* rerun _vk: value -> set of keys

ivars == << vars, vc, vk >>

ITypeOK ==
    /\ TypeOK
    /\ DOMAIN vc \subseteq Values /\ \A v \in DOMAIN vc : vc[v] \in Nat \ {0}
    /\ DOMAIN vk \subseteq Values /\ \A v \in DOMAIN vk : vk[v] \in (SUBSET Keys) \ {{}}

Drop(f, v) == [w \in DOMAIN f \ {v} |-> f[w]]
Put(f, v, x) == [w \in DOMAIN f \cup {v} |-> IF w = v THEN x ELSE f[w]]

\* The old value's entry loses k and disappears with its last key.
CountOut(c, old) == IF c[old] = 1 THEN Drop(c, old) ELSE Put(c, old, c[old] - 1)
KeysOut(s, old, k) ==
    IF s[old] \subseteq {k} THEN Drop(s, old) ELSE Put(s, old, s[old] \ {k})

\* The new value's entry gains k, or is created for it.
CountIn(c, new) == Put(c, new, IF new \in DOMAIN c THEN c[new] + 1 ELSE 1)
KeysIn(s, new, k) ==
    Put(s, new, IF new \in DOMAIN s THEN s[new] \cup {k} ELSE {k})

\* Mutant: overwriting a value forgets to take k out of its old entry.
ReindexNoOut(k, new) ==
    IF new = None
    THEN UNCHANGED << vc, vk >>
    ELSE vc' = CountIn(vc, new) /\ vk' = KeysIn(vk, new, k)

\* Mutant: the entry of a value that lost its last key is kept, empty.
ReindexKeepEmpty(k, new) ==
    LET old == base[k]
        c == IF old = None THEN vc ELSE Put(vc, old, vc[old] - 1)
        s == IF old = None THEN vk ELSE Put(vk, old, vk[old] \ {k})
    IN /\ vc' = IF new = None THEN c ELSE CountIn(c, new)
       /\ vk' = IF new = None THEN s ELSE KeysIn(s, new, k)

\* k changes from base[k] to new in the committed contents.
Reindex(k, new) ==
    LET old == base[k]
        c == IF old = None THEN vc ELSE CountOut(vc, old)
        s == IF old = None THEN vk ELSE KeysOut(vk, old, k)
    IN /\ vc' = IF new = None THEN c ELSE CountIn(c, new)
       /\ vk' = IF new = None THEN s ELSE KeysIn(s, new, k)

IInit == Init /\ vc = << >> /\ vk = << >>

IWrite(k, entry) ==
    /\ Write(k, entry)
    /\ IF frames = << >>
       THEN Reindex(k, Over(entry, base[k]))
       ELSE UNCHANGED << vc, vk >>

ICommitItem(k) == CommitItem(k) /\ Reindex(k, Over(frames[fi][k], base[k]))

INext ==
    \/ \E k \in Keys, v \in Values : IWrite(k, v)
    \/ \E k \in Keys : IWrite(k, Deleted)
    \/ Begin /\ UNCHANGED << vc, vk >>
    \/ Rollback /\ UNCHANGED << vc, vk >>
    \/ CommitStart /\ UNCHANGED << vc, vk >>
    \/ \E k \in Keys : ICommitItem(k)
    \/ CommitNextFrame /\ UNCHANGED << vc, vk >>
    \/ CommitEnd /\ UNCHANGED << vc, vk >>

ISpec == IInit /\ [][INext]_ivars

----------------------------------------------------------------------------
\* Properties

KeysHolding(v) == {k \in Keys : base[k] = v}
ValuesHeld == {v \in Values : KeysHolding(v) # {}}

\* Both indexes describe the committed contents exactly, in every state and
\* half way through commit(): an entry per value held, none for any other.
\* In particular no write ever finds the entry of the old value missing.
IndexIsExact ==
    /\ DOMAIN vk = ValuesHeld
    /\ DOMAIN vc = ValuesHeld
    /\ \A v \in ValuesHeld :
          /\ vk[v] = KeysHolding(v)
          /\ vc[v] = Cardinality(KeysHolding(v))
=============================================================================
