-------------------------- MODULE SecondaryKeysInv ---------------------------
(***************************************************************************)
(* The inductive invariant of SecondaryKeys, for the rows that have not    *)
(* strayed and are not exposed.                                            *)
(***************************************************************************)
EXTENDS SecondaryKeys, CachedRowsInv

\* A row that has not strayed has its secondary key wherever a value of it is kept.
HasKey(k, v) == v # Absent => v[Email] = SecondaryOf[k]

KeepsKey(k) ==
  /\ HasKey(k, table[k]) /\ HasKey(k, latest[k]) /\ HasKey(k, cached[k])
  /\ \A u \in Users : pc[u] = "callback" /\ key[u] = k => HasKey(k, seen[u])
  /\ update[k].kind \in {"insert", "update"} => update[k].am[Email].val = SecondaryOf[k]

RowsKeepKeys == \A k \in Rows \ strayed : KeepsKey(k)

\* So has the row that an entry refers to, be it there or not.
AliasHasKey ==
  \A s \in Vals : alias[s] \notin {NoRow} \cup strayed => SecondaryOf[alias[s]] = s

\* A call by a secondary key runs on the row it has found, which has this key.
TargetHasKey ==
  \A u \in Users :
    /\ stage[u] \in {"none", "waiting", "unknown"} => target[u] = NoRow
    /\ target[u] \notin {NoRow} \cup strayed => SecondaryOf[target[u]] = skey[u]
    /\ stage[u] = "primary" /\ target[u] # NoRow => key[u] = target[u]

\* What a call is about to link is there.
LinkIsLive ==
  \A u \in Users :
    stage[u] = "link" /\ outcome[u] = "value" /\ target[u] \notin {NoRow} \cup exposed \cup strayed =>
      latest[target[u]] # Absent

KeyedInv ==
  /\ RowsInv
  /\ KeyedTypeOK
  /\ RowsKeepKeys
  /\ AliasHasKey
  /\ TargetHasKey
  /\ LinkIsLive
  /\ AliasIsLive

=============================================================================
