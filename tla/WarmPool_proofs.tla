--------------------------- MODULE WarmPool_proofs ---------------------------
(***************************************************************************)
(* For any number of clients, VMs, faults and drains: every VM of the pool *)
(* has one holder and its handler, a VM is abandoned only by a failed stop,*)
(* the idle list overshoots max_size by at most one round of replenishment,*)
(* and a drained pool is quiet.                                            *)
(***************************************************************************)
EXTENDS WarmPool, SequenceTheorems, FiniteSetTheorems, TLAPS

-----------------------------------------------------------------------------
(* Lists of VMs                                                            *)

\* No entry occurs twice.
Distinct(s) == \A i, j \in DOMAIN s : s[i] = s[j] => i = j

\* A nonempty set of naturals has a least element.
LEMMA Least ==
    ASSUME NEW S \in SUBSET Nat, S # {}
    PROVE  \E x \in S : \A y \in S : x <= y
<1> DEFINE T == {0 .. x : x \in S}
           R == StrictSubsetOrdering(Nat)
<1>1. T \subseteq FiniteSubsetsOf(Nat) /\ T # {}
  <2>1. \A x \in S : IsFiniteSet(0 .. x)
      BY FS_Interval
  <2>2. \A x \in S : 0 .. x \in SUBSET Nat
      OBVIOUS
  <2> QED  BY <2>1, <2>2 DEF FiniteSubsetsOf
<1>2. IsWellFoundedOn(R, FiniteSubsetsOf(Nat))
    BY FS_StrictSubsetOrderingWellFounded
<1>3. PICK A \in T : \A B \in T : ~ (<<B, A>> \in R)
  <2> HIDE DEF R, T
  <2> QED  BY <1>1, <1>2, WFMin
<1>4. PICK x \in S : A = 0 .. x
    BY <1>3
<1>5. ASSUME NEW y \in S, y < x
      PROVE  FALSE
  <2>1. 0 .. y \in T /\ 0 .. y \in SUBSET Nat /\ A \in SUBSET Nat
      BY <1>4
  <2>2. 0 .. y \subseteq A /\ 0 .. y # A
      BY <1>4, <1>5
  <2>3. <<0 .. y, A>> \in R
      BY <2>1, <2>2 DEF StrictSubsetOrdering
  <2> QED  BY <1>3, <2>1, <2>3
<1> QED  BY <1>5

\* A nonempty set of positions of a list has a greatest element.
LEMMA Greatest ==
    ASSUME NEW n \in Nat, NEW S \in SUBSET (1 .. n), S # {}
    PROVE  \E x \in S : \A y \in S : y <= x
<1> DEFINE T == {n - x : x \in S}
<1>0. \A x \in S : x \in Int /\ 1 <= x /\ x <= n
    OBVIOUS
<1>1. \A x \in S : n - x \in Nat
    BY <1>0
<1>2. T \in SUBSET Nat /\ T # {}
    BY <1>1
<1>3. PICK m \in T : \A k \in T : m <= k
  <2> HIDE DEF T
  <2> QED  BY <1>2, Least
<1>4. PICK x \in S : m = n - x
    BY <1>3
<1>5. \A y \in S : n - x <= n - y
    BY <1>3, <1>4
<1> QED  BY <1>0, <1>5

\* Append of a VM that is not in the list.
LEMMA AppendVm ==
    ASSUME NEW S, NEW s \in Seq(S), NEW v \in S, v \notin Range(s), Distinct(s)
    PROVE  /\ Append(s, v) \in Seq(S) /\ Distinct(Append(s, v))
           /\ Range(Append(s, v)) = Range(s) \cup {v}
           /\ Len(Append(s, v)) = Len(s) + 1
  BY AppendProperties, LenProperties DEF Range, Distinct

\* The first k entries.
LEMMA Prefix ==
    ASSUME NEW S, NEW s \in Seq(S), NEW k \in Nat, k <= Len(s)
    PROVE  LET a == SubSeq(s, 1, k)
           IN  /\ a \in Seq(S) /\ Len(a) = k /\ DOMAIN a = 1 .. k
               /\ \A i \in 1 .. k : a[i] = s[i]
<1> DEFINE a == SubSeq(s, 1, k)
<1>1. Len(s) \in Nat /\ \A i \in 1 .. Len(s) : s[i] \in S
    BY LenProperties, ElementOfSeq
<1>2. \A i \in 1 .. k : s[i] \in S
    BY <1>1
<1>3. /\ a \in Seq(S) /\ Len(a) = IF 1 <= k THEN k - 1 + 1 ELSE 0
      /\ \A i \in 1 .. k - 1 + 1 : a[i] = s[1 + i - 1]
    BY <1>2, SubSeqProperties
<1> HIDE DEF a
<1>4. Len(a) = k
    BY <1>3
<1>5. ASSUME NEW i \in 1 .. k
      PROVE  a[i] = s[i]
  <2>1. i \in 1 .. k - 1 + 1 /\ 1 + i - 1 = i
      OBVIOUS
  <2>2. a[i] = s[1 + i - 1]
      BY <1>3, <2>1
  <2> QED  BY <2>1, <2>2
<1>6. DOMAIN a = 1 .. k
    BY <1>3, <1>4, LenProperties
<1> QED  BY <1>3, <1>4, <1>5, <1>6 DEF a

\* The entries after the first k.
LEMMA Suffix ==
    ASSUME NEW S, NEW s \in Seq(S), NEW k \in Nat, k <= Len(s)
    PROVE  LET b == SubSeq(s, k + 1, Len(s))
               l == Len(s) - k
           IN  /\ b \in Seq(S) /\ Len(b) = l /\ l \in Nat /\ DOMAIN b = 1 .. l
               /\ \A i \in 1 .. l : b[i] = s[k + i]
<1> DEFINE b == SubSeq(s, k + 1, Len(s))
           n == Len(s)
<1>1. n \in Nat /\ \A i \in 1 .. n : s[i] \in S
    BY LenProperties, ElementOfSeq
<1>2. \A i \in k + 1 .. n : s[i] \in S
    BY <1>1
<1>3. /\ b \in Seq(S) /\ Len(b) = IF k + 1 <= n THEN n - (k + 1) + 1 ELSE 0
      /\ \A i \in 1 .. n - (k + 1) + 1 : b[i] = s[(k + 1) + i - 1]
  <2>1. k + 1 \in Int /\ n \in Int
      BY <1>1
  <2> QED  BY <1>2, <2>1, SubSeqProperties
<1> HIDE DEF b
<1>4. Len(b) = n - k /\ n - k \in Nat
    BY <1>1, <1>3
<1>5. ASSUME NEW i \in 1 .. n - k
      PROVE  b[i] = s[k + i]
  <2>1. i \in 1 .. n - (k + 1) + 1 /\ (k + 1) + i - 1 = k + i
      BY <1>1
  <2>2. b[i] = s[(k + 1) + i - 1]
      BY <1>3, <2>1
  <2> QED  BY <2>1, <2>2
<1>6. DOMAIN b = 1 .. n - k
    BY <1>3, <1>4, LenProperties
<1> QED  BY <1>3, <1>4, <1>5, <1>6 DEF b

\* A list cut in two: evict_expired takes a prefix.
LEMMA Cut ==
    ASSUME NEW S, NEW s \in Seq(S), Distinct(s), NEW k \in 0 .. Len(s)
    PROVE  LET a == SubSeq(s, 1, k)
               b == SubSeq(s, k + 1, Len(s))
           IN  /\ a \in Seq(S) /\ Distinct(a) /\ Len(a) = k
               /\ b \in Seq(S) /\ Distinct(b) /\ Len(b) = Len(s) - k
               /\ Range(a) \cap Range(b) = {}
               /\ Range(a) \cup Range(b) = Range(s)
<1> DEFINE a == SubSeq(s, 1, k)
           b == SubSeq(s, k + 1, Len(s))
<1>1. Len(s) \in Nat /\ DOMAIN s = 1 .. Len(s) /\ \A i \in 1 .. Len(s) : s[i] \in S
    BY LenProperties, ElementOfSeq
<1>2. a \in Seq(S) /\ Len(a) = k /\ DOMAIN a = 1 .. k /\ \A i \in 1 .. k : a[i] = s[i]
    BY <1>1, Prefix
<1>3. /\ b \in Seq(S) /\ Len(b) = Len(s) - k /\ DOMAIN b = 1 .. Len(s) - k
      /\ \A i \in 1 .. Len(s) - k : b[i] = s[k + i]
  <2>1. k \in Nat /\ k <= Len(s)
      BY <1>1
  <2> QED  BY <2>1, Suffix
<1> HIDE DEF a, b
<1>0. /\ \A i \in 1 .. k : i \in 1 .. Len(s)
      /\ \A i \in 1 .. Len(s) - k : k + i \in 1 .. Len(s) /\ k + i \notin 1 .. k
      /\ \A i, j \in 1 .. Len(s) - k : k + i = k + j => i = j
    BY <1>1
<1>4. Distinct(a) /\ Distinct(b)
  <2>1. ASSUME NEW i \in 1 .. k, NEW j \in 1 .. k, a[i] = a[j]
        PROVE  i = j
      BY <2>1, <1>0, <1>1, <1>2 DEF Distinct
  <2>2. ASSUME NEW i \in 1 .. Len(s) - k, NEW j \in 1 .. Len(s) - k, b[i] = b[j]
        PROVE  i = j
    <3>1. s[k + i] = s[k + j] /\ k + i \in 1 .. Len(s) /\ k + j \in 1 .. Len(s)
        BY <2>2, <1>0, <1>3
    <3>2. k + i = k + j
        BY <3>1, <1>1 DEF Distinct
    <3> QED  BY <3>2, <1>0
  <2> QED  BY <2>1, <2>2, <1>2, <1>3 DEF Distinct
<1>5. Range(a) \cap Range(b) = {}
  <2>0. DOMAIN a = 1 .. k /\ DOMAIN b = 1 .. Len(s) - k
      BY <1>2, <1>3
  <2> SUFFICES ASSUME NEW i \in DOMAIN a, NEW j \in DOMAIN b, a[i] = b[j]
               PROVE  FALSE
      BY DEF Range
  <2>1. s[i] = s[k + j]
      BY <2>0, <1>2, <1>3
  <2>2. i \in 1 .. Len(s) /\ k + j \in 1 .. Len(s) /\ i # k + j
      BY <2>0, <1>0
  <2> QED  BY <2>1, <2>2, <1>1 DEF Distinct
<1>6. Range(a) \subseteq Range(s) /\ Range(b) \subseteq Range(s)
  <2>1. \A i \in DOMAIN a : a[i] \in Range(s)
      BY <1>0, <1>1, <1>2 DEF Range
  <2>2. ASSUME NEW i \in DOMAIN b
        PROVE  b[i] \in Range(s)
    <3>1. b[i] = s[k + i] /\ k + i \in DOMAIN s
        BY <1>0, <1>1, <1>3
    <3> QED  BY <3>1 DEF Range
  <2> QED  BY <2>1, <2>2 DEF Range
<1>7. ASSUME NEW i \in 1 .. Len(s)
      PROVE  s[i] \in Range(a) \cup Range(b)
  <2>1. CASE i <= k
      BY <2>1, <1>1, <1>2 DEF Range
  <2>2. CASE i > k
    <3>1. i - k \in 1 .. Len(s) - k /\ b[i - k] = s[i]
        BY <2>2, <1>1, <1>3
    <3> QED  BY <3>1, <1>3 DEF Range
  <2> QED  BY <2>1, <2>2, <1>1
<1>8. Range(s) \subseteq Range(a) \cup Range(b)
    BY <1>1, <1>7 DEF Range
<1> QED  BY <1>2, <1>3, <1>4, <1>5, <1>6, <1>8 DEF a, b

\* One entry removed, as remove_idle_vms does.
LEMMA Remove ==
    ASSUME NEW S, NEW s \in Seq(S), Distinct(s), NEW i \in 1 .. Len(s)
    PROVE  LET r == SubSeq(s, 1, i - 1) \o SubSeq(s, i + 1, Len(s))
           IN  /\ r \in Seq(S) /\ Distinct(r) /\ Len(r) = Len(s) - 1
               /\ Range(r) = Range(s) \ {s[i]}
<1> DEFINE a == SubSeq(s, 1, i - 1)
           b == SubSeq(s, i + 1, Len(s))
           r == a \o b
           n == Len(s)
<1>1. n \in Nat /\ DOMAIN s = 1 .. n /\ \A j \in 1 .. n : s[j] \in S
    BY LenProperties, ElementOfSeq
<1>2. a \in Seq(S) /\ Len(a) = i - 1 /\ \A j \in 1 .. i - 1 : a[j] = s[j]
  <2>1. i - 1 \in Nat /\ i - 1 <= Len(s)
      BY <1>1
  <2> QED  BY <2>1, Prefix
<1>3. b \in Seq(S) /\ Len(b) = n - i /\ \A j \in 1 .. n - i : b[j] = s[i + j]
  <2>1. i \in Nat /\ i <= Len(s)
      BY <1>1
  <2> QED  BY <2>1, Suffix
<1> HIDE DEF a, b, n
<1>4. r \in Seq(S) /\ Len(r) = n - 1
  <2>1. r \in Seq(S) /\ Len(r) = Len(a) + Len(b)
      BY <1>2, <1>3, ConcatProperties
  <2>2. i - 1 + (n - i) = n - 1
      BY <1>1 DEF n
  <2> HIDE DEF r
  <2> QED  BY <2>1, <2>2, <1>2, <1>3
<1>5. DOMAIN r = 1 .. n - 1
    BY <1>4, LenProperties
<1>6. \A j \in 1 .. n - 1 : r[j] = IF j < i THEN s[j] ELSE s[j + 1]
  <2>1. \A j \in 1 .. n - 1 : r[j] = IF j <= i - 1 THEN a[j] ELSE b[j - (i - 1)]
      BY <1>1, <1>2, <1>3, ConcatProperties
  <2> HIDE DEF r
  <2> SUFFICES ASSUME NEW j \in 1 .. n - 1
               PROVE  r[j] = IF j < i THEN s[j] ELSE s[j + 1]
      OBVIOUS
  <2>2. CASE j < i
      BY <2>1, <2>2, <1>1, <1>2 DEF n
  <2>3. CASE ~(j < i)
    <3>1. j - (i - 1) \in 1 .. n - i /\ i + (j - (i - 1)) = j + 1
        BY <2>3, <1>1 DEF n
    <3>2. b[j - (i - 1)] = s[j + 1]
        BY <3>1, <1>3
    <3> QED  BY <3>2, <2>1, <2>3, <1>1 DEF n
  <2> QED  BY <2>2, <2>3
<1> HIDE DEF r
<1>7. Distinct(r)
    BY <1>1, <1>5, <1>6 DEF Distinct, n
<1>8. Range(r) \subseteq Range(s) \ {s[i]}
    BY <1>1, <1>5, <1>6 DEF Distinct, Range, n
<1>9. ASSUME NEW j \in 1 .. n, j # i
      PROVE  s[j] \in Range(r)
  <2>1. CASE j < i
      BY <2>1, <1>1, <1>5, <1>6 DEF Range, n
  <2>2. CASE j > i
    <3>1. j - 1 \in 1 .. n - 1 /\ r[j - 1] = s[j]
        BY <2>2, <1>1, <1>6 DEF n
    <3> QED  BY <3>1, <1>5 DEF Range
  <2> QED  BY <2>1, <2>2, <1>9, <1>1 DEF n
<1>10. Range(s) \ {s[i]} \subseteq Range(r)
    BY <1>1, <1>9 DEF Range
<1> QED  BY <1>4, <1>7, <1>8, <1>10 DEF a, b, r, n

\* The first entry removed, as in drain and in the loop's hands.
LEMMA RemoveHead ==
    ASSUME NEW S, NEW s \in Seq(S), Distinct(s), s # <<>>
    PROVE  /\ Head(s) \in Range(s)
           /\ Tail(s) \in Seq(S) /\ Distinct(Tail(s)) /\ Len(Tail(s)) = Len(s) - 1
           /\ Range(Tail(s)) = Range(s) \ {Head(s)}
<1>1. Len(s) \in Nat \ {0} /\ DOMAIN s = 1 .. Len(s)
    BY EmptySeq, LenProperties
<1>2. Head(s) = s[1]
    OBVIOUS
<1>3. Tail(s) = SubSeq(s, 2, Len(s)) /\ SubSeq(s, 1, 0) = <<>>
    BY TailIsSubSeq, SubSeqEmpty
<1>4. Tail(s) \in Seq(S)
    BY HeadTailProperties
<1> DEFINE r == SubSeq(s, 1, 1 - 1) \o SubSeq(s, 1 + 1, Len(s))
<1>5. Tail(s) = r
    BY <1>3, <1>4, ConcatEmptySeq
<1>6. 1 \in 1 .. Len(s)
    BY <1>1
<1>7. Head(s) \in Range(s)
    BY <1>1, <1>2, <1>6 DEF Range
<1>8. r \in Seq(S) /\ Distinct(r) /\ Len(r) = Len(s) - 1 /\ Range(r) = Range(s) \ {s[1]}
    BY <1>6, Remove, Zenon
<1> HIDE DEF r
<1> QED  BY <1>2, <1>5, <1>7, <1>8

\* The last entry removed, as acquire does.
LEMMA RemoveLast ==
    ASSUME NEW S, NEW s \in Seq(S), Distinct(s), s # <<>>
    PROVE  /\ s[Len(s)] \in Range(s)
           /\ pop(s) \in Seq(S) /\ Distinct(pop(s)) /\ Len(pop(s)) = Len(s) - 1
           /\ Range(pop(s)) = Range(s) \ {s[Len(s)]}
<1>1. Len(s) \in Nat \ {0} /\ DOMAIN s = 1 .. Len(s)
    BY EmptySeq, LenProperties
<1>2. SubSeq(s, Len(s) + 1, Len(s)) = <<>>
    BY <1>1, SubSeqEmpty
<1>3. pop(s) \in Seq(S)
  <2>1. Len(s) - 1 \in Nat /\ Len(s) - 1 <= Len(s)
      BY <1>1
  <2> QED  BY <2>1, Prefix DEF pop
<1> DEFINE r == SubSeq(s, 1, Len(s) - 1) \o SubSeq(s, Len(s) + 1, Len(s))
<1>4. pop(s) = r
    BY <1>2, <1>3, ConcatEmptySeq DEF pop
<1>5. Len(s) \in 1 .. Len(s)
    BY <1>1
<1>6. s[Len(s)] \in Range(s)
    BY <1>1, <1>5 DEF Range
<1>7. r \in Seq(S) /\ Distinct(r) /\ Len(r) = Len(s) - 1 /\ Range(r) = Range(s) \ {s[Len(s)]}
    BY <1>5, Remove, Zenon
<1> HIDE DEF r
<1> QED  BY <1>4, <1>6, <1>7

-----------------------------------------------------------------------------
(* The invariant                                                           *)

Carrying == {"ready", "push", "have", "destroy"}
Filling  == {"fill", "boot", "ready", "push", "rollback"}
Replenishing == {"boot", "ready", "push"}

\* Which points each task reaches, which of them have a VM in hand, and how the
\* loop follows the main task: it is spawned when the fill is over, and has ended
\* when drain gets past its await.
Control ==
    /\ \A t \in Tasks : task[t].vm # NoVm <=> task[t].pc \in Carrying
    /\ \A c \in Clients : task[c].pc \in {"out", "boot", "ready", "have", "destroy"}
    /\ task[Main].pc \in Filling \cup {"serve", "await", "drain", "drained"}
    /\ task[Loop].pc \in Replenishing \cup {"out", "wait", "evict", "scale", "count", "done"}
    /\ task[Main].pc \in Filling => At(Loop, "out")
    /\ task[Main].pc \in {"drain", "drained"} => At(Loop, "done")
    /\ hand # <<>> => At(Loop, "evict")

\* What the scaler may ask for.
Target == IF MinIdle > max_min_idle THEN MinIdle ELSE max_min_idle

\* The pushes the loop still owes to the list in this round.
Owed == IF task[Loop].pc \in Replenishing THEN need[Loop] ELSE 0

\* The fill stops at min_idle; the loop's round was counted against the target,
\* and releases fill the list up to max_size only.
Bounds ==
    /\ eff <= Target
    /\ task[Main].pc \in Filling =>
         Len(idle) + need[Main] + (IF task[Main].pc \in Replenishing THEN 1 ELSE 0) <= MinIdle
    /\ task[Loop].pc \in Replenishing => need[Loop] >= 1 /\ need[Loop] <= Target
    /\ Len(idle) + Owed <= MaxSize + Target

\* No VM is held twice.
OneHolder ==
    /\ Distinct(idle) /\ Distinct(hand) /\ Range(idle) \cap Range(hand) = {}
    /\ \A t \in Tasks : task[t].vm \notin Range(idle) \cup Range(hand)
    /\ \A t, u \in Tasks : task[t].vm = task[u].vm /\ task[t].vm # NoVm => t = u

Held(v) ==
    v \in Range(idle) \/ v \in Range(hand) \/ \E t \in Tasks : task[t].vm = v

\* The handler of a VM is held with it, and only then; what is held is not stopped.
Handled ==
    \A v \in VMs :
      /\ vm[v].handler <=> Held(v)
      /\ vm[v].handler => vm[v].state # "Stopped"

\* Failed stops are counted.
FaultsCounted == Cardinality(Abandoned) <= count.faults

Inv ==
    /\ TypeOK
    /\ Control
    /\ Bounds
    /\ OneHolder
    /\ Handled
    /\ FaultsCounted

-----------------------------------------------------------------------------
(* One VM                                                                  *)

\* What a successful or failed destroy leaves of a VM that is not stopped yet: no
\* handler, and nothing on the host unless the stop failed.
LEMMA DestroyFacts ==
    ASSUME NEW m \in Vm, NEW stopped \in BOOLEAN, m.state # "Stopped", m.handler
    PROVE  LET r == Drop(destroy_with_options(m, stopped))
           IN  r \in Vm /\ ~r.handler /\ (stopped => Gone(r))
<1> DEFINE d == destroy_with_options(m, stopped)
<1>1. m.up \in BOOLEAN /\ m.dir \in BOOLEAN
    BY DEF Vm
<1>2. d = [state |-> "Stopped", handler |-> FALSE,
           up |-> m.up /\ (m.handler /\ ~stopped), dir |-> m.dir /\ (m.handler /\ ~stopped)]
    BY DEF destroy_with_options
<1> HIDE DEF d
<1>3. d \in Vm /\ ~d.handler
    BY <1>1, <1>2, Zenon DEF Vm
<1>4. stopped => Gone(d)
    BY <1>2, Zenon DEF Gone
<1>5. NoManager \in Vm /\ ~NoManager.handler /\ Gone(NoManager)
    BY Zenon DEF NoManager, Vm, Gone
<1>6. Drop(d) = NoManager \/ Drop(d) = d
    BY DEF Drop
<1>7. CASE Drop(d) = NoManager
    BY <1>5, <1>7, Zenon DEF d
<1>8. CASE Drop(d) = d
    BY <1>3, <1>4, <1>8, Zenon DEF d
<1> QED  BY <1>6, <1>7, <1>8

\* What cleanup_boot_failure leaves: no handler.
LEMMA CleanupFacts ==
    ASSUME NEW m \in Vm, NEW stopped \in BOOLEAN
    PROVE  LET r == Drop(cleanup_boot_failure(m, stopped))
           IN  r \in Vm /\ ~r.handler
<1> DEFINE d == cleanup_boot_failure(m, stopped)
<1>1. m.up \in BOOLEAN /\ m.handler \in BOOLEAN
    BY DEF Vm
<1>2. d = [m EXCEPT !.handler = FALSE, !.up = m.up /\ m.handler /\ ~stopped, !.dir = FALSE]
    BY DEF cleanup_boot_failure
<1>3. d \in Vm /\ ~d.handler
    BY <1>1, <1>2, Zenon DEF Vm
<1>4. NoManager \in Vm /\ ~NoManager.handler
    BY Zenon DEF NoManager, Vm
<1> HIDE DEF d
<1>5. Drop(d) = NoManager \/ Drop(d) = d
    BY DEF Drop
<1>6. CASE Drop(d) = NoManager
    BY <1>4, <1>6, Zenon DEF d
<1>7. CASE Drop(d) = d
    BY <1>3, <1>7, Zenon DEF d
<1> QED  BY <1>5, <1>6, <1>7

\* The VMs are finitely many, and so are the abandoned ones.
LEMMA AbandonedFinite ==
    IsFiniteSet(Abandoned) /\ Cardinality(Abandoned) \in Nat
<1>1. N \in Nat
    BY PoolAssumption
<1>2. IsFiniteSet(VMs)
    BY <1>1, FS_Interval DEF VMs
<1>3. Abandoned \in SUBSET VMs
    BY DEF Abandoned
<1> QED  BY <1>2, <1>3, FS_Subset, FS_CardinalityType

\* At most one VM is abandoned by a counted fault, none otherwise.
LEMMA FaultCounted ==
    ASSUME count.faults \in Nat, count'.faults \in Nat, FaultsCounted, NEW v,
           \/ Abandoned' \subseteq Abandoned /\ count'.faults >= count.faults
           \/ Abandoned' \subseteq Abandoned \cup {v} /\ count'.faults = count.faults + 1
    PROVE  FaultsCounted'
<1>1. IsFiniteSet(Abandoned) /\ Cardinality(Abandoned) \in Nat
    BY AbandonedFinite
<1>2. CASE Abandoned' \subseteq Abandoned /\ count'.faults >= count.faults
  <2>1. Cardinality(Abandoned') <= Cardinality(Abandoned) /\ IsFiniteSet(Abandoned')
      BY <1>1, <1>2, FS_Subset
  <2>2. Cardinality(Abandoned') \in Nat
      BY <2>1, FS_CardinalityType
  <2> QED  BY <1>1, <1>2, <2>1, <2>2 DEF FaultsCounted
<1>3. CASE Abandoned' \subseteq Abandoned \cup {v} /\ count'.faults = count.faults + 1
  <2>1. /\ IsFiniteSet(Abandoned \cup {v})
        /\ Cardinality(Abandoned \cup {v}) \in {Cardinality(Abandoned), Cardinality(Abandoned) + 1}
      BY <1>1, FS_AddElement
  <2>2. Cardinality(Abandoned') <= Cardinality(Abandoned \cup {v}) /\ IsFiniteSet(Abandoned')
      BY <2>1, <1>3, FS_Subset
  <2>3. Cardinality(Abandoned') \in Nat
      BY <2>2, FS_CardinalityType
  <2> QED  BY <1>1, <1>3, <2>1, <2>2, <2>3 DEF FaultsCounted
<1> QED  BY <1>2, <1>3

\* The counters of faults are naturals.
LEMMA FaultsType == TypeOK => count.faults \in Nat /\ vm \in [VMs -> Vm]
    BY PoolAssumption DEF TypeOK

\* No manager changes and each VM stays held or stays not held.
LEMMA StillHandled ==
    ASSUME TypeOK, Handled, FaultsCounted, vm' = vm, count'.faults = count.faults,
           \A w \in VMs : Held(w)' <=> Held(w)
    PROVE  Handled' /\ FaultsCounted'
<1>1. Handled'
    BY DEF Handled
<1>2. FaultsCounted'
    BY DEF FaultsCounted, Abandoned
<1> QED  BY <1>1, <1>2

\* VM v loses its handler and its holder: if it is abandoned, a fault was counted.
LEMMA LostHandled ==
    ASSUME TypeOK, Handled, FaultsCounted, NEW v \in VMs, NEW r \in Vm, ~r.handler,
           vm' = [vm EXCEPT ![v] = r], count'.faults \in Nat,
           \/ count'.faults = count.faults /\ Gone(r)
           \/ count'.faults = count.faults + 1,
           \A w \in VMs : Held(w)' <=> Held(w) /\ w # v
    PROVE  vm' \in [VMs -> Vm] /\ Handled' /\ FaultsCounted'
<1>1. vm \in [VMs -> Vm] /\ count.faults \in Nat
    BY FaultsType
<1>2. vm' \in [VMs -> Vm] /\ vm'[v] = r /\ \A w \in VMs : w # v => vm'[w] = vm[w]
    BY <1>1
<1>3. Handled'
  <2> SUFFICES ASSUME NEW w \in VMs
               PROVE  /\ vm'[w].handler <=> Held(w)'
                      /\ vm'[w].handler => vm'[w].state # "Stopped"
      BY DEF Handled
  <2>1. CASE w = v
      BY <2>1, <1>2
  <2>2. CASE w # v
      BY <2>2, <1>2 DEF Handled
  <2> QED  BY <2>1, <2>2
<1>4. Abandoned' \subseteq Abandoned \cup {v}
    BY <1>2 DEF Abandoned
<1>5. Gone(r) => Abandoned' \subseteq Abandoned
    BY <1>2 DEF Abandoned
<1>6. FaultsCounted'
    BY <1>1, <1>4, <1>5, FaultCounted
<1> QED  BY <1>2, <1>3, <1>6

\* The count of faults is the only one that a destroy changes.
LEMMA DestroyCount ==
    ASSUME TypeOK, NEW v \in VMs, Destroy(v)
    PROVE  /\ count' \in [acquires : 0 .. MaxAcquires, faults : 0 .. MaxFaults,
                          drains : 0 .. MaxDrains]
           /\ count'.acquires = count.acquires /\ count'.faults \in Nat
<1>1. PICK stopped \in BOOLEAN :
        /\ stopped \/ MayFault
        /\ count' = [count EXCEPT !.faults = IF stopped THEN @ ELSE @ + 1]
    BY DEF Destroy
<1>2. MaxFaults \in Nat
    BY PoolAssumption
<1>3. CASE stopped
    BY <1>1, <1>2, <1>3 DEF TypeOK
<1>4. CASE ~stopped
    BY <1>1, <1>2, <1>4 DEF TypeOK, MayFault
<1> QED  BY <1>3, <1>4

\* A held VM is destroyed, and its holder lets go of it.
LEMMA DestroyHandled ==
    ASSUME TypeOK, Handled, FaultsCounted, NEW v \in VMs, Held(v), Destroy(v),
           \A w \in VMs : Held(w)' <=> Held(w) /\ w # v
    PROVE  vm' \in [VMs -> Vm] /\ Handled' /\ FaultsCounted'
<1>1. vm[v] \in Vm /\ vm[v].handler /\ vm[v].state # "Stopped"
    BY FaultsType DEF Handled
<1>2. PICK stopped \in BOOLEAN :
        /\ vm' = [vm EXCEPT ![v] = Drop(destroy_with_options(vm[v], stopped))]
        /\ count' = [count EXCEPT !.faults = IF stopped THEN @ ELSE @ + 1]
    BY DEF Destroy
<1> DEFINE r == Drop(destroy_with_options(vm[v], stopped))
<1>3. r \in Vm /\ ~r.handler /\ (stopped => Gone(r))
    BY <1>1, DestroyFacts
<1> HIDE DEF r
<1>4. \/ count'.faults = count.faults /\ stopped
      \/ count'.faults = count.faults + 1
    BY <1>2 DEF TypeOK
<1>5. count'.faults \in Nat
    BY DestroyCount
<1>6. vm' = [vm EXCEPT ![v] = r]
    BY <1>2 DEF r
<1> QED  BY <1>3, <1>4, <1>5, <1>6, LostHandled

-----------------------------------------------------------------------------
(* The tasks                                                               *)

\* The tasks are told apart, and a VM id is not the absent one.
LEMMA TaskFacts ==
    /\ Main \in Tasks /\ Loop \in Tasks /\ Main # Loop
    /\ \A c \in Clients : c \in Tasks /\ c # Main /\ c # Loop
    /\ \A t \in Tasks : t \in Clients \/ t = Main \/ t = Loop
    /\ NoVm \notin VMs /\ NoVm \in VMs \cup {NoVm}
    BY PoolAssumption DEF Tasks, NoVm, VMs

\* What a task does next, with the same VM in hand.
LEMMA GotoFacts ==
    ASSUME TypeOK, NEW t \in Tasks, NEW p \in TaskPc, Goto(t, p)
    PROVE  /\ task' \in [Tasks -> Task]
           /\ task'[t].pc = p /\ task'[t].vm = task[t].vm
           /\ \A u \in Tasks : task'[u].vm = task[u].vm
           /\ \A u \in Tasks : u # t => task'[u] = task[u]
  BY DEF TypeOK, Task, Goto

\* What a task does next, with v in hand.
LEMMA MoveFacts ==
    ASSUME TypeOK, NEW t \in Tasks, NEW p \in TaskPc, NEW v \in VMs \cup {NoVm}, Move(t, p, v)
    PROVE  /\ task' \in [Tasks -> Task]
           /\ task'[t].pc = p /\ task'[t].vm = v
           /\ \A u \in Tasks : u # t => task'[u] = task[u]
  BY DEF TypeOK, Task, Move

\* No VM changes hands.
LEMMA SameHolders ==
    ASSUME TypeOK, OneHolder, Handled, FaultsCounted,
           vm' = vm, idle' = idle, hand' = hand, count'.faults = count.faults,
           \A t \in Tasks : task'[t].vm = task[t].vm
    PROVE  OneHolder' /\ Handled' /\ FaultsCounted'
<1>1. OneHolder'
    BY DEF OneHolder
<1>2. \A w \in VMs : Held(w)' <=> Held(w)
    BY DEF Held
<1> QED  BY <1>1, <1>2, StillHandled

\* The bound on the target: the scaler stays below it.
LEMMA TargetFacts ==
    /\ Target \in Nat /\ max_min_idle \in Nat /\ max_min_idle <= Target /\ MinIdle <= Target
    /\ Target <= MaxSize /\ MaxSize \in Nat /\ MinIdle \in Nat /\ MinIdle <= MaxSize
    BY PoolAssumption DEF Target, max_min_idle

\* The autoscaler proposes a size that the configuration allows.
LEMMA EvaluateFacts ==
    ASSUME NEW cur \in Nat, cur <= Target, NEW n \in evaluate(cur)
    PROVE  n \in Nat /\ n <= Target
  BY TargetFacts DEF evaluate, scale_up, scale_down

\* The length of the idle list.
LEMMA IdleFacts == TypeOK => Len(idle) \in Nat /\ idle \in Seq(VMs) /\ hand \in Seq(VMs)
    BY LenProperties DEF TypeOK

-----------------------------------------------------------------------------
(* Steps in which no VM changes hands                                      *)

\* drain begins.
LEMMA DrainStartInv == Inv /\ DrainStart => Inv'
<1> SUFFICES ASSUME Inv, DrainStart
             PROVE  Inv'
    OBVIOUS
<1> USE DEF Inv
<1>1. Goto(Main, "await") /\ "await" \in TaskPc
    BY DEF DrainStart, TaskPc
<1>2. /\ task' \in [Tasks -> Task] /\ task'[Main].pc = "await"
      /\ \A u \in Tasks : task'[u].vm = task[u].vm
      /\ \A u \in Tasks : u # Main => task'[u] = task[u]
    BY <1>1, GotoFacts, TaskFacts
<1>3. TypeOK'
  <2>1. MaxDrains \in Nat
      BY PoolAssumption
  <2>2. count' \in [acquires : 0 .. MaxAcquires, faults : 0 .. MaxFaults, drains : 0 .. MaxDrains]
      BY <2>1 DEF TypeOK, DrainStart
  <2> QED  BY <1>2, <2>2 DEF TypeOK, DrainStart
<1>4. Control'
  <2>1. task[Main].pc \in {"serve", "drained"} /\ task[Main].vm = NoVm /\ hand' = hand
      BY TaskFacts DEF DrainStart, Control, Carrying
  <2>2. \A t \in Tasks : task'[t].vm # NoVm <=> task'[t].pc \in Carrying
      BY <1>2, <2>1 DEF Control, Carrying
  <2> QED  BY <1>2, <2>1, <2>2, TaskFacts DEF Control, At, Filling, Replenishing
<1>5. Bounds'
    BY <1>2, TaskFacts DEF DrainStart, Bounds, Owed, Filling, Replenishing
<1>6. vm' = vm /\ idle' = idle /\ hand' = hand /\ count'.faults = count.faults
    BY DEF DrainStart, TypeOK
<1> QED  BY <1>2, <1>3, <1>4, <1>5, <1>6, SameHolders

\* A task goes on without giving or taking a VM.
LEMMA GotoHolders ==
    ASSUME Inv, NEW t \in Tasks, NEW p \in TaskPc, Goto(t, p),
           p \in Carrying <=> task[t].pc \in Carrying,
           vm' = vm, idle' = idle, hand' = hand, count'.faults = count.faults
    PROVE  /\ OneHolder' /\ Handled' /\ FaultsCounted'
           /\ \A u \in Tasks : task'[u].vm # NoVm <=> task'[u].pc \in Carrying
<1>1. /\ task'[t].pc = p
      /\ \A u \in Tasks : task'[u].vm = task[u].vm
      /\ \A u \in Tasks : u # t => task'[u] = task[u]
    BY GotoFacts DEF Inv
<1>2. OneHolder' /\ Handled' /\ FaultsCounted'
    BY <1>1, SameHolders DEF Inv
<1>3. \A u \in Tasks : task'[u].vm # NoVm <=> task'[u].pc \in Carrying
    BY <1>1 DEF Inv, Control
<1> QED  BY <1>2, <1>3

\* drain has joined the replenish task.
LEMMA DrainJoinedInv == Inv /\ DrainJoined => Inv'
<1> SUFFICES ASSUME Inv, DrainJoined
             PROVE  Inv'
    OBVIOUS
<1> USE TaskFacts DEF Inv
<1>1. /\ task[Main].pc = "await" /\ task[Loop].pc = "done" /\ Goto(Main, "drain") /\ "drain" \in TaskPc
      /\ vm' = vm /\ idle' = idle /\ hand' = hand /\ count' = count
    BY DEF DrainJoined, drain_joined, At, TaskPc
<1>2. /\ task' \in [Tasks -> Task] /\ task'[Main].pc = "drain"
      /\ \A u \in Tasks : u # Main => task'[u] = task[u]
    BY <1>1, GotoFacts
<1>3. TypeOK'
    BY <1>2 DEF TypeOK, DrainJoined
<1>4. /\ OneHolder' /\ Handled' /\ FaultsCounted'
      /\ \A u \in Tasks : task'[u].vm # NoVm <=> task'[u].pc \in Carrying
    BY <1>1, GotoHolders DEF Carrying
<1>5. Control'
    BY <1>1, <1>2, <1>4 DEF Control, At, Filling, Replenishing
<1>6. Bounds'
    BY <1>1, <1>2 DEF DrainJoined, Bounds, Owed, Filling, Replenishing
<1> QED  BY <1>3, <1>4, <1>5, <1>6

\* The shutdown signal is sent.
LEMMA SignalInv == Inv /\ SignalShutdown => Inv'
<1> SUFFICES ASSUME Inv, SignalShutdown
             PROVE  Inv'
    OBVIOUS
<1> USE DEF Inv, SignalShutdown
<1>1. TypeOK'
    BY DEF TypeOK
<1>2. Control' /\ Bounds'
    BY DEF Control, Bounds, Owed, At
<1> QED  BY <1>1, <1>2, SameHolders

\* The replenish loop sees the signal.
LEMMA LoopShutdownInv == Inv /\ LoopShutdown => Inv'
<1> SUFFICES ASSUME Inv, LoopShutdown
             PROVE  Inv'
    OBVIOUS
<1> USE TaskFacts DEF Inv
<1>1. /\ task[Loop].pc = "wait" /\ Goto(Loop, "done") /\ "done" \in TaskPc
      /\ vm' = vm /\ idle' = idle /\ hand' = hand /\ count' = count
    BY DEF LoopShutdown, At, TaskPc
<1>2. /\ task' \in [Tasks -> Task] /\ task'[Loop].pc = "done"
      /\ \A u \in Tasks : u # Loop => task'[u] = task[u]
    BY <1>1, GotoFacts
<1>3. TypeOK'
    BY <1>2 DEF TypeOK, LoopShutdown
<1>4. /\ OneHolder' /\ Handled' /\ FaultsCounted'
      /\ \A u \in Tasks : task'[u].vm # NoVm <=> task'[u].pc \in Carrying
    BY <1>1, GotoHolders DEF Carrying
<1>5. Control'
    BY <1>1, <1>2, <1>4 DEF Control, At, Filling, Replenishing
<1>6. Bounds'
    BY <1>1, <1>2 DEF LoopShutdown, Bounds, Owed, Filling, Replenishing
<1> QED  BY <1>3, <1>4, <1>5, <1>6

\* The replenish loop evaluates the autoscaler.
LEMMA LoopScaleInv == Inv /\ LoopScale => Inv'
<1> SUFFICES ASSUME Inv, LoopScale
             PROVE  Inv'
    OBVIOUS
<1> USE TaskFacts DEF Inv
<1>1. /\ task[Loop].pc = "scale" /\ Goto(Loop, "count") /\ "count" \in TaskPc
      /\ vm' = vm /\ idle' = idle /\ hand' = hand /\ count' = count /\ eff' \in evaluate(eff)
    BY DEF LoopScale, At, TaskPc
<1>2. /\ task' \in [Tasks -> Task] /\ task'[Loop].pc = "count"
      /\ \A u \in Tasks : u # Loop => task'[u] = task[u]
    BY <1>1, GotoFacts
<1>3. eff' \in Nat /\ eff' <= Target /\ eff' \in 0 .. MaxSize
  <2>1. eff \in Nat /\ eff <= Target
      BY TargetFacts DEF TypeOK, Bounds
  <2>2. eff' \in Nat /\ eff' <= Target
      BY <1>1, <2>1, EvaluateFacts
  <2> QED  BY <2>2, TargetFacts
<1>4. TypeOK'
    BY <1>2, <1>3 DEF TypeOK, LoopScale
<1>5. /\ OneHolder' /\ Handled' /\ FaultsCounted'
      /\ \A u \in Tasks : task'[u].vm # NoVm <=> task'[u].pc \in Carrying
    BY <1>1, GotoHolders DEF Carrying
<1>6. Control'
    BY <1>1, <1>2, <1>5 DEF Control, At, Filling, Replenishing
<1>7. Bounds'
    BY <1>1, <1>2, <1>3 DEF LoopScale, Bounds, Owed, Filling, Replenishing
<1> QED  BY <1>4, <1>5, <1>6, <1>7

\* The loop counts what is missing, and owes that to the list.
LEMMA LoopCountInv == Inv /\ LoopCount => Inv'
<1> SUFFICES ASSUME Inv, LoopCount
             PROVE  Inv'
    OBVIOUS
<1> USE TaskFacts DEF Inv
<1> DEFINE n == needed(idle, eff)
           p == IF n = 0 THEN "wait" ELSE "boot"
<1>1. /\ task[Loop].pc = "count" /\ Goto(Loop, p) /\ p \in TaskPc
      /\ vm' = vm /\ idle' = idle /\ hand' = hand /\ count' = count
      /\ eff' = eff /\ added' = added /\ shutdown' = shutdown
      /\ need' = [need EXCEPT ![Loop] = n]
    BY DEF LoopCount, At, TaskPc
<1>2. eff \in Nat /\ eff <= Target /\ Len(idle) \in Nat /\ Len(idle) <= MaxSize + Target
    BY TargetFacts, IdleFacts DEF TypeOK, Bounds, Owed, Replenishing, LoopCount, At
<1>3. n \in Nat /\ n <= Target /\ (n # 0 => Len(idle) + n <= Target)
    BY <1>2, TargetFacts DEF needed
<1> HIDE DEF n
<1>4. /\ task' \in [Tasks -> Task] /\ task'[Loop].pc = p
      /\ \A u \in Tasks : u # Loop => task'[u] = task[u]
    BY <1>1, GotoFacts
<1>5. need' \in [{Main, Loop} -> 0 .. MaxSize] /\ need'[Loop] = n /\ need'[Main] = need[Main]
    BY <1>1, <1>3, TargetFacts DEF TypeOK
<1>6. TypeOK'
    BY <1>1, <1>4, <1>5 DEF TypeOK
<1>7. /\ OneHolder' /\ Handled' /\ FaultsCounted'
      /\ \A u \in Tasks : task'[u].vm # NoVm <=> task'[u].pc \in Carrying
    BY <1>1, GotoHolders DEF Carrying
<1>8. Control'
    BY <1>1, <1>4, <1>7 DEF Control, At, Filling, Replenishing
<1>9. Bounds'
  <2>1. task'[Main].pc = task[Main].pc /\ task[Main].pc \notin Filling
      BY <1>1, <1>4 DEF Control, At
  <2>2. Len(idle) + Owed' <= MaxSize + Target
      BY <1>1, <1>2, <1>3, <1>4, <1>5, TargetFacts DEF Owed, Replenishing
  <2> QED  BY <1>1, <1>2, <1>3, <1>4, <1>5, <2>1, <2>2 DEF Bounds, Replenishing
<1> QED  BY <1>6, <1>7, <1>8, <1>9

\* One more boot of the fill, or the loop is spawned.
LEMMA FillNextInv == Inv /\ FillNext => Inv'
<1> SUFFICES ASSUME Inv, FillNext
             PROVE  Inv'
    OBVIOUS
<1> USE TaskFacts DEF Inv
<1>1. /\ task[Main].pc = "fill" /\ task[Loop].pc = "out" /\ task[Main].vm = NoVm
      /\ task[Loop].vm = NoVm /\ hand = <<>>
      /\ vm' = vm /\ idle' = idle /\ hand' = hand /\ count' = count
      /\ eff' = eff /\ shutdown' = shutdown
    BY DEF FillNext, At, Control, Filling, Carrying
<1>2. Len(idle) \in Nat /\ need[Main] \in 0 .. MaxSize /\ Len(idle) + need[Main] <= MinIdle
    BY <1>1, IdleFacts DEF TypeOK, Bounds, Filling, Replenishing
<1>3. CASE need[Main] > 0
  <2>1. /\ need' = [need EXCEPT ![Main] = @ - 1] /\ added' = added
        /\ Goto(Main, "boot") /\ "boot" \in TaskPc
      BY <1>3 DEF FillNext, TaskPc
  <2>2. /\ task' \in [Tasks -> Task] /\ task'[Main].pc = "boot"
        /\ \A u \in Tasks : u # Main => task'[u] = task[u]
      BY <2>1, GotoFacts
  <2>3. /\ need' \in [{Main, Loop} -> 0 .. MaxSize]
        /\ need'[Main] = need[Main] - 1 /\ need'[Loop] = need[Loop]
      BY <1>2, <1>3, <2>1, TargetFacts DEF TypeOK
  <2>4. TypeOK'
      BY <1>1, <2>1, <2>2, <2>3 DEF TypeOK
  <2>5. /\ OneHolder' /\ Handled' /\ FaultsCounted'
        /\ \A u \in Tasks : task'[u].vm # NoVm <=> task'[u].pc \in Carrying
      BY <1>1, <2>1, GotoHolders DEF Carrying
  <2>6. Control'
      BY <1>1, <2>2, <2>5 DEF Control, At, Filling, Replenishing
  <2>7. Bounds'
      BY <1>1, <1>2, <2>2, <2>3, TargetFacts DEF Bounds, Owed, Filling, Replenishing
  <2> QED  BY <2>4, <2>5, <2>6, <2>7
<1>4. CASE ~(need[Main] > 0)
  <2>1. /\ need' = need /\ added' = {}
        /\ task' = [task EXCEPT ![Main].pc = "serve", ![Loop].pc = "wait"]
      BY <1>4 DEF FillNext
  <2>2. /\ task' \in [Tasks -> Task] /\ task'[Main].pc = "serve" /\ task'[Loop].pc = "wait"
        /\ \A u \in Tasks : task'[u].vm = task[u].vm
        /\ \A u \in Tasks : u # Main /\ u # Loop => task'[u] = task[u]
      BY <2>1 DEF TypeOK, Task, TaskPc
  <2>3. TypeOK'
      BY <1>1, <2>1, <2>2 DEF TypeOK
  <2>4. OneHolder' /\ Handled' /\ FaultsCounted'
      BY <1>1, <2>2, SameHolders
  <2>5. \A u \in Tasks : task'[u].vm # NoVm <=> task'[u].pc \in Carrying
      BY <1>1, <2>2 DEF Control, Carrying
  <2>6. Control'
      BY <1>1, <2>2, <2>5 DEF Control, At, Filling, Replenishing
  <2>7. Bounds'
      BY <1>1, <1>2, <2>1, <2>2, TargetFacts DEF Bounds, Owed, Filling, Replenishing
  <2> QED  BY <2>3, <2>4, <2>6, <2>7
<1> QED  BY <1>3, <1>4

-----------------------------------------------------------------------------
(* Steps in which a VM changes hands                                       *)

\* A task pushes its VM on the idle list.
LEMMA PushHolders ==
    ASSUME Inv, NEW t \in Tasks, task[t].pc \in Carrying, NEW p \in TaskPc \ Carrying,
           Move(t, p, NoVm), idle' = Append(idle, task[t].vm), hand' = hand,
           vm' = vm, count'.faults = count.faults
    PROVE  /\ OneHolder' /\ Handled' /\ FaultsCounted'
           /\ idle' \in Seq(VMs) /\ Len(idle') = Len(idle) + 1
           /\ \A u \in Tasks : task'[u].vm # NoVm <=> task'[u].pc \in Carrying
<1> USE TaskFacts DEF Inv
<1> DEFINE v == task[t].vm
<1>1. v \in VMs
    BY DEF TypeOK, Task, Control
<1>2. task'[t].pc = p /\ task'[t].vm = NoVm /\ \A u \in Tasks : u # t => task'[u] = task[u]
    BY MoveFacts
<1>3. /\ idle' \in Seq(VMs) /\ Distinct(idle') /\ Range(idle') = Range(idle) \cup {v}
      /\ Len(idle') = Len(idle) + 1
    BY <1>1, IdleFacts, AppendVm DEF OneHolder
<1>4. Range(idle) \subseteq VMs /\ Range(hand) \subseteq VMs
    BY IdleFacts, RangeOfSeq
<1>5. OneHolder'
  <2>1. Distinct(idle') /\ Distinct(hand') /\ Range(idle') \cap Range(hand') = {}
      BY <1>3 DEF OneHolder
  <2>2. ASSUME NEW u \in Tasks
        PROVE  task'[u].vm \notin Range(idle') \cup Range(hand')
      BY <1>1, <1>2, <1>3, <1>4 DEF OneHolder
  <2>3. ASSUME NEW u \in Tasks, NEW x \in Tasks, task'[u].vm = task'[x].vm, task'[u].vm # NoVm
        PROVE  u = x
      BY <2>3, <1>2 DEF OneHolder
  <2> QED  BY <2>1, <2>2, <2>3 DEF OneHolder
<1>6. ASSUME NEW w \in VMs
      PROVE  Held(w)' <=> Held(w)
  <2>1. (\E u \in Tasks : task'[u].vm = w) <=> (\E u \in Tasks : task[u].vm = w /\ u # t)
      BY <1>2
  <2> QED  BY <2>1, <1>3 DEF Held
<1>7. Handled' /\ FaultsCounted'
    BY <1>6, StillHandled
<1>8. \A u \in Tasks : task'[u].vm # NoVm <=> task'[u].pc \in Carrying
    BY <1>2 DEF Control
<1> QED  BY <1>3, <1>5, <1>7, <1>8

\* A task lets go of its VM.
LEMMA DropHolders ==
    ASSUME Inv, NEW t \in Tasks, task[t].pc \in Carrying, NEW p \in TaskPc \ Carrying,
           Move(t, p, NoVm), idle' = idle, hand' = hand
    PROVE  /\ OneHolder' /\ task[t].vm \in VMs /\ Held(task[t].vm)
           /\ \A w \in VMs : Held(w)' <=> Held(w) /\ w # task[t].vm
           /\ \A u \in Tasks : task'[u].vm # NoVm <=> task'[u].pc \in Carrying
<1> USE TaskFacts DEF Inv
<1> DEFINE v == task[t].vm
<1>1. v \in VMs /\ Held(v)
    BY DEF TypeOK, Task, Control, Held
<1>2. task'[t].pc = p /\ task'[t].vm = NoVm /\ \A u \in Tasks : u # t => task'[u] = task[u]
    BY MoveFacts
<1>3. Range(idle) \subseteq VMs /\ Range(hand) \subseteq VMs
    BY IdleFacts, RangeOfSeq
<1>4. OneHolder'
  <2>1. Distinct(idle') /\ Distinct(hand') /\ Range(idle') \cap Range(hand') = {}
      BY DEF OneHolder
  <2>2. ASSUME NEW u \in Tasks
        PROVE  task'[u].vm \notin Range(idle') \cup Range(hand')
      BY <1>2, <1>3 DEF OneHolder
  <2>3. ASSUME NEW u \in Tasks, NEW x \in Tasks, task'[u].vm = task'[x].vm, task'[u].vm # NoVm
        PROVE  u = x
      BY <2>3, <1>2 DEF OneHolder
  <2> QED  BY <2>1, <2>2, <2>3 DEF OneHolder
<1>5. ASSUME NEW w \in VMs
      PROVE  Held(w)' <=> Held(w) /\ w # v
  <2>1. (\E u \in Tasks : task'[u].vm = w) <=> (\E u \in Tasks : task[u].vm = w /\ u # t)
      BY <1>2
  <2>2. (\E u \in Tasks : task[u].vm = w /\ u # t) => w # v
      BY <1>1 DEF OneHolder
  <2>3. w = v => w \notin Range(idle) /\ w \notin Range(hand)
      BY DEF OneHolder
  <2> QED  BY <2>1, <2>2, <2>3 DEF Held
<1>6. \A u \in Tasks : task'[u].vm # NoVm <=> task'[u].pc \in Carrying
    BY <1>2 DEF Control
<1> QED  BY <1>1, <1>4, <1>5, <1>6

\* A VM leaves the idle list or the loop's hands, and no task has it.
LEMMA ListHolders ==
    ASSUME Inv, NEW v,
           \/ /\ v \in Range(idle) /\ Distinct(idle') /\ Range(idle') = Range(idle) \ {v}
              /\ hand' = hand
           \/ /\ v \in Range(hand) /\ Distinct(hand') /\ Range(hand') = Range(hand) \ {v}
              /\ idle' = idle,
           task' = task
    PROVE  /\ OneHolder' /\ v \in VMs /\ Held(v)
           /\ \A w \in VMs : Held(w)' <=> Held(w) /\ w # v
<1> USE DEF Inv
<1>1. Range(idle) \subseteq VMs /\ Range(hand) \subseteq VMs
    BY IdleFacts, RangeOfSeq
<1>2. v \in VMs /\ Held(v)
    BY <1>1 DEF Held
<1>3. OneHolder'
    BY DEF OneHolder
<1>4. \A w \in VMs : Held(w)' <=> Held(w) /\ w # v
    BY DEF OneHolder, Held
<1> QED  BY <1>2, <1>3, <1>4

\* A VM of the fill goes on the list.
LEMMA FillPushInv == Inv /\ FillPush => Inv'
<1> SUFFICES ASSUME Inv, FillPush
             PROVE  Inv'
    OBVIOUS
<1> USE TaskFacts DEF Inv
<1>1. /\ task[Main].pc = "push" /\ task[Loop].pc = "out" /\ Move(Main, "fill", NoVm)
      /\ idle' = Append(idle, task[Main].vm) /\ added' = added \cup {task[Main].vm}
      /\ vm' = vm /\ hand' = hand /\ count' = count
      /\ eff' = eff /\ shutdown' = shutdown /\ need' = need
    BY DEF FillPush, At, Control, Filling
<1>2. "fill" \in TaskPc \ Carrying /\ task[Main].pc \in Carrying /\ task[Main].vm \in VMs
    BY <1>1 DEF TaskPc, Carrying, Control, TypeOK, Task
<1>3. /\ task' \in [Tasks -> Task] /\ task'[Main].pc = "fill"
      /\ \A u \in Tasks : u # Main => task'[u] = task[u]
    BY <1>1, <1>2, MoveFacts
<1>4. /\ OneHolder' /\ Handled' /\ FaultsCounted'
      /\ idle' \in Seq(VMs) /\ Len(idle') = Len(idle) + 1
      /\ \A u \in Tasks : task'[u].vm # NoVm <=> task'[u].pc \in Carrying
    BY <1>1, <1>2, PushHolders
<1>5. TypeOK'
    BY <1>1, <1>2, <1>3, <1>4 DEF TypeOK
<1>6. Control'
    BY <1>1, <1>3, <1>4 DEF Control, At, Filling, Replenishing
<1>7. Bounds'
  <2>1. Len(idle) \in Nat /\ need[Main] \in 0 .. MaxSize /\ Len(idle) + need[Main] + 1 <= MinIdle
      BY <1>1, IdleFacts DEF TypeOK, Bounds, Filling, Replenishing
  <2> QED  BY <1>1, <1>3, <1>4, <2>1, TargetFacts DEF Bounds, Owed, Filling, Replenishing
<1> QED  BY <1>4, <1>5, <1>6, <1>7

\* A replenished VM goes on the list, which the round still owed to it.
LEMMA LoopPushInv == Inv /\ LoopPush => Inv'
<1> SUFFICES ASSUME Inv, LoopPush
             PROVE  Inv'
    OBVIOUS
<1> USE TaskFacts DEF Inv
<1> DEFINE p == IF need[Loop] = 1 THEN "wait" ELSE "boot"
<1>1. /\ task[Loop].pc = "push" /\ Move(Loop, p, NoVm)
      /\ idle' = Append(idle, task[Loop].vm) /\ need' = [need EXCEPT ![Loop] = @ - 1]
      /\ vm' = vm /\ hand' = hand /\ count' = count
      /\ eff' = eff /\ shutdown' = shutdown /\ added' = added
    BY DEF LoopPush, At
<1>2. p \in TaskPc \ Carrying /\ task[Loop].pc \in Carrying
    BY <1>1 DEF TaskPc, Carrying
<1>3. /\ need[Loop] \in 0 .. MaxSize /\ need[Loop] >= 1 /\ need[Loop] <= Target
      /\ Len(idle) \in Nat /\ Len(idle) + need[Loop] <= MaxSize + Target
    BY <1>1, IdleFacts DEF TypeOK, Bounds, Owed, Replenishing
<1>4. /\ need' \in [{Main, Loop} -> 0 .. MaxSize]
      /\ need'[Main] = need[Main] /\ need'[Loop] = need[Loop] - 1
    BY <1>1, <1>3, TargetFacts DEF TypeOK
<1>5. /\ task' \in [Tasks -> Task] /\ task'[Loop].pc = p
      /\ \A u \in Tasks : u # Loop => task'[u] = task[u]
    BY <1>1, <1>2, MoveFacts
<1>6. /\ OneHolder' /\ Handled' /\ FaultsCounted'
      /\ idle' \in Seq(VMs) /\ Len(idle') = Len(idle) + 1
      /\ \A u \in Tasks : task'[u].vm # NoVm <=> task'[u].pc \in Carrying
  <2> HIDE DEF p
  <2> QED  BY <1>1, <1>2, PushHolders
<1>7. TypeOK'
    BY <1>1, <1>4, <1>5, <1>6 DEF TypeOK
<1>8. Control'
    BY <1>1, <1>5, <1>6 DEF Control, At, Filling, Replenishing
<1>9. Bounds'
  <2>1. task'[Main].pc = task[Main].pc /\ task[Main].pc \notin Filling
      BY <1>1, <1>5 DEF Control, At
  <2> QED  BY <1>1, <1>3, <1>4, <1>5, <1>6, <2>1, TargetFacts DEF Bounds, Owed, Replenishing
<1> QED  BY <1>6, <1>7, <1>8, <1>9

\* A client's own step leaves the control and the bounds of the pool alone.
LEMMA ClientControl ==
    ASSUME Inv, NEW c \in Clients,
           task'[c].pc \in {"out", "boot", "ready", "have", "destroy"},
           \A u \in Tasks : u # c => task'[u] = task[u],
           \A u \in Tasks : task'[u].vm # NoVm <=> task'[u].pc \in Carrying,
           hand' = hand, eff' = eff, need' = need, Len(idle') \in Nat,
           Len(idle') <= Len(idle) \/ (Len(idle') <= MaxSize /\ task[Main].pc \notin Filling)
    PROVE  Control' /\ Bounds'
<1> USE TaskFacts DEF Inv
<1>1. task'[Main] = task[Main] /\ task'[Loop] = task[Loop]
    OBVIOUS
<1>2. Control'
    BY <1>1 DEF Control, At
<1>3. Bounds'
  <2>1. Len(idle) \in Nat /\ need[Main] \in Nat /\ need[Loop] \in Nat
      BY IdleFacts, TargetFacts DEF TypeOK
  <2>2. Owed' = Owed /\ Owed \in Nat /\ Owed <= Target
      BY <1>1, <2>1, TargetFacts DEF Owed, Bounds
  <2>3. task[Main].pc \in Filling => Len(idle') <= Len(idle)
      OBVIOUS
  <2>4. Len(idle') + Owed' <= MaxSize + Target
      BY <2>1, <2>2, TargetFacts DEF Bounds
  <2>5. task[Main].pc \in Filling =>
          Len(idle') + need[Main] + (IF task[Main].pc \in Replenishing THEN 1 ELSE 0) <= MinIdle
      BY <2>1, <2>3, TargetFacts DEF Bounds
  <2> QED  BY <1>1, <2>4, <2>5 DEF Bounds
<1> QED  BY <1>2, <1>3

\* A release below max_size.
LEMMA ReleaseInv == ASSUME Inv, NEW c \in Clients, Release(c) PROVE Inv'
<1> USE TaskFacts DEF Inv
<1>1. /\ task[c].pc = "have" /\ task[Main].pc \notin Filling
      /\ vm' = vm /\ hand' = hand /\ count' = count /\ need' = need
      /\ eff' = eff /\ shutdown' = shutdown /\ added' = added
    BY DEF Release, At, Open, Filling
<1>2. Len(idle) \in Nat
    BY IdleFacts
<1>3. CASE at_capacity(idle)
  <2>1. Goto(c, "destroy") /\ idle' = idle /\ "destroy" \in TaskPc /\ "destroy" \in Carrying
        /\ task[c].pc \in Carrying
      BY <1>1, <1>3 DEF Release, TaskPc, Carrying
  <2>2. /\ task' \in [Tasks -> Task] /\ task'[c].pc = "destroy"
        /\ \A u \in Tasks : u # c => task'[u] = task[u]
      BY <2>1, GotoFacts
  <2>3. /\ OneHolder' /\ Handled' /\ FaultsCounted'
        /\ \A u \in Tasks : task'[u].vm # NoVm <=> task'[u].pc \in Carrying
      BY <1>1, <2>1, GotoHolders
  <2>4. TypeOK'
      BY <1>1, <2>1, <2>2 DEF TypeOK
  <2>5. Control' /\ Bounds'
      BY <1>1, <1>2, <2>1, <2>2, <2>3, ClientControl
  <2> QED  BY <2>3, <2>4, <2>5
<1>4. CASE ~at_capacity(idle)
  <2>1. /\ Move(c, "out", NoVm) /\ idle' = Append(idle, task[c].vm)
        /\ "out" \in TaskPc \ Carrying /\ task[c].pc \in Carrying
      BY <1>1, <1>4 DEF Release, TaskPc, Carrying
  <2>2. /\ task' \in [Tasks -> Task] /\ task'[c].pc = "out"
        /\ \A u \in Tasks : u # c => task'[u] = task[u]
      BY <2>1, MoveFacts
  <2>3. /\ OneHolder' /\ Handled' /\ FaultsCounted'
        /\ idle' \in Seq(VMs) /\ Len(idle') = Len(idle) + 1
        /\ \A u \in Tasks : task'[u].vm # NoVm <=> task'[u].pc \in Carrying
      BY <1>1, <2>1, PushHolders
  <2>4. TypeOK'
      BY <1>1, <2>2, <2>3 DEF TypeOK
  <2>5. Len(idle') \in Nat /\ Len(idle') <= MaxSize
      BY <1>2, <1>4, <2>3, TargetFacts DEF at_capacity
  <2>6. Control' /\ Bounds'
      BY <1>1, <2>2, <2>3, <2>5, ClientControl
  <2> QED  BY <2>3, <2>4, <2>6
<1> QED  BY <1>3, <1>4

\* A client destroys the VM it has.
LEMMA ReleaseDestroyInv == ASSUME Inv, NEW c \in Clients, ReleaseDestroy(c) PROVE Inv'
<1> USE TaskFacts DEF Inv
<1>1. /\ task[c].pc \in Carrying /\ Destroy(task[c].vm) /\ Move(c, "out", NoVm)
      /\ "out" \in TaskPc \ Carrying
      /\ idle' = idle /\ hand' = hand /\ need' = need
      /\ eff' = eff /\ shutdown' = shutdown /\ added' = added
    BY DEF ReleaseDestroy, At, Carrying, TaskPc
<1>2. /\ task' \in [Tasks -> Task] /\ task'[c].pc = "out"
      /\ \A u \in Tasks : u # c => task'[u] = task[u]
    BY <1>1, MoveFacts
<1>3. /\ OneHolder' /\ task[c].vm \in VMs /\ Held(task[c].vm)
      /\ \A w \in VMs : Held(w)' <=> Held(w) /\ w # task[c].vm
      /\ \A u \in Tasks : task'[u].vm # NoVm <=> task'[u].pc \in Carrying
    BY <1>1, DropHolders
<1>4. vm' \in [VMs -> Vm] /\ Handled' /\ FaultsCounted'
    BY <1>1, <1>3, DestroyHandled
<1>5. count' \in [acquires : 0 .. MaxAcquires, faults : 0 .. MaxFaults, drains : 0 .. MaxDrains]
    BY <1>1, <1>3, DestroyCount
<1>6. TypeOK'
    BY <1>1, <1>2, <1>4, <1>5 DEF TypeOK
<1>7. Control' /\ Bounds'
    BY <1>1, <1>2, <1>3, IdleFacts, ClientControl
<1> QED  BY <1>3, <1>4, <1>6, <1>7

\* An acquire takes the newest idle VM, or goes on to boot one.
LEMMA AcquireInv == ASSUME Inv, NEW c \in Clients, AcquireStart(c) PROVE Inv'
<1> USE TaskFacts DEF Inv
<1>1. /\ task[c].pc = "out" /\ task[c].vm = NoVm
      /\ vm' = vm /\ hand' = hand /\ need' = need
      /\ eff' = eff /\ shutdown' = shutdown /\ added' = added
    BY DEF AcquireStart, At, Control, Carrying
<1>2. /\ count' \in [acquires : 0 .. MaxAcquires, faults : 0 .. MaxFaults, drains : 0 .. MaxDrains]
      /\ count'.faults = count.faults
  <2>1. MaxAcquires \in Nat
      BY PoolAssumption
  <2> QED  BY <2>1 DEF AcquireStart, TypeOK
<1>3. CASE idle = <<>>
  <2>1. Goto(c, "boot") /\ idle' = idle /\ "boot" \in TaskPc
        /\ ("boot" \in Carrying <=> task[c].pc \in Carrying)
      BY <1>1, <1>3 DEF AcquireStart, TaskPc, Carrying
  <2>2. /\ task' \in [Tasks -> Task] /\ task'[c].pc = "boot"
        /\ \A u \in Tasks : u # c => task'[u] = task[u]
      BY <2>1, GotoFacts
  <2>3. /\ OneHolder' /\ Handled' /\ FaultsCounted'
        /\ \A u \in Tasks : task'[u].vm # NoVm <=> task'[u].pc \in Carrying
      BY <1>1, <1>2, <2>1, GotoHolders
  <2>4. TypeOK'
      BY <1>1, <1>2, <2>1, <2>2 DEF TypeOK
  <2>5. Control' /\ Bounds'
      BY <1>1, <2>1, <2>2, <2>3, IdleFacts, ClientControl
  <2> QED  BY <2>3, <2>4, <2>5
<1>4. CASE idle # <<>>
  <2> DEFINE v == idle[Len(idle)]
  <2>1. Move(c, "have", v) /\ idle' = pop(idle)
      BY <1>4 DEF AcquireStart
  <2>2. /\ v \in Range(idle) /\ idle' \in Seq(VMs) /\ Distinct(idle')
        /\ Len(idle') = Len(idle) - 1 /\ Range(idle') = Range(idle) \ {v}
      BY <1>4, <2>1, IdleFacts, RemoveLast DEF OneHolder
  <2>3. v \in VMs
      BY <2>2, IdleFacts, RangeOfSeq
  <2> HIDE DEF v
  <2>4. /\ task' \in [Tasks -> Task] /\ task'[c].pc = "have" /\ task'[c].vm = v
        /\ \A u \in Tasks : u # c => task'[u] = task[u]
    <3>1. "have" \in TaskPc
        BY DEF TaskPc
    <3> QED  BY <2>1, <2>3, <3>1, MoveFacts
  <2>5. \A u \in Tasks : task'[u].vm # NoVm <=> task'[u].pc \in Carrying
      BY <2>3, <2>4 DEF Control, Carrying
  <2>6. OneHolder'
    <3>1. Distinct(idle') /\ Distinct(hand') /\ Range(idle') \cap Range(hand') = {}
        BY <1>1, <2>2 DEF OneHolder
    <3>2. v \notin Range(hand)
        BY <2>2 DEF OneHolder
    <3>3. ASSUME NEW u \in Tasks
          PROVE  task'[u].vm \notin Range(idle') \cup Range(hand')
        BY <1>1, <2>2, <2>4, <3>2 DEF OneHolder
    <3>4. \A u \in Tasks : task[u].vm # v
        BY <2>2 DEF OneHolder
    <3>5. ASSUME NEW u \in Tasks, NEW x \in Tasks, task'[u].vm = task'[x].vm, task'[u].vm # NoVm
          PROVE  u = x
        BY <3>4, <3>5, <2>4 DEF OneHolder
    <3> QED  BY <3>1, <3>3, <3>5 DEF OneHolder
  <2>7. ASSUME NEW w \in VMs
        PROVE  Held(w)' <=> Held(w)
    <3>1. (\E u \in Tasks : task'[u].vm = w) <=> (w = v \/ \E u \in Tasks : task[u].vm = w)
        BY <1>1, <2>4
    <3> QED  BY <1>1, <2>2, <3>1 DEF Held
  <2>8. Handled' /\ FaultsCounted'
      BY <1>1, <1>2, <2>7, StillHandled
  <2>9. TypeOK'
      BY <1>1, <1>2, <2>2, <2>4 DEF TypeOK
  <2>10. Len(idle') \in Nat /\ Len(idle') <= Len(idle)
      BY <2>2, IdleFacts, LenProperties
  <2>11. Control' /\ Bounds'
      BY <1>1, <2>4, <2>5, <2>10, ClientControl
  <2> QED  BY <2>6, <2>8, <2>9, <2>11
<1> QED  BY <1>3, <1>4

\* A step of the boot of task t: where it goes from where, for each kind of task.
LEMMA BootControl ==
    ASSUME Inv, NEW t \in Tasks, NEW p, task'[t].pc = p,
           \/ task[t].pc = "boot" /\ p = "ready"
           \/ task[t].pc = "ready" /\ p \in {AfterBoot(t), AfterFail(t)},
           \A u \in Tasks : u # t => task'[u] = task[u],
           \A u \in Tasks : task'[u].vm # NoVm <=> task'[u].pc \in Carrying,
           hand' = hand, eff' = eff, need' = need, idle' = idle
    PROVE  Control' /\ Bounds'
<1> USE TaskFacts DEF Inv
<1>0. Len(idle) \in Nat /\ need[Main] \in Nat /\ need[Loop] \in Nat
    BY IdleFacts, TargetFacts DEF TypeOK
<1>1. CASE t \in Clients
  <2>1. p \in {"out", "boot", "ready", "have", "destroy"}
      BY <1>1 DEF AfterBoot, AfterFail
  <2> QED  BY <1>0, <1>1, <2>1, ClientControl
<1>2. CASE t = Main
  <2>1. task[Main].pc \in {"boot", "ready"} /\ p \in {"ready", "push", "rollback"}
      BY <1>2 DEF AfterBoot, AfterFail
  <2>2. Control'
      BY <1>2, <2>1 DEF Control, At, Filling
  <2>3. Bounds'
      BY <1>0, <1>2, <2>1, TargetFacts DEF Bounds, Owed, Filling, Replenishing
  <2> QED  BY <2>2, <2>3
<1>3. CASE t = Loop
  <2>1. task[Loop].pc \in {"boot", "ready"} /\ p \in {"ready", "push", "wait"}
      BY <1>3 DEF AfterBoot, AfterFail
  <2>2. Control'
      BY <1>3, <2>1 DEF Control, At, Filling, Replenishing
  <2>3. Bounds'
      BY <1>0, <1>3, <2>1, TargetFacts DEF Bounds, Owed, Filling, Replenishing
  <2> QED  BY <2>2, <2>3
<1> QED  BY <1>1, <1>2, <1>3

\* The id of a new VM belongs to nobody.
LEMMA FreshFacts == Free # {} => FreshId \in Free
<1> SUFFICES ASSUME Free # {}
             PROVE  FreshId \in Free
    OBVIOUS
<1>1. Free \in SUBSET Nat
    BY PoolAssumption DEF Free, VMs
<1>2. \E v \in Free : \A w \in Free : v <= w
    BY <1>1, Least
<1> QED  BY <1>2 DEF FreshId

\* A boot begins with a new VM, held by the task that boots it.
LEMMA BootStartInv == ASSUME Inv, NEW t \in Tasks, BootStart(t) PROVE Inv'
<1> USE TaskFacts DEF Inv
<1> DEFINE v == FreshId
<1>1. /\ task[t].pc = "boot" /\ vm' = [vm EXCEPT ![v] = boot_start] /\ Move(t, "ready", v)
      /\ idle' = idle /\ hand' = hand /\ need' = need /\ count' = count
      /\ eff' = eff /\ shutdown' = shutdown /\ added' = added
    BY DEF BootStart, At
<1>2. v \in VMs /\ ~vm[v].handler
  <2>1. v \in Free
      BY FreshFacts DEF BootStart
  <2> QED  BY <2>1 DEF Free, NoManager
<1> HIDE DEF v
<1>3. ~Held(v) /\ task[t].vm = NoVm
    BY <1>1, <1>2 DEF Handled, Control, Carrying
<1>4. /\ task' \in [Tasks -> Task] /\ task'[t].pc = "ready" /\ task'[t].vm = v
      /\ \A u \in Tasks : u # t => task'[u] = task[u]
  <2>1. "ready" \in TaskPc
      BY DEF TaskPc
  <2> QED  BY <1>1, <1>2, <2>1, MoveFacts
<1>5. \A u \in Tasks : task'[u].vm # NoVm <=> task'[u].pc \in Carrying
    BY <1>2, <1>4 DEF Control, Carrying
<1>6. boot_start \in Vm /\ boot_start.handler /\ boot_start.state # "Stopped"
    BY Zenon DEF boot_start, Vm
<1>7. vm' \in [VMs -> Vm] /\ vm'[v] = boot_start /\ \A w \in VMs : w # v => vm'[w] = vm[w]
    BY <1>1, <1>2, <1>6 DEF TypeOK
<1>8. OneHolder'
  <2>1. Distinct(idle') /\ Distinct(hand') /\ Range(idle') \cap Range(hand') = {}
      BY <1>1 DEF OneHolder
  <2>2. ASSUME NEW u \in Tasks
        PROVE  task'[u].vm \notin Range(idle') \cup Range(hand')
      BY <1>1, <1>3, <1>4 DEF OneHolder, Held
  <2>3. \A u \in Tasks : task[u].vm # v
      BY <1>3 DEF Held
  <2>4. ASSUME NEW u \in Tasks, NEW x \in Tasks, task'[u].vm = task'[x].vm, task'[u].vm # NoVm
        PROVE  u = x
      BY <2>3, <2>4, <1>4 DEF OneHolder
  <2> QED  BY <2>1, <2>2, <2>4 DEF OneHolder
<1>9. Handled'
  <2> SUFFICES ASSUME NEW w \in VMs
               PROVE  /\ vm'[w].handler <=> Held(w)'
                      /\ vm'[w].handler => vm'[w].state # "Stopped"
      BY DEF Handled
  <2>1. CASE w = v
      BY <2>1, <1>4, <1>6, <1>7 DEF Held
  <2>2. CASE w # v
    <3>1. (\E u \in Tasks : task'[u].vm = w) <=> (\E u \in Tasks : task[u].vm = w)
        BY <2>2, <1>3, <1>4
    <3>2. Held(w)' <=> Held(w)
        BY <3>1, <1>1 DEF Held
    <3> QED  BY <2>2, <3>2, <1>7 DEF Handled
  <2> QED  BY <2>1, <2>2
<1>10. FaultsCounted'
  <2>1. Abandoned' \subseteq Abandoned
      BY <1>6, <1>7 DEF Abandoned
  <2>2. count'.faults = count.faults /\ count.faults \in Nat
      BY <1>1, FaultsType
  <2> QED  BY <2>1, <2>2, FaultCounted
<1>11. TypeOK'
    BY <1>1, <1>4, <1>7 DEF TypeOK
<1>12. Control' /\ Bounds'
    BY <1>1, <1>4, <1>5, BootControl
<1> QED  BY <1>8, <1>9, <1>10, <1>11, <1>12

\* The guest answered: the VM is Ready, with the same holder.
LEMMA BootReadyInv == ASSUME Inv, NEW t \in Tasks, BootReady(t) PROVE Inv'
<1> USE TaskFacts DEF Inv
<1> DEFINE v == task[t].vm
           p == AfterBoot(t)
<1>1. /\ task[t].pc = "ready" /\ vm' = [vm EXCEPT ![v] = boot_ready(vm[v])] /\ Goto(t, p)
      /\ idle' = idle /\ hand' = hand /\ need' = need /\ count' = count
      /\ eff' = eff /\ shutdown' = shutdown /\ added' = added
    BY DEF BootReady, At
<1>2. v \in VMs /\ vm[v] \in Vm
    BY <1>1 DEF Control, Carrying, TypeOK, Task
<1>3. p \in TaskPc /\ p \in Carrying /\ task[t].pc \in Carrying
    BY <1>1 DEF AfterBoot, TaskPc, Carrying
<1>4. /\ task' \in [Tasks -> Task] /\ task'[t].pc = p
      /\ \A u \in Tasks : task'[u].vm = task[u].vm
      /\ \A u \in Tasks : u # t => task'[u] = task[u]
    BY <1>1, <1>3, GotoFacts
<1> DEFINE m == boot_ready(vm[v])
<1>5. m \in Vm /\ m.state = "Ready" /\ m.handler = vm[v].handler /\ (Gone(m) <=> Gone(vm[v]))
  <2>1. m = [vm[v] EXCEPT !.state = "Ready"]
      BY DEF boot_ready
  <2> HIDE DEF m
  <2> QED  BY <1>2, <2>1, Zenon DEF Vm, Gone
<1> HIDE DEF m
<1>6. vm' \in [VMs -> Vm] /\ vm'[v] = m /\ \A w \in VMs : w # v => vm'[w] = vm[w]
    BY <1>1, <1>2, <1>5 DEF TypeOK, m
<1>7. OneHolder' /\ \A w \in VMs : Held(w)' <=> Held(w)
    BY <1>1, <1>4 DEF OneHolder, Held
<1>8. Handled'
    BY <1>5, <1>6, <1>7 DEF Handled
<1>9. FaultsCounted'
  <2>1. Abandoned' \subseteq Abandoned
      BY <1>5, <1>6 DEF Abandoned
  <2>2. count'.faults = count.faults /\ count.faults \in Nat
      BY <1>1, FaultsType
  <2> QED  BY <2>1, <2>2, FaultCounted
<1>10. TypeOK'
    BY <1>1, <1>4, <1>6 DEF TypeOK
<1>11. \A u \in Tasks : task'[u].vm # NoVm <=> task'[u].pc \in Carrying
    BY <1>3, <1>4 DEF Control
<1>12. Control' /\ Bounds'
    BY <1>1, <1>4, <1>11, BootControl
<1> QED  BY <1>7, <1>8, <1>9, <1>10, <1>12

\* A counted fault.
LEMMA FaultCount ==
    ASSUME TypeOK, MayFault, Fault
    PROVE  /\ count' \in [acquires : 0 .. MaxAcquires, faults : 0 .. MaxFaults,
                          drains : 0 .. MaxDrains]
           /\ count'.faults = count.faults + 1 /\ count'.faults \in Nat
<1>1. MaxFaults \in Nat
    BY PoolAssumption
<1> QED  BY <1>1 DEF TypeOK, MayFault, Fault

\* A boot fails: the task lets go of the VM, whose handler is gone.
LEMMA BootFailInv == ASSUME Inv, NEW t \in Tasks, BootFail(t) PROVE Inv'
<1> USE TaskFacts DEF Inv
<1> DEFINE v == task[t].vm
           p == AfterFail(t)
<1>1. /\ task[t].pc = "ready" /\ Move(t, p, NoVm) /\ MayFault /\ Fault
      /\ idle' = idle /\ hand' = hand /\ need' = need
      /\ eff' = eff /\ shutdown' = shutdown /\ added' = added
    BY DEF BootFail, At
<1>2. PICK stopped \in BOOLEAN :
        vm' = [vm EXCEPT ![v] = Drop(cleanup_boot_failure(vm[v], stopped))]
    BY DEF BootFail
<1>3. p \in TaskPc \ Carrying /\ task[t].pc \in Carrying
    BY <1>1 DEF AfterFail, TaskPc, Carrying
<1>4. /\ task' \in [Tasks -> Task] /\ task'[t].pc = p
      /\ \A u \in Tasks : u # t => task'[u] = task[u]
    BY <1>1, <1>3, MoveFacts
<1>5. /\ OneHolder' /\ v \in VMs
      /\ \A w \in VMs : Held(w)' <=> Held(w) /\ w # v
      /\ \A u \in Tasks : task'[u].vm # NoVm <=> task'[u].pc \in Carrying
    BY <1>1, <1>3, DropHolders
<1> DEFINE r == Drop(cleanup_boot_failure(vm[v], stopped))
<1>6. r \in Vm /\ ~r.handler
    BY <1>5, CleanupFacts, FaultsType
<1> HIDE DEF r
<1>7. /\ count' \in [acquires : 0 .. MaxAcquires, faults : 0 .. MaxFaults, drains : 0 .. MaxDrains]
      /\ count'.faults = count.faults + 1 /\ count'.faults \in Nat
    BY <1>1, FaultCount
<1>8. vm' = [vm EXCEPT ![v] = r]
    BY <1>2 DEF r
<1>9. vm' \in [VMs -> Vm] /\ Handled' /\ FaultsCounted'
  <2> HIDE DEF v
  <2> QED  BY <1>5, <1>6, <1>7, <1>8, LostHandled
<1>10. TypeOK'
    BY <1>1, <1>4, <1>7, <1>9 DEF TypeOK
<1>11. Control' /\ Bounds'
    BY <1>1, <1>4, <1>5, BootControl
<1> QED  BY <1>5, <1>9, <1>10, <1>11

\* A shim dies: its manager keeps the handler.
LEMMA VmDiesInv == Inv /\ VmDies => Inv'
<1> SUFFICES ASSUME Inv, VmDies
             PROVE  Inv'
    OBVIOUS
<1> USE DEF Inv
<1>1. PICK v \in VMs : vm[v].up /\ vm[v].handler /\ vm' = [vm EXCEPT ![v].up = FALSE]
    BY DEF VmDies
<1>2. /\ count' \in [acquires : 0 .. MaxAcquires, faults : 0 .. MaxFaults, drains : 0 .. MaxDrains]
      /\ count'.faults = count.faults + 1 /\ count'.faults \in Nat
    BY FaultCount DEF VmDies
<1>3. /\ idle' = idle /\ task' = task /\ hand' = hand /\ need' = need /\ added' = added
      /\ shutdown' = shutdown /\ eff' = eff
    BY DEF VmDies
<1> DEFINE m == [vm[v] EXCEPT !.up = FALSE]
<1>4. m \in Vm /\ m.handler = vm[v].handler /\ m.state = vm[v].state
  <2>1. vm[v] \in Vm
      BY FaultsType
  <2> QED  BY <2>1, Zenon DEF Vm
<1> HIDE DEF m
<1>5. vm' \in [VMs -> Vm] /\ vm'[v] = m /\ \A w \in VMs : w # v => vm'[w] = vm[w]
    BY <1>1, <1>4, FaultsType DEF m
<1>6. OneHolder' /\ \A w \in VMs : Held(w)' <=> Held(w)
    BY <1>3 DEF OneHolder, Held
<1>7. Handled'
    BY <1>4, <1>5, <1>6 DEF Handled
<1>8. FaultsCounted'
  <2>1. Abandoned' \subseteq Abandoned
      BY <1>1, <1>4, <1>5 DEF Abandoned
  <2>2. count.faults \in Nat /\ count'.faults >= count.faults
      BY <1>2, FaultsType
  <2> QED  BY <1>2, <2>1, <2>2, FaultCounted
<1>9. TypeOK'
    BY <1>2, <1>3, <1>5 DEF TypeOK
<1>10. Control' /\ Bounds'
    BY <1>3 DEF Control, Bounds, Owed, At
<1> QED  BY <1>6, <1>7, <1>8, <1>9, <1>10

\* A VM leaves the idle list or the loop's hands and is destroyed.
LEMMA ListDestroyInv ==
    ASSUME Inv, NEW v, Destroy(v), task' = task,
           \/ /\ v \in Range(idle) /\ idle' \in Seq(VMs) /\ Distinct(idle')
              /\ Range(idle') = Range(idle) \ {v} /\ Len(idle') = Len(idle) - 1
              /\ hand' = hand
           \/ /\ v \in Range(hand) /\ hand' \in Seq(VMs) /\ Distinct(hand')
              /\ Range(hand') = Range(hand) \ {v} /\ task[Loop].pc = "evict"
              /\ idle' = idle,
           need' = need, added' = added, shutdown' = shutdown, eff' = eff
    PROVE  Inv'
<1> USE DEF Inv
<1>1. /\ OneHolder' /\ v \in VMs /\ Held(v)
      /\ \A w \in VMs : Held(w)' <=> Held(w) /\ w # v
    BY ListHolders
<1>2. vm' \in [VMs -> Vm] /\ Handled' /\ FaultsCounted'
    BY <1>1, DestroyHandled
<1>3. count' \in [acquires : 0 .. MaxAcquires, faults : 0 .. MaxFaults, drains : 0 .. MaxDrains]
    BY <1>1, DestroyCount
<1>4. TypeOK'
    BY <1>2, <1>3 DEF TypeOK
<1>5. Control'
    BY DEF Control, At
<1>6. Bounds'
  <2>1. /\ Len(idle) \in Nat /\ Len(idle') \in Nat /\ Len(idle') <= Len(idle)
        /\ need[Main] \in Nat /\ need[Loop] \in Nat
      BY IdleFacts, LenProperties, TargetFacts, TaskFacts DEF TypeOK
  <2> QED  BY <2>1, TargetFacts DEF Bounds, Owed
<1> QED  BY <1>1, <1>2, <1>4, <1>5, <1>6

\* drain pops and destroys one VM after the other.
LEMMA DrainOneInv == Inv /\ DrainOne => Inv'
<1> SUFFICES ASSUME Inv, DrainOne
             PROVE  Inv'
    OBVIOUS
<1> USE TaskFacts DEF Inv
<1>1. CASE idle = <<>>
  <2>1. /\ task[Main].pc = "drain" /\ Goto(Main, "drained") /\ "drained" \in TaskPc
        /\ vm' = vm /\ idle' = idle /\ hand' = hand /\ count' = count
        /\ eff' = eff /\ need' = need /\ added' = added /\ shutdown' = shutdown
      BY <1>1 DEF DrainOne, At, TaskPc
  <2>2. /\ task' \in [Tasks -> Task] /\ task'[Main].pc = "drained"
        /\ \A u \in Tasks : u # Main => task'[u] = task[u]
      BY <2>1, GotoFacts
  <2>3. TypeOK'
      BY <2>1, <2>2 DEF TypeOK
  <2>4. /\ OneHolder' /\ Handled' /\ FaultsCounted'
        /\ \A u \in Tasks : task'[u].vm # NoVm <=> task'[u].pc \in Carrying
      BY <2>1, GotoHolders DEF Carrying
  <2>5. Control'
      BY <2>1, <2>2, <2>4 DEF Control, At, Filling, Replenishing
  <2>6. Bounds'
      BY <2>1, <2>2 DEF Bounds, Owed, Filling, Replenishing
  <2> QED  BY <2>3, <2>4, <2>5, <2>6
<1>2. CASE idle # <<>>
  <2>1. Destroy(Head(idle)) /\ idle' = Tail(idle) /\ task' = task /\ hand' = hand
        /\ eff' = eff /\ need' = need /\ added' = added /\ shutdown' = shutdown
      BY <1>2 DEF DrainOne
  <2>2. /\ Head(idle) \in Range(idle) /\ idle' \in Seq(VMs) /\ Distinct(idle')
        /\ Range(idle') = Range(idle) \ {Head(idle)} /\ Len(idle') = Len(idle) - 1
      BY <1>2, <2>1, IdleFacts, RemoveHead DEF OneHolder
  <2> QED  BY <2>1, <2>2, ListDestroyInv
<1> QED  BY <1>1, <1>2

\* The loop destroys what it took off the list.
LEMMA LoopEvictInv == Inv /\ LoopEvict => Inv'
<1> SUFFICES ASSUME Inv, LoopEvict
             PROVE  Inv'
    OBVIOUS
<1> USE TaskFacts DEF Inv
<1>0. task[Loop].pc = "evict"
    BY DEF LoopEvict, At
<1>1. CASE hand = <<>>
  <2>1. /\ Goto(Loop, "scale") /\ "scale" \in TaskPc
        /\ vm' = vm /\ idle' = idle /\ hand' = hand /\ count' = count
        /\ eff' = eff /\ need' = need /\ added' = added /\ shutdown' = shutdown
      BY <1>1 DEF LoopEvict, TaskPc
  <2>2. /\ task' \in [Tasks -> Task] /\ task'[Loop].pc = "scale"
        /\ \A u \in Tasks : u # Loop => task'[u] = task[u]
      BY <2>1, GotoFacts
  <2>3. TypeOK'
      BY <2>1, <2>2 DEF TypeOK
  <2>4. /\ OneHolder' /\ Handled' /\ FaultsCounted'
        /\ \A u \in Tasks : task'[u].vm # NoVm <=> task'[u].pc \in Carrying
      BY <1>0, <2>1, GotoHolders DEF Carrying
  <2>5. Control'
      BY <1>0, <1>1, <2>1, <2>2, <2>4 DEF Control, At, Filling, Replenishing
  <2>6. Bounds'
      BY <1>0, <2>1, <2>2 DEF Bounds, Owed, Filling, Replenishing
  <2> QED  BY <2>3, <2>4, <2>5, <2>6
<1>2. CASE hand # <<>>
  <2>1. Destroy(Head(hand)) /\ hand' = Tail(hand) /\ task' = task /\ idle' = idle
        /\ eff' = eff /\ need' = need /\ added' = added /\ shutdown' = shutdown
      BY <1>2 DEF LoopEvict
  <2>2. /\ Head(hand) \in Range(hand) /\ hand' \in Seq(VMs) /\ Distinct(hand')
        /\ Range(hand') = Range(hand) \ {Head(hand)}
      BY <1>2, <2>1, IdleFacts, RemoveHead DEF OneHolder
  <2> QED  BY <1>0, <2>1, <2>2, ListDestroyInv
<1> QED  BY <1>1, <1>2

\* A failed fill destroys what it added, and ends.
LEMMA FillRollbackInv == Inv /\ FillRollback => Inv'
<1> SUFFICES ASSUME Inv, FillRollback
             PROVE  Inv'
    OBVIOUS
<1> USE TaskFacts DEF Inv
<1> DEFINE is == rollback_ids(idle, added)
<1>0. /\ task[Main].pc = "rollback" /\ hand' = hand /\ shutdown' = shutdown /\ eff' = eff
      /\ Len(idle) \in Nat /\ DOMAIN idle = 1 .. Len(idle)
    BY IdleFacts, LenProperties DEF FillRollback, At
<1>1. CASE is = {}
  <2>1. /\ Goto(Main, "fill") /\ "fill" \in TaskPc
        /\ vm' = vm /\ idle' = idle /\ count' = count /\ added' = added
        /\ need' = [need EXCEPT ![Main] = 0]
      BY <1>1 DEF FillRollback, TaskPc
  <2>2. /\ task' \in [Tasks -> Task] /\ task'[Main].pc = "fill"
        /\ \A u \in Tasks : u # Main => task'[u] = task[u]
      BY <2>1, GotoFacts
  <2>3. /\ need' \in [{Main, Loop} -> 0 .. MaxSize]
        /\ need'[Main] = 0 /\ need'[Loop] = need[Loop] /\ need[Main] \in Nat
      BY <2>1, TargetFacts DEF TypeOK
  <2>4. TypeOK'
      BY <1>0, <2>1, <2>2, <2>3 DEF TypeOK
  <2>5. /\ OneHolder' /\ Handled' /\ FaultsCounted'
        /\ \A u \in Tasks : task'[u].vm # NoVm <=> task'[u].pc \in Carrying
      BY <1>0, <2>1, GotoHolders DEF Carrying
  <2>6. Control'
      BY <1>0, <2>1, <2>2, <2>5 DEF Control, At, Filling, Replenishing
  <2>7. Bounds'
      BY <1>0, <2>1, <2>2, <2>3, TargetFacts DEF Bounds, Owed, Filling, Replenishing
  <2> QED  BY <2>4, <2>5, <2>6, <2>7
<1>2. CASE is # {}
  <2> DEFINE i == CHOOSE i \in is : \A j \in is : j <= i
  <2>1. /\ idle' = SubSeq(idle, 1, i - 1) \o SubSeq(idle, i + 1, Len(idle))
        /\ Destroy(idle[i]) /\ task' = task /\ need' = need /\ added' = added
      BY <1>2 DEF FillRollback
  <2>2. i \in 1 .. Len(idle)
    <3>1. is \in SUBSET (1 .. Len(idle))
        BY <1>0 DEF rollback_ids
    <3>2. \E k \in is : \A j \in is : j <= k
      <4> HIDE DEF is
      <4> QED  BY <1>0, <1>2, <3>1, Greatest
    <3>3. i \in is
        BY <3>2
    <3> QED  BY <3>1, <3>3
  <2> HIDE DEF i
  <2>3. /\ idle' \in Seq(VMs) /\ Distinct(idle')
        /\ Range(idle') = Range(idle) \ {idle[i]} /\ Len(idle') = Len(idle) - 1
      BY <2>1, <2>2, IdleFacts, Remove DEF OneHolder
  <2>4. idle[i] \in Range(idle)
      BY <1>0, <2>2 DEF Range
  <2> QED  BY <1>0, <2>1, <2>3, <2>4, ListDestroyInv
<1> QED  BY <1>1, <1>2

\* The expired VMs go from the list into the loop's hands.
LEMMA LoopTickInv == Inv /\ LoopTick => Inv'
<1> SUFFICES ASSUME Inv, LoopTick
             PROVE  Inv'
    OBVIOUS
<1> USE TaskFacts DEF Inv
<1>1. /\ task[Loop].pc = "wait" /\ Goto(Loop, "evict") /\ "evict" \in TaskPc
      /\ vm' = vm /\ count' = count
      /\ eff' = eff /\ need' = need /\ added' = added /\ shutdown' = shutdown
    BY DEF LoopTick, At, TaskPc
<1>2. PICK k \in 0 .. Len(idle) :
        hand' = SubSeq(idle, 1, k) /\ idle' = SubSeq(idle, k + 1, Len(idle))
    BY DEF LoopTick
<1>3. /\ hand' \in Seq(VMs) /\ Distinct(hand')
      /\ idle' \in Seq(VMs) /\ Distinct(idle') /\ Len(idle') = Len(idle) - k
      /\ Range(hand') \cap Range(idle') = {}
      /\ Range(hand') \cup Range(idle') = Range(idle)
    BY <1>2, IdleFacts, Cut DEF OneHolder
<1>4. Len(idle) \in Nat /\ Len(idle') \in Nat /\ Len(idle') <= Len(idle)
    BY <1>3, IdleFacts, LenProperties
<1>5. /\ task' \in [Tasks -> Task] /\ task'[Loop].pc = "evict"
      /\ \A u \in Tasks : task'[u].vm = task[u].vm
      /\ \A u \in Tasks : u # Loop => task'[u] = task[u]
    BY <1>1, GotoFacts
<1>6. hand = <<>> /\ Range(hand) = {}
  <2>1. hand = <<>>
      BY <1>1 DEF Control, At
  <2>2. Len(hand) = 0 /\ DOMAIN hand = 1 .. Len(hand)
      BY <2>1, IdleFacts, EmptySeq, LenProperties
  <2> QED  BY <2>1, <2>2 DEF Range
<1>7. OneHolder'
    BY <1>3, <1>5, <1>6 DEF OneHolder
<1>8. \A w \in VMs : Held(w)' <=> Held(w)
    BY <1>3, <1>5, <1>6 DEF Held
<1>9. Handled' /\ FaultsCounted'
    BY <1>1, <1>8, StillHandled
<1>10. TypeOK'
    BY <1>1, <1>3, <1>5 DEF TypeOK
<1>11. \A u \in Tasks : task'[u].vm # NoVm <=> task'[u].pc \in Carrying
    BY <1>1, <1>5 DEF Control, Carrying
<1>12. Control'
    BY <1>1, <1>5, <1>11 DEF Control, At, Filling, Replenishing
<1>13. Bounds'
  <2>1. task'[Main].pc = task[Main].pc /\ task[Main].pc \notin Filling
      BY <1>1, <1>5 DEF Control, At
  <2> QED  BY <1>1, <1>4, <1>5, <2>1, TargetFacts DEF Bounds, Owed, Replenishing
<1> QED  BY <1>7, <1>9, <1>10, <1>12, <1>13

-----------------------------------------------------------------------------
(* The theorems                                                            *)

\* An empty pool.
LEMMA InitInv == Init => Inv
<1> SUFFICES ASSUME Init
             PROVE  Inv
    OBVIOUS
<1> USE TaskFacts, TargetFacts DEF Init
<1>0. Len(idle) = 0 /\ idle \in Seq(VMs) /\ hand \in Seq(VMs) /\ DOMAIN idle = {} /\ DOMAIN hand = {}
    BY EmptySeq
<1>1. Range(idle) = {} /\ Range(hand) = {} /\ Distinct(idle) /\ Distinct(hand)
    BY <1>0 DEF Range, Distinct
<1>2. NoManager \in Vm /\ ~NoManager.handler /\ Gone(NoManager)
    BY Zenon DEF NoManager, Vm, Gone
<1>3. /\ task[Main].pc = "fill" /\ \A t \in Tasks : task[t].vm = NoVm
      /\ \A t \in Tasks : t # Main => task[t].pc = "out"
    OBVIOUS
<1>4. TypeOK
  <2>1. vm \in [VMs -> Vm] /\ task \in [Tasks -> Task]
      BY <1>2 DEF Task, TaskPc
  <2>2. need \in [{Main, Loop} -> 0 .. MaxSize] /\ eff \in 0 .. MaxSize
      OBVIOUS
  <2>3. count \in [acquires : 0 .. MaxAcquires, faults : 0 .. MaxFaults, drains : 0 .. MaxDrains]
      BY PoolAssumption
  <2> QED  BY <1>0, <2>1, <2>2, <2>3 DEF TypeOK
<1>5. Control
    BY <1>3 DEF Control, At, Carrying, Filling, Replenishing
<1>6. Bounds
    BY <1>0, <1>3 DEF Bounds, Owed, Filling, Replenishing
<1>7. OneHolder
    BY <1>1, <1>3 DEF OneHolder
<1>8. Handled
    BY <1>1, <1>2, <1>3 DEF Handled, Held
<1>9. FaultsCounted
  <2>1. Abandoned = {}
      BY <1>2 DEF Abandoned
  <2> QED  BY <2>1, FS_EmptySet DEF FaultsCounted
<1> QED  BY <1>4, <1>5, <1>6, <1>7, <1>8, <1>9 DEF Inv

\* Every step preserves the invariant.
LEMMA NextInv == Inv /\ [Next]_vars => Inv'
<1> SUFFICES ASSUME Inv, [Next]_vars
             PROVE  Inv'
    OBVIOUS
<1>1. ASSUME NEW t \in Tasks, Boot(t)
      PROVE  Inv'
    BY <1>1, BootStartInv, BootReadyInv, BootFailInv DEF Boot
<1>2. CASE MainStep
    BY <1>2, FillNextInv, FillPushInv, FillRollbackInv, DrainJoinedInv, DrainOneInv DEF MainStep
<1>3. CASE SignalShutdown \/ DrainStart \/ VmDies
    BY <1>3, SignalInv, DrainStartInv, VmDiesInv
<1>4. CASE LoopStep
    BY <1>4, LoopShutdownInv, LoopTickInv, LoopEvictInv, LoopScaleInv, LoopCountInv, LoopPushInv
       DEF LoopStep
<1>5. ASSUME NEW c \in Clients, ClientStep(c)
      PROVE  Inv'
    BY <1>5, AcquireInv, ReleaseInv, ReleaseDestroyInv DEF ClientStep
<1>6. CASE UNCHANGED vars
  <2>1. TypeOK' /\ Control' /\ Bounds'
      BY <1>6 DEF vars, Inv, TypeOK, Control, Bounds, Owed, At
  <2>2. OneHolder' /\ Handled' /\ FaultsCounted'
      BY <1>6, SameHolders DEF vars, Inv
  <2> QED  BY <2>1, <2>2 DEF Inv
<1> QED  BY <1>1, <1>2, <1>3, <1>4, <1>5, <1>6 DEF Next

\* The invariant holds in every reachable state.
LEMMA Invariance == Spec => []Inv
    BY InitInv, NextInv, PTL DEF Spec

\* The pool's state is always well typed; in particular the loop's need never goes
\* below zero and the scaler's target never exceeds max_size.
THEOREM TypeCorrect == Spec => []TypeOK
<1>1. Inv => TypeOK
    BY DEF Inv
<1> QED  BY Invariance, <1>1, PTL

\* A set in which any two elements are equal has at most one.
LEMMA AtMostOne ==
    ASSUME NEW S, \A x, y \in S : x = y
    PROVE  Cardinality(S) <= 1
<1>1. CASE S = {}
    BY <1>1, FS_EmptySet
<1>2. CASE S # {}
  <2>1. PICK x : S = {x}
      BY <1>2
  <2> QED  BY <2>1, FS_Singleton
<1> QED  BY <1>1, <1>2

\* Every VM of the pool has one holder and its handler through fills, rollbacks,
\* acquires, releases, evictions and drains, and only failed stops abandon one.
THEOREM Accounted == Spec => []VmsAccounted
<1>1. ASSUME Inv
      PROVE  VmsAccounted
  <2> USE <1>1 DEF Inv
  <2>1. ASSUME NEW v \in VMs
        PROVE  /\ Cardinality(Holders(v)) <= 1
               /\ Holders(v) # {} <=> Held(v)
    <3>1. ASSUME NEW x \in Holders(v), NEW y \in Holders(v)
          PROVE  x = y
      <4>1. /\ \A i \in DOMAIN idle : idle[i] = v => v \in Range(idle)
            /\ \A i \in DOMAIN hand : hand[i] = v => v \in Range(hand)
          BY DEF Range
      <4>2. v # NoVm
          BY TaskFacts
      <4>3. /\ \A i, j \in DOMAIN idle : idle[i] = v /\ idle[j] = v => i = j
            /\ \A i, j \in DOMAIN hand : hand[i] = v /\ hand[j] = v => i = j
            /\ \A t, u \in Tasks : task[t].vm = v /\ task[u].vm = v => t = u
          BY <4>2 DEF OneHolder, Distinct
      <4>4. /\ ~(v \in Range(idle) /\ v \in Range(hand))
            /\ \A t \in Tasks : task[t].vm = v => v \notin Range(idle) /\ v \notin Range(hand)
          BY DEF OneHolder
      <4> QED  BY <4>1, <4>3, <4>4 DEF Holders
    <3>2. Holders(v) # {} <=> Held(v)
        BY DEF Holders, Held, Range
    <3>3. Cardinality(Holders(v)) <= 1
        BY <3>1, AtMostOne
    <3> QED  BY <3>2, <3>3
  <2>2. \A v \in VMs : Holders(v) # {} => vm[v].handler
      BY <2>1 DEF Handled
  <2>3. \A v \in VMs : ~Gone(vm[v]) /\ Holders(v) = {} => v \in Abandoned
      BY <2>1 DEF Handled, Abandoned
  <2> QED  BY <2>1, <2>2, <2>3 DEF VmsAccounted, FaultsCounted
<1> QED  BY Invariance, <1>1, PTL

\* The idle list exceeds max_size by at most what one round of replenishment owes.
THEOREM Bounded == Spec => []IdleBounded
<1>1. ASSUME Inv
      PROVE  IdleBounded
  <2>1. Len(idle) \in Nat /\ Owed \in Nat
      BY <1>1, IdleFacts, TaskFacts, TargetFacts DEF Inv, TypeOK, Owed
  <2>2. Len(idle) <= MaxSize + Target
      BY <1>1, <2>1, TargetFacts DEF Inv, Bounds
  <2> QED  BY <2>2 DEF IdleBounded, Target
<1> QED  BY Invariance, <1>1, PTL

\* When drain returns, what has a handler is held, and only clients hold anything.
LEMMA DrainLeaves ==
    ASSUME Inv, Inv', Next, At(Main, "drain"), At(Main, "drained")', NEW v \in VMs
    PROVE  Gone(vm'[v]) \/ v \in (Abandoned \cup InClients)'
<1> USE TaskFacts
<1>1. DrainOne
  <2>1. CASE MainStep
      BY <2>1 DEF MainStep, FillNext, FillPush, FillRollback, DrainJoined, At
  <2>2. ASSUME NEW t \in Tasks, Boot(t)
        PROVE  FALSE
    <3>1. t # Main /\ task \in [Tasks -> Task]
        BY <2>2 DEF Boot, BootStart, BootReady, BootFail, At, Inv, TypeOK
    <3>2. task'[Main] = task[Main]
        BY <2>2, <3>1 DEF Boot, BootStart, BootReady, BootFail, Goto, Move
    <3> QED  BY <3>2 DEF At
  <2>3. ASSUME NEW c \in Clients, ClientStep(c)
        PROVE  FALSE
    <3>1. task'[Main] = task[Main]
        BY <2>3 DEF ClientStep, AcquireStart, Release, ReleaseDestroy, Goto, Move, Inv, TypeOK
    <3> QED  BY <3>1 DEF At
  <2>4. CASE LoopStep
      BY <2>4 DEF LoopStep, LoopShutdown, LoopTick, LoopEvict, LoopScale, LoopCount, LoopPush,
            At, Inv, Control
  <2>5. CASE SignalShutdown \/ DrainStart \/ VmDies
      BY <2>5 DEF SignalShutdown, DrainStart, VmDies, At
  <2> QED  BY <2>1, <2>2, <2>3, <2>4, <2>5 DEF Next
<1>2. idle' = <<>> /\ Range(idle') = {}
  <2>1. idle = <<>> /\ idle' = idle
      BY <1>1 DEF DrainOne, At
  <2> QED  BY <2>1 DEF Range
<1>3. task'[Main].pc = "drained" /\ task'[Loop].pc = "done" /\ hand' = <<>> /\ Range(hand') = {}
  <2>1. task'[Main].pc = "drained" /\ task'[Loop].pc = "done" /\ hand' = <<>>
      BY DEF At, Inv, Control
  <2> QED  BY <2>1 DEF Range
<1>4. task'[Main].vm = NoVm /\ task'[Loop].vm = NoVm
    BY <1>3 DEF Inv, Control, Carrying
<1>5. Held(v)' => v \in InClients'
    BY <1>2, <1>3, <1>4 DEF Held, InClients
<1>6. vm'[v].handler => v \in InClients'
    BY <1>5 DEF Inv, Handled
<1> QED  BY <1>6 DEF Abandoned

\* After drain only clients start VMs and fill the idle list.
LEMMA DrainStays ==
    ASSUME Inv, Next, At(Main, "drained"), NEW v \in VMs,
           \/ vm'[v].up /\ ~vm[v].up
           \/ v \in Idle' /\ v \notin Idle
    PROVE  v \in InClients \cup InClients'
<1> USE TaskFacts
<1>1. TypeOK /\ At(Loop, "done") /\ vm \in [VMs -> Vm] /\ task \in [Tasks -> Task]
    BY DEF Inv, Control, TypeOK, At
<1>2. CASE MainStep \/ SignalShutdown
    BY <1>2 DEF MainStep, SignalShutdown, FillNext, FillPush, FillRollback, DrainJoined, DrainOne, At
<1>3. CASE LoopStep
    BY <1>1, <1>3 DEF LoopStep, LoopShutdown, LoopTick, LoopEvict, LoopScale, LoopCount, LoopPush, At
<1>4. CASE DrainStart
    BY <1>4 DEF DrainStart, Idle
<1>5. CASE VmDies
  <2>1. PICK w \in VMs : vm' = [vm EXCEPT ![w].up = FALSE]
      BY <1>5 DEF VmDies
  <2>2. vm'[v].up => vm[v].up
      BY <1>1, <2>1 DEF Vm
  <2> QED  BY <1>5, <2>2 DEF VmDies, Idle
<1>6. ASSUME NEW t \in Tasks, Boot(t)
      PROVE  v \in InClients \cup InClients'
  <2>1. t \in Clients /\ idle' = idle
      BY <1>1, <1>6 DEF Boot, BootStart, BootReady, BootFail, At
  <2>2. vm'[v].up /\ ~vm[v].up
      BY <2>1 DEF Idle
  <2>3. CASE BootStart(t)
    <3>1. vm' = [vm EXCEPT ![FreshId] = boot_start] /\ task' = [task EXCEPT ![t] = [pc |-> "ready", vm |-> FreshId]]
        BY <2>3 DEF BootStart, Move
    <3>2. v = FreshId
        BY <1>1, <2>2, <3>1
    <3> QED  BY <1>1, <2>1, <3>1, <3>2 DEF InClients
  <2>4. CASE BootReady(t)
      BY <1>1, <2>2, <2>4 DEF BootReady, boot_ready, Vm
  <2>5. CASE BootFail(t)
    <3>1. PICK stopped \in BOOLEAN :
            vm' = [vm EXCEPT ![task[t].vm] = Drop(cleanup_boot_failure(vm[task[t].vm], stopped))]
        BY <2>5 DEF BootFail
    <3>2. v = task[t].vm
        BY <1>1, <2>2, <3>1
    <3> QED  BY <2>1, <3>2 DEF InClients
  <2> QED  BY <1>6, <2>3, <2>4, <2>5 DEF Boot
<1>7. ASSUME NEW c \in Clients, ClientStep(c)
      PROVE  v \in InClients \cup InClients'
  <2>1. CASE AcquireStart(c)
    <3>1. vm' = vm
        BY <2>1 DEF AcquireStart
    <3>2. Idle = Range(idle) /\ Idle' = Range(idle')
        BY DEF Idle, Range
    <3>3. Range(idle') \subseteq Range(idle)
      <4>1. CASE idle = <<>>
          BY <2>1, <4>1 DEF AcquireStart
      <4>2. CASE idle # <<>>
        <5>1. idle' = pop(idle)
            BY <2>1, <4>2 DEF AcquireStart
        <5>2. Range(pop(idle)) = Range(idle) \ {idle[Len(idle)]}
            BY <4>2, IdleFacts, RemoveLast, <1>1 DEF Inv, OneHolder
        <5> QED  BY <5>1, <5>2
      <4> QED  BY <4>1, <4>2
    <3> QED  BY <3>1, <3>2, <3>3
  <2>2. CASE Release(c)
    <3>1. vm' = vm /\ (idle' = idle \/ idle' = Append(idle, task[c].vm))
        BY <2>2 DEF Release
    <3>2. v \in Idle' /\ v \notin Idle /\ idle' = Append(idle, task[c].vm)
        BY <3>1 DEF Idle
    <3>3. v = task[c].vm
      <4>1. PICK i \in DOMAIN idle' : v = idle'[i]
          BY <3>2 DEF Idle
      <4>2. idle \in Seq(VMs) /\ DOMAIN idle = 1 .. Len(idle) /\ Len(idle) \in Nat
          BY <1>1, IdleFacts, LenProperties
      <4>3. i \in 1 .. Len(idle) + 1 /\ (i # Len(idle) + 1 => idle'[i] = idle[i])
            /\ idle'[Len(idle) + 1] = task[c].vm
          BY <3>2, <4>1, <4>2
      <4>4. CASE i \in 1 .. Len(idle)
          BY <3>2, <4>1, <4>2, <4>3, <4>4 DEF Idle
      <4> QED  BY <4>1, <4>2, <4>3, <4>4
    <3> QED  BY <3>3 DEF InClients
  <2>3. CASE ReleaseDestroy(c)
    <3>1. idle' = idle
        BY <2>3 DEF ReleaseDestroy
    <3>2. vm'[v].up /\ ~vm[v].up
        BY <3>1 DEF Idle
    <3>3. PICK stopped \in BOOLEAN :
            vm' = [vm EXCEPT ![task[c].vm] = Drop(destroy_with_options(vm[task[c].vm], stopped))]
        BY <2>3 DEF ReleaseDestroy, Destroy
    <3>4. v = task[c].vm
        BY <1>1, <3>2, <3>3
    <3> QED  BY <3>4 DEF InClients
  <2> QED  BY <1>7, <2>1, <2>2, <2>3 DEF ClientStep
<1> QED  BY <1>2, <1>3, <1>4, <1>5, <1>6, <1>7 DEF Next

\* Drain leaves nothing of any VM that no client holds and whose stop did not fail,
\* and nobody but a client starts a VM or makes one idle after it.
THEOREM DrainQuiet == Spec => DrainedIsQuiet
<1> DEFINE Quiet ==
             /\ At(Main, "drain") /\ At(Main, "drained")' =>
                  \A v \in VMs : Gone(vm'[v]) \/ v \in (Abandoned \cup InClients)'
             /\ At(Main, "drained") =>
                  \A v \in VMs :
                     \/ vm'[v].up /\ ~vm[v].up
                     \/ v \in Idle' /\ v \notin Idle
                     => v \in InClients \cup InClients'
<1>1. Inv /\ Inv' /\ [Next]_vars => [Quiet]_vars
    BY DrainLeaves, DrainStays
<1>2. Inv /\ [Next]_vars => Inv'
    BY NextInv
<1> QED  BY Invariance, <1>1, <1>2, PTL DEF Spec, DrainedIsQuiet

=============================================================================
