----------------------------- MODULE QueueProofs -----------------------------
(***************************************************************************)
(* The event queue, for any units and any delays: no service runs late,    *)
(* and the list of differences implements the agenda of times.             *)
(***************************************************************************)
EXTENDS EventQueue, SequenceTheorems, WellFoundedInduction, TLAPS

----------------------------------------------------------------------------
(* Induction, for what sets of numbers have and recursions compute.        *)

LEMMA LeastNumber ==
    ASSUME NEW T, T \subseteq Nat, T # {} PROVE \E n \in T : \A m \in T : n <= m
<1>1. PICK n \in T : \A m \in T : ~(<<m, n>> \in OpToRel(<, Nat))
  BY NatLessThanWellFounded, WFMin
<1>2. \A m \in T : ~(m < n)
  BY <1>1 DEF OpToRel
<1> QED BY <1>2

LEMMA Induction ==
    ASSUME NEW T, 0 \in T, \A n \in Nat : n \in T => n + 1 \in T
    PROVE  \A n \in Nat : n \in T
<1> SUFFICES ASSUME Nat \ T # {} PROVE FALSE
  OBVIOUS
<1>1. PICK n \in Nat \ T : \A m \in Nat \ T : n <= m
  BY LeastNumber
<1>2. n # 0 /\ n - 1 \in Nat
  BY <1>1
<1>3. n - 1 \in T
  BY <1>1, <1>2
<1> QED BY <1>1, <1>2, <1>3

LEMMA MinIsLeast ==
    ASSUME NEW T, T \subseteq Nat, T # {}
    PROVE  Min(T) \in T /\ \A m \in T : Min(T) <= m
BY LeastNumber DEF Min

LEMMA MaxIsGreatest ==
    ASSUME NEW T, T \subseteq Nat, T # {}, NEW b \in Nat, \A m \in T : m <= b
    PROVE  Max(T) \in T /\ \A m \in T : m <= Max(T)
<1>1. PICK l \in {n \in Nat : \A m \in T : m <= n} :
            \A n \in {n \in Nat : \A m \in T : m <= n} : l <= n
  BY LeastNumber
<1>2. l \in T
  <2> SUFFICES ASSUME l \notin T PROVE FALSE
    OBVIOUS
  <2>3. l \in Nat /\ \A m \in T : m \in Nat /\ m <= l /\ m # l
    BY <1>1
  <2>4. PICK m \in T : TRUE
    OBVIOUS
  <2>1. l - 1 \in Nat /\ \A n \in T : n <= l - 1
    BY <2>3, <2>4
  <2>2. l <= l - 1
    BY <1>1, <2>1
  <2> QED BY <1>1, <2>2
<1> QED BY <1>1, <1>2 DEF Max

LEMMA MaxOfInterval == ASSUME NEW n \in Nat PROVE Max(0 .. n) = n
<1>1. n \in 0 .. n /\ 0 .. n \subseteq Nat /\ \A m \in 0 .. n : m <= n
  OBVIOUS
<1>2. Max(0 .. n) \in 0 .. n /\ \A m \in 0 .. n : m <= Max(0 .. n)
  BY <1>1, MaxIsGreatest
<1> QED BY <1>1, <1>2

----------------------------------------------------------------------------
(* The times of the list.                                                  *)

WellFormed(k) == k \in QueueType /\ IsInjective(k.units)

\* A unit that is not the first one waits no less than the one before it.
Ordered(k) == \A i \in 2 .. Len(k.units) : k.time[k.units[i]] >= 0

LEMMA AccumSums ==
    ASSUME NEW k \in QueueType
    PROVE  /\ Accum(k) \in [0 .. Len(k.units) -> Int]
           /\ Accum(k)[0] = 0
           /\ \A i \in 1 .. Len(k.units) : Accum(k)[i] = Accum(k)[i - 1] + k.time[k.units[i]]
<1> DEFINE L == Len(k.units)
           t(i) == k.time[k.units[i]]
           T == {n \in Nat : n <= L => \E f \in [0 .. n -> Int] :
                                 f[0] = 0 /\ \A i \in 1 .. n : f[i] = f[i - 1] + t(i)}
<1>1. L \in Nat /\ \A i \in 1 .. L : t(i) \in Int
  BY DEF QueueType
<1>2. 0 \in T
  <2> DEFINE z == [i \in 0 .. 0 |-> 0]
  <2>1. z \in [0 .. 0 -> Int] /\ z[0] = 0 /\ \A i \in 1 .. 0 : z[i] = z[i - 1] + t(i)
    OBVIOUS
  <2> HIDE DEF z
  <2> QED BY <2>1
<1>3. \A n \in Nat : n \in T => n + 1 \in T
  <2> SUFFICES ASSUME NEW n \in Nat, n + 1 <= L, NEW f \in [0 .. n -> Int],
                      f[0] = 0, \A i \in 1 .. n : f[i] = f[i - 1] + t(i)
               PROVE  \E g \in [0 .. n + 1 -> Int] :
                          g[0] = 0 /\ \A i \in 1 .. n + 1 : g[i] = g[i - 1] + t(i)
    <3> HIDE DEF t, L
    <3> QED BY <1>1
  <2> DEFINE g == [i \in 0 .. n + 1 |-> IF i = n + 1 THEN f[n] + t(n + 1) ELSE f[i]]
  <2>1. g \in [0 .. n + 1 -> Int]
    BY <1>1
  <2>2. g[0] = 0 /\ \A i \in 1 .. n + 1 : g[i] = g[i - 1] + t(i)
    OBVIOUS
  <2> QED BY <2>1, <2>2
<1> HIDE DEF T
<1>4. L \in T
  BY <1>1, <1>2, <1>3, Induction
<1>5. PICK f \in [0 .. L -> Int] : f[0] = 0 /\ \A i \in 1 .. L : f[i] = f[i - 1] + t(i)
  <2> HIDE DEF t
  <2>1. \A n \in T : n <= L => \E f \in [0 .. n -> Int] :
            f[0] = 0 /\ \A i \in 1 .. n : f[i] = f[i - 1] + t(i)
    BY DEF T
  <2>2. L <= L
    BY <1>1
  <2> QED BY <1>4, <2>1, <2>2
<1>6. f = [i \in 0 .. L |-> IF i = 0 THEN 0 ELSE f[i - 1] + t(i)]
  BY <1>1, <1>5
<1> DEFINE s == Accum(k)
<1>7. s = [i \in 0 .. L |-> IF i = 0 THEN 0 ELSE s[i - 1] + t(i)]
  BY <1>6 DEF Accum
<1> HIDE DEF s
<1>8. s[0] = 0 /\ \A i \in 1 .. L : s[i] = s[i - 1] + t(i)
  <2> HIDE DEF t, L
  <2> QED BY <1>1, <1>7
<1> DEFINE U == {n \in Nat : n <= L => s[n] \in Int}
<1>9. 0 \in U /\ \A n \in Nat : n \in U => n + 1 \in U
  BY <1>1, <1>8
<1> HIDE DEF U
<1>10. \A n \in Nat : n \in U
  BY <1>9, Induction
<1>11. s \in [0 .. L -> Int]
  BY <1>1, <1>7, <1>10 DEF U
<1> QED BY <1>8, <1>11 DEF s

\* a is the agenda of the list k: the first unit has sim_interval left, each
\* other one its own time more than the one before it.
Entry == [unit : Units, left : Int]

Describes(a, k) ==
    /\ a \in Seq(Entry) /\ Len(a) = Len(k.units)
    /\ \A i \in 1 .. Len(a) : a[i].unit = k.units[i]
    /\ Len(a) # 0 => a[1].left = k.sim_interval
    /\ \A i \in 2 .. Len(a) : a[i].left = a[i - 1].left + k.time[k.units[i]]

LEMMA PendingDescribes == ASSUME NEW k \in QueueType PROVE Describes(Pending(k), k)
<1> DEFINE L == Len(k.units)
           s == Accum(k)
           a == Pending(k)
<1>1. /\ L \in Nat /\ k.units \in [1 .. L -> Units] /\ DOMAIN k.units = 1 .. L
      /\ k.time \in [Units -> Int] /\ k.sim_interval \in Int
  BY DEF QueueType
<1>2. a = [i \in 1 .. L |-> [unit |-> k.units[i],
                             left |-> s[i] + k.sim_interval - k.time[Head(k.units)]]]
  BY <1>1 DEF Pending
<1>3. L # 0 => Head(k.units) = k.units[1]
  BY <1>1
<1>4. /\ s \in [0 .. L -> Int] /\ s[0] = 0
      /\ \A i \in 1 .. L : s[i] = s[i - 1] + k.time[k.units[i]]
  BY AccumSums
<1> HIDE DEF a, s, L
<1>5. \A i \in 1 .. L : /\ s[i] \in Int /\ s[i - 1] \in Int
                        /\ k.units[i] \in Units /\ k.units[1] \in Units
                        /\ k.time[k.units[i]] \in Int /\ k.time[k.units[1]] \in Int
  BY <1>1, <1>4
<1>6. \A i \in 1 .. L : /\ a[i] \in Entry /\ a[i].unit = k.units[i]
                        /\ a[i].left = s[i] + k.sim_interval - k.time[k.units[1]]
  BY <1>1, <1>2, <1>3, <1>5 DEF Entry
<1>7. a \in Seq(Entry) /\ Len(a) = L
  BY <1>1, <1>2, <1>6
<1>8. L # 0 => a[1].left = k.sim_interval
  BY <1>1, <1>4, <1>5, <1>6
<1>9. \A i \in 2 .. L : a[i].left = a[i - 1].left + k.time[k.units[i]]
  <2> SUFFICES ASSUME NEW i \in 2 .. L PROVE a[i].left = a[i - 1].left + k.time[k.units[i]]
    OBVIOUS
  <2>1. i \in 1 .. L /\ i - 1 \in 1 .. L
    BY <1>1
  <2>2. /\ a[i].left = s[i] + k.sim_interval - k.time[k.units[1]]
        /\ a[i - 1].left = s[i - 1] + k.sim_interval - k.time[k.units[1]]
        /\ s[i] = s[i - 1] + k.time[k.units[i]]
    BY <1>4, <1>6, <2>1
  <2>3. /\ s[i] \in Int /\ s[i - 1] \in Int /\ k.sim_interval \in Int
        /\ k.time[k.units[i]] \in Int /\ k.time[k.units[1]] \in Int
    BY <1>1, <1>5, <2>1
  <2> QED BY <2>2, <2>3
<1> QED BY <1>6, <1>7, <1>8, <1>9 DEF Describes, a, L

LEMMA DescribedIsPending ==
    ASSUME NEW k \in QueueType, NEW a, Describes(a, k)
    PROVE  Pending(k) = a
<1> DEFINE L == Len(k.units)
           b == Pending(k)
           T == {n \in Nat : n + 1 <= L => a[n + 1] = b[n + 1]}
<1>1. Describes(b, k)
  BY PendingDescribes
<1> HIDE DEF b
<1>2. L \in Nat /\ Len(a) = L /\ Len(b) = L /\ a \in Seq(Entry) /\ b \in Seq(Entry)
  BY <1>1 DEF Describes, QueueType
<1>3. \A i \in 1 .. L : a[i] \in Entry /\ b[i] \in Entry
  BY <1>2
<1>4. \A i \in 1 .. L : a[i].unit = b[i].unit /\ (a[i].left = b[i].left => a[i] = b[i])
  BY <1>1, <1>2, <1>3 DEF Describes, Entry
<1>5. 0 \in T
  BY <1>1, <1>2, <1>4 DEF Describes
<1>6. \A n \in Nat : n \in T => n + 1 \in T
  <2> SUFFICES ASSUME NEW n \in Nat, n \in T, n + 2 <= L PROVE a[n + 2] = b[n + 2]
    BY <1>2
  <2>1. n + 2 \in 2 .. L /\ n + 1 = (n + 2) - 1 /\ n + 1 <= L
    BY <1>2
  <2>2. /\ a[n + 2].left = a[n + 1].left + k.time[k.units[n + 2]]
        /\ b[n + 2].left = b[n + 1].left + k.time[k.units[n + 2]]
    BY <1>1, <1>2, <2>1 DEF Describes
  <2>3. a[n + 1] = b[n + 1]
    BY <2>1
  <2> QED BY <1>2, <1>4, <2>1, <2>2, <2>3
<1> HIDE DEF T
<1>7. \A n \in Nat : n \in T
  BY <1>5, <1>6, Induction
<1>8. \A i \in 1 .. L : a[i] = b[i]
  <2> SUFFICES ASSUME NEW i \in 1 .. L PROVE a[i] = b[i]
    OBVIOUS
  <2>1. i - 1 \in T /\ i - 1 \in Nat /\ (i - 1) + 1 = i /\ i <= L
    BY <1>2, <1>7
  <2> QED BY <2>1 DEF T
<1> QED BY <1>2, <1>8, SeqEqual DEF b

\* The agenda is in the order of its times.
LEMMA Sorted ==
    ASSUME NEW k \in QueueType, Ordered(k), NEW a, Describes(a, k),
           NEW j \in 1 .. Len(a), NEW i \in 1 .. j
    PROVE  a[i].left <= a[j].left
<1> DEFINE T == {n \in Nat : i + n <= Len(a) => a[i].left <= a[i + n].left}
<1>1. Len(a) \in Nat /\ \A m \in 1 .. Len(a) : a[m].left \in Int /\ a[m].unit \in Units
  <2>1. a \in Seq(Entry) /\ Len(a) \in Nat
    BY DEF Describes
  <2>2. \A m \in 1 .. Len(a) : a[m] \in Entry
    BY <2>1
  <2> QED BY <2>1, <2>2 DEF Entry
<1>2. \A m \in 2 .. Len(a) : a[m - 1].left <= a[m].left
  <2> SUFFICES ASSUME NEW m \in 2 .. Len(a) PROVE a[m - 1].left <= a[m].left
    OBVIOUS
  <2>1. k.time[k.units[m]] >= 0 /\ k.time[k.units[m]] \in Int
    BY <1>1 DEF Describes, Ordered, QueueType
  <2>2. a[m].left = a[m - 1].left + k.time[k.units[m]] /\ a[m - 1].left \in Int
    BY <1>1 DEF Describes
  <2> QED BY <2>1, <2>2
<1>3. 0 \in T
  BY <1>1
<1>4. \A n \in Nat : n \in T => n + 1 \in T
  <2> SUFFICES ASSUME NEW n \in Nat, n \in T, i + (n + 1) <= Len(a)
               PROVE  a[i].left <= a[i + (n + 1)].left
    BY <1>1
  <2>1. i + (n + 1) \in 2 .. Len(a) /\ (i + (n + 1)) - 1 = i + n /\ i + n \in 1 .. Len(a)
    BY <1>1
  <2>2. a[i].left <= a[i + n].left /\ a[i + n].left <= a[i + (n + 1)].left
    BY <1>2, <2>1
  <2> QED BY <1>1, <2>1, <2>2
<1> HIDE DEF T
<1>5. j - i \in T /\ i + (j - i) = j
  BY <1>1, <1>3, <1>4, Induction
<1> QED BY <1>1, <1>5 DEF T

----------------------------------------------------------------------------
(* Lists with a unit more or less.                                         *)

IsInserted(t, s, p, e) ==
    /\ Len(t) = Len(s) + 1
    /\ \A i \in 1 .. Len(s) + 1 : t[i] = IF i < p THEN s[i] ELSE IF i = p THEN e ELSE s[i - 1]

IsRemoved(t, s, p) ==
    /\ Len(t) = Len(s) - 1
    /\ \A i \in 1 .. Len(s) - 1 : t[i] = IF i < p THEN s[i] ELSE s[i + 1]

LEMMA InsertAtProperties ==
    ASSUME NEW S, NEW s \in Seq(S), NEW p \in 1 .. Len(s) + 1, NEW e \in S
    PROVE  InsertAt(s, p, e) \in Seq(S) /\ IsInserted(InsertAt(s, p, e), s, p, e)
<1> DEFINE l == SubSeq(s, 1, p - 1)
           r == SubSeq(s, p, Len(s))
<1>1. /\ l \in Seq(S) /\ Len(l) = p - 1 /\ \A i \in 1 .. p - 1 : l[i] = s[i]
      /\ r \in Seq(S) /\ Len(r) = Len(s) - p + 1 /\ \A i \in 1 .. Len(r) : r[i] = s[p + i - 1]
  OBVIOUS
<1> HIDE DEF l, r
<1>2. l \o <<e>> \in Seq(S) /\ Len(l \o <<e>>) = p
  BY <1>1
<1>3. \A i \in 1 .. p : (l \o <<e>>)[i] = IF i < p THEN s[i] ELSE e
  BY <1>1
<1> DEFINE t == l \o <<e>>
<1> HIDE DEF t
<1>4. /\ t \o r \in Seq(S) /\ Len(t \o r) = Len(s) + 1
      /\ \A i \in 1 .. Len(s) + 1 : (t \o r)[i] = IF i <= p THEN t[i] ELSE r[i - p]
  <2>1. t \in Seq(S) /\ Len(t) = p
    BY <1>2 DEF t
  <2>3. p \in Int /\ Len(s) \in Nat /\ p + Len(r) = Len(s) + 1
    BY <1>1
  <2>2. /\ t \o r \in Seq(S) /\ Len(t \o r) = Len(t) + Len(r)
        /\ \A i \in 1 .. Len(t) + Len(r) : (t \o r)[i] = IF i <= Len(t) THEN t[i] ELSE r[i - Len(t)]
    BY <1>1, <2>1, ConcatProperties
  <2> QED BY <2>1, <2>2, <2>3
<1>5. InsertAt(s, p, e) = t \o r
  BY DEF InsertAt, t, l, r
<1> QED BY <1>1, <1>3, <1>4, <1>5 DEF t, IsInserted

LEMMA RemoveAtProperties ==
    ASSUME NEW S, NEW s \in Seq(S), NEW p \in 1 .. Len(s)
    PROVE  RemoveAt(s, p) \in Seq(S) /\ IsRemoved(RemoveAt(s, p), s, p)
<1> DEFINE l == SubSeq(s, 1, p - 1)
           r == SubSeq(s, p + 1, Len(s))
<1>1. /\ l \in Seq(S) /\ Len(l) = p - 1 /\ \A i \in 1 .. p - 1 : l[i] = s[i]
      /\ r \in Seq(S) /\ Len(r) = Len(s) - p /\ \A i \in 1 .. Len(r) : r[i] = s[p + i]
  OBVIOUS
<1> HIDE DEF l, r
<1>2. RemoveAt(s, p) = l \o r
  BY DEF RemoveAt, l, r
<1>3. /\ l \o r \in Seq(S) /\ Len(l \o r) = Len(s) - 1
      /\ \A i \in 1 .. Len(s) - 1 : (l \o r)[i] = IF i <= p - 1 THEN l[i] ELSE r[i - (p - 1)]
  BY <1>1, ConcatProperties
<1>4. \A i \in 1 .. Len(s) - 1 : (l \o r)[i] = IF i < p THEN s[i] ELSE s[i + 1]
  <2> SUFFICES ASSUME NEW i \in 1 .. Len(s) - 1
               PROVE  (l \o r)[i] = IF i < p THEN s[i] ELSE s[i + 1]
    OBVIOUS
  <2>1. CASE i < p
    BY <1>1, <1>3, <2>1
  <2>2. CASE ~(i < p)
    <3>1. i - (p - 1) \in 1 .. Len(r) /\ p + (i - (p - 1)) = i + 1 /\ ~(i <= p - 1)
      BY <1>1, <2>2
    <3>2. (l \o r)[i] = r[i - (p - 1)] /\ r[i - (p - 1)] = s[p + (i - (p - 1))]
      BY <1>1, <1>3, <3>1
    <3> QED BY <2>2, <3>1, <3>2
  <2> QED BY <2>1, <2>2
<1> QED BY <1>2, <1>3, <1>4 DEF IsRemoved

----------------------------------------------------------------------------
(* What the operations do to a list and to its agenda.                     *)

LEMMA ListFacts ==
    ASSUME NEW k, WellFormed(k)
    PROVE  /\ Len(k.units) \in Nat /\ DOMAIN k.units = 1 .. Len(k.units)
           /\ \A i \in 1 .. Len(k.units) : k.units[i] \in Units
           /\ \A i, j \in 1 .. Len(k.units) : k.units[i] = k.units[j] => i = j
           /\ k.units # <<>> <=> Len(k.units) # 0
           /\ Len(k.units) # 0 => Head(k.units) = k.units[1] /\ 1 \in 1 .. Len(k.units)
           /\ k.time \in [Units -> Int] /\ k.sim_interval \in Int
           /\ k.units \in Seq(Units)
BY DEF WellFormed, QueueType, IsInjective

LEMMA AgendaFacts ==
    ASSUME NEW k, WellFormed(k)
    PROVE  /\ Describes(Pending(k), k) /\ Pending(k) \in Seq(Entry)
           /\ Len(Pending(k)) = Len(k.units) /\ DOMAIN Pending(k) = 1 .. Len(k.units)
           /\ \A i \in 1 .. Len(k.units) :
                 /\ Pending(k)[i] \in Entry /\ Pending(k)[i].left \in Int
                 /\ Pending(k)[i].unit = k.units[i]
<1>1. Describes(Pending(k), k)
  BY PendingDescribes DEF WellFormed
<1>2. Pending(k) \in Seq(Entry) /\ Len(Pending(k)) = Len(k.units) /\ Len(k.units) \in Nat
  BY <1>1, ListFacts DEF Describes
<1>3. \A i \in 1 .. Len(k.units) : Pending(k)[i] \in Entry
  BY <1>2
<1>4. \A i \in 1 .. Len(k.units) : Pending(k)[i].left \in Int
  BY <1>3 DEF Entry
<1>5. \A i \in 1 .. Len(k.units) : Pending(k)[i].unit = k.units[i]
  BY <1>1, <1>2 DEF Describes
<1>6. DOMAIN Pending(k) = 1 .. Len(k.units)
  BY <1>2
<1> QED BY <1>1, <1>2, <1>3, <1>4, <1>5, <1>6

\* UPDATE_SIM_TIME makes the differences add up to the agenda, which it leaves alone.
LEMMA Updated ==
    ASSUME NEW k, WellFormed(k), NEW n, n = UPDATE_SIM_TIME(k)
    PROVE  /\ WellFormed(n) /\ n.units = k.units /\ n.sim_interval = k.sim_interval
           /\ Pending(n) = Pending(k) /\ (Ordered(k) => Ordered(n))
           /\ \A i \in 2 .. Len(k.units) : n.time[k.units[i]] = k.time[k.units[i]]
           /\ Len(k.units) # 0 => n.time[k.units[1]] = k.sim_interval
           /\ \A i \in 1 .. Len(k.units) : Accum(n)[i] = Pending(k)[i].left
<1>1. CASE k.units = <<>>
  <2>1. n = k /\ Len(k.units) = 0
    BY <1>1 DEF UPDATE_SIM_TIME
  <2> QED BY <2>1
<1>2. CASE k.units # <<>>
  <2>1. n = [k EXCEPT !.time[k.units[1]] = k.sim_interval] /\ Len(k.units) # 0
    BY <1>2, ListFacts DEF UPDATE_SIM_TIME
  <2>2. /\ n \in QueueType /\ n.units = k.units /\ n.sim_interval = k.sim_interval
        /\ n.time = [k.time EXCEPT ![k.units[1]] = k.sim_interval]
    BY <2>1, ListFacts DEF QueueType, WellFormed
  <2>3. /\ n.time[k.units[1]] = k.sim_interval
        /\ \A i \in 2 .. Len(k.units) : n.time[k.units[i]] = k.time[k.units[i]]
    <3>1. \A i \in 1 .. Len(k.units) : k.units[i] \in DOMAIN k.time
      BY ListFacts
    <3>3. Len(k.units) \in Nat /\ \A i, j \in 1 .. Len(k.units) : k.units[i] = k.units[j] => i = j
      BY ListFacts
    <3>2. \A i \in 2 .. Len(k.units) : i \in 1 .. Len(k.units) /\ k.units[i] # k.units[1]
      BY <2>1, <3>3
    <3> QED BY <2>1, <2>2, <3>1, <3>2, ListFacts
  <2>4. WellFormed(n) /\ (Ordered(k) => Ordered(n))
    BY <2>2, <2>3 DEF WellFormed, Ordered
  <2>5. Describes(Pending(k), n)
    BY <2>2, <2>3, AgendaFacts DEF Describes
  <2>6. Pending(n) = Pending(k)
    BY <2>2, <2>5, DescribedIsPending
  <2>7. \A i \in 1 .. Len(k.units) : Pending(n)[i].left = Accum(n)[i] + n.sim_interval - n.time[k.units[1]]
    BY <2>1, <2>2, ListFacts DEF Pending
  <2>8. \A i \in 1 .. Len(k.units) : Accum(n)[i] \in Int /\ n.sim_interval \in Int
    <3>1. Accum(n) \in [0 .. Len(n.units) -> Int] /\ n.sim_interval \in Int
      BY <2>2, AccumSums, ListFacts
    <3> QED BY <2>2, <3>1, ListFacts
  <2> QED BY <2>2, <2>3, <2>4, <2>6, <2>7, <2>8
<1> QED BY <1>1, <1>2

\* Where sim_activate puts a unit is where the agenda has a place for it.
Earlier(a, d) == {i \in DOMAIN a : a[i].left <= d}
Later(a, d) == {i \in DOMAIN a : d < a[i].left}
PlaceIn(a, d) == IF Later(a, d) = {} THEN Len(a) + 1 ELSE Min(Later(a, d))

IsPlace(p, a, d) ==
    /\ p \in 1 .. Len(a) + 1
    /\ p <= Len(a) => d < a[p].left
    /\ p > 1 => a[p - 1].left <= d

LEMMA PlaceFound ==
    ASSUME NEW k, WellFormed(k), Ordered(k), NEW d \in Nat
    PROVE  /\ IsPlace(PlaceIn(Pending(k), d), Pending(k), d)
           /\ Max(Earlier(Pending(k), d) \union {0}) + 1 = PlaceIn(Pending(k), d)
<1> DEFINE L == Len(k.units)
           a == Pending(k)
           later == Later(a, d)
           place == PlaceIn(a, d)
           earlier == Earlier(a, d)
<1>1. /\ L \in Nat /\ DOMAIN a = 1 .. L /\ Len(a) = L
      /\ \A i \in 1 .. L : a[i].left \in Int
  BY ListFacts, AgendaFacts
<1>2. \A j \in 1 .. L : \A i \in 1 .. j : a[i].left <= a[j].left
  <2>1. Describes(a, k) /\ k \in QueueType
    BY AgendaFacts DEF WellFormed
  <2> QED BY <1>1, <2>1, Sorted
<1> HIDE DEF L, a
<1>3. later \subseteq Nat /\ \A i : i \in later <=> i \in 1 .. L /\ d < a[i].left
  BY <1>1 DEF Later
<1>6. place = IF later = {} THEN L + 1 ELSE Min(later)
  BY <1>1 DEF PlaceIn
<1> HIDE DEF later, place, earlier
<1>4. CASE later = {}
  <2>1. place = L + 1 /\ \A i \in 1 .. L : a[i].left <= d
    BY <1>1, <1>3, <1>4, <1>6
  <2>2. earlier \union {0} = 0 .. L
    BY <1>1, <2>1 DEF Earlier, earlier
  <2>3. Max(0 .. L) = L
    BY <1>1, MaxOfInterval
  <2>4. place > 1 => place - 1 \in 1 .. L
    BY <1>1, <2>1
  <2>5. place \in 1 .. L + 1 /\ ~(place <= L) /\ (place > 1 => a[place - 1].left <= d)
    BY <1>1, <2>1, <2>4
  <2>6. Max(earlier \union {0}) + 1 = place
    BY <1>1, <2>1, <2>2, <2>3
  <2> QED BY <1>1, <2>5, <2>6 DEF IsPlace, a, earlier, place
<1>5. CASE later # {}
  <2>1. place = Min(later) /\ place \in later /\ \A m \in later : place <= m
    BY <1>3, <1>5, <1>6, MinIsLeast
  <2>2. place \in 1 .. L /\ d < a[place].left
    BY <1>3, <2>1
  <2>3. \A i \in 1 .. L : i < place => a[i].left <= d
    BY <1>1, <1>3, <2>1, <2>2
  <2>4. \A i \in 1 .. L : i >= place => ~(a[i].left <= d)
    BY <1>1, <1>2, <2>2
  <2>5. earlier \union {0} = 0 .. place - 1
    <3>1. \A i \in earlier : i < place /\ i \in 1 .. L
      BY <1>1, <2>2, <2>4 DEF Earlier, earlier
    <3>2. \A i \in 1 .. place - 1 : i \in earlier
      BY <1>1, <2>2, <2>3 DEF Earlier, earlier
    <3>3. place \in Nat /\ place > 0 /\ L \in Nat
      BY <1>1, <2>2
    <3>4. ASSUME NEW i \in earlier \union {0} PROVE i \in 0 .. place - 1
      <4>1. CASE i = 0
        BY <3>3, <4>1
      <4>2. CASE i \in earlier
        <5>1. i < place /\ i \in 1 .. L
          BY <3>1, <4>2
        <5> QED BY <3>3, <5>1
      <4> QED BY <4>1, <4>2
    <3>5. ASSUME NEW i \in 0 .. place - 1 PROVE i \in earlier \union {0}
      <4>1. i = 0 \/ i \in 1 .. place - 1
        BY <3>3
      <4> QED BY <3>2, <4>1
    <3> QED BY <3>4, <3>5
  <2>6. Max(0 .. place - 1) = place - 1
    <3>1. place - 1 \in Nat
      BY <2>2
    <3> QED BY <3>1, MaxOfInterval
  <2>7. place > 1 => place - 1 \in 1 .. L /\ place - 1 < place
    BY <1>1, <2>2
  <2>8. place \in 1 .. L + 1 /\ (place > 1 => a[place - 1].left <= d)
    BY <1>1, <2>2, <2>3, <2>7
  <2>9. Max(earlier \union {0}) + 1 = place
    <3>2. (place - 1) + 1 = place
      BY <2>2
    <3> QED BY <2>5, <2>6, <3>2
  <2> QED BY <1>1, <2>2, <2>8, <2>9 DEF IsPlace, a, earlier, place
<1> QED BY <1>4, <1>5

LEMMA Activated ==
    ASSUME NEW k0, WellFormed(k0), Ordered(k0), NEW u \in Units, NEW d \in Nat,
           ~sim_is_active(k0, u), NEW n, n = Activate(k0, u, d)
    PROVE  /\ WellFormed(n) /\ Ordered(n)
           /\ Pending(n) = A!Place(Pending(k0), u, d)
           /\ \A v \in Units : sim_is_active(n, v) <=> v = u \/ sim_is_active(k0, v)
           /\ k0.sim_interval >= 0 => n.sim_interval >= 0
<1> DEFINE k == UPDATE_SIM_TIME(k0)
           L == Len(k0.units)
           a == Pending(k0)
           later == {i \in DOMAIN k.units : d < Accum(k)[i]}
           place == IF later = {} THEN Len(k.units) + 1 ELSE Min(later)
           delta == d - Accum(k)[place - 1]
           units == InsertAt(k.units, place, u)
           time == [v \in Units |-> IF v = u THEN delta
                                    ELSE IF place \in DOMAIN k.units /\ v = k.units[place]
                                         THEN k.time[v] - delta
                                         ELSE k.time[v]]
           e == [unit |-> u, left |-> d]
           b == InsertAt(a, place, e)
<1>1. n = [units |-> units, time |-> time, sim_interval |-> time[Head(units)]]
  BY DEF Activate
<1>2. /\ WellFormed(k) /\ k.units = k0.units /\ k.sim_interval = k0.sim_interval
      /\ Pending(k) = a /\ Ordered(k)
      /\ L # 0 => k.time[k.units[1]] = k0.sim_interval
      /\ \A i \in 1 .. L : Accum(k)[i] = a[i].left
  BY Updated
<1> HIDE DEF k
<1>3. /\ L \in Nat /\ DOMAIN k.units = 1 .. L /\ k.units \in Seq(Units)
      /\ \A i \in 1 .. L : k.units[i] \in Units /\ k.units[i] # u
      /\ \A i, j \in 1 .. L : k.units[i] = k.units[j] => i = j
      /\ k.time \in [Units -> Int] /\ k.sim_interval \in Int
  BY <1>2, ListFacts DEF sim_is_active, Contains
<1>4. /\ a \in Seq(Entry) /\ Len(a) = L /\ DOMAIN a = 1 .. L
      /\ \A i \in 1 .. L : a[i] \in Entry /\ a[i].left \in Int /\ a[i].unit = k.units[i]
      /\ L # 0 => a[1].left = k.sim_interval
      /\ \A i \in 2 .. L : a[i].left = a[i - 1].left + k.time[k.units[i]]
      /\ L # 0 => a[1].left = k.time[k.units[1]]
  <2>1. Describes(a, k)
    BY <1>2, AgendaFacts
  <2> QED BY <1>2, <1>3, <2>1, AgendaFacts DEF Describes
<1>5. /\ Accum(k)[0] = 0 /\ \A i \in 1 .. L : Accum(k)[i] = a[i].left
  BY <1>2, AccumSums DEF WellFormed
<1>6. place = PlaceIn(a, d)
  <2>1. later = Later(a, d)
    BY <1>2, <1>3, <1>4, <1>5 DEF Later
  <2> HIDE DEF later, a
  <2> QED BY <1>3, <1>4, <2>1 DEF PlaceIn
<1> HIDE DEF L, a, later
<1>7. /\ place \in 1 .. L + 1 /\ (place <= L => d < a[place].left)
      /\ (place > 1 => a[place - 1].left <= d)
      /\ Max(Earlier(a, d) \union {0}) + 1 = place
  <2>1. IsPlace(PlaceIn(a, d), a, d) /\ Max(Earlier(a, d) \union {0}) + 1 = PlaceIn(a, d)
    BY <1>2, PlaceFound
  <2> HIDE DEF place
  <2> QED BY <1>4, <1>6, <2>1 DEF IsPlace
<1> HIDE DEF place
<1>8. delta = (IF place = 1 THEN d ELSE d - a[place - 1].left) /\ delta \in Int /\ delta >= 0
  BY <1>3, <1>4, <1>5, <1>7
<1> HIDE DEF delta
<1>9. /\ units \in Seq(Units) /\ Len(units) = L + 1
      /\ \A i \in 1 .. L + 1 :
            units[i] = IF i < place THEN k.units[i] ELSE IF i = place THEN u ELSE k.units[i - 1]
  <2>1. Len(k.units) = L /\ k.units \in Seq(Units) /\ place \in 1 .. Len(k.units) + 1
    BY <1>2, <1>3, <1>7 DEF L
  <2>2. units \in Seq(Units) /\ IsInserted(units, k.units, place, u)
    BY <2>1, InsertAtProperties
  <2> HIDE DEF units
  <2> QED BY <2>1, <2>2 DEF IsInserted
<1>10. /\ b \in Seq(Entry) /\ Len(b) = L + 1
       /\ \A i \in 1 .. L + 1 :
             b[i] = IF i < place THEN a[i] ELSE IF i = place THEN e ELSE a[i - 1]
  <2>1. e \in Entry
    BY DEF Entry
  <2>2. place \in 1 .. Len(a) + 1
    BY <1>4, <1>7
  <2> HIDE DEF e
  <2>3. b \in Seq(Entry) /\ IsInserted(b, a, place, e)
    BY <1>4, <2>1, <2>2, InsertAtProperties
  <2> HIDE DEF b
  <2> QED BY <1>4, <2>3 DEF IsInserted
<1> HIDE DEF units, b
<1>11. time \in [Units -> Int]
  BY <1>3, <1>8
<1>12. /\ time[u] = delta
       /\ \A i \in 1 .. L : time[k.units[i]] = IF i = place THEN k.time[k.units[i]] - delta
                                               ELSE k.time[k.units[i]]
  BY <1>3, <1>7
<1> HIDE DEF time
<1>13. Head(units) = units[1] /\ time[units[1]] = b[1].left
  <2>1. Head(units) = units[1] /\ 1 \in 1 .. L + 1
    BY <1>3, <1>9
  <2>2. CASE place = 1
    BY <1>8, <1>9, <1>10, <1>12, <2>1, <2>2
  <2>3. CASE place # 1
    <3>1. 1 < place /\ 1 \in 1 .. L /\ L # 0
      BY <1>3, <1>7, <2>3
    <3> QED BY <1>4, <1>9, <1>10, <1>12, <2>1, <2>3, <3>1
  <2> QED BY <2>1, <2>2, <2>3
<1>14. \A i \in 2 .. L + 1 : b[i].left = b[i - 1].left + time[units[i]] /\ time[units[i]] >= 0
  <2> SUFFICES ASSUME NEW i \in 2 .. L + 1
               PROVE  b[i].left = b[i - 1].left + time[units[i]] /\ time[units[i]] >= 0
    OBVIOUS
  <2>1. i \in 1 .. L + 1 /\ i - 1 \in 1 .. L + 1 /\ place \in Nat
    BY <1>3, <1>7
  <2>2. CASE i < place
    <3>1. i \in 1 .. L /\ i - 1 < place /\ i \in 2 .. L
      BY <1>3, <1>7, <2>2
    <3>2. b[i] = a[i] /\ b[i - 1] = a[i - 1] /\ units[i] = k.units[i]
      BY <1>9, <1>10, <2>1, <2>2, <3>1
    <3>3. time[units[i]] = k.time[k.units[i]] /\ k.time[k.units[i]] >= 0
      BY <1>2, <1>12, <2>2, <3>1, <3>2 DEF Ordered, L
    <3> QED BY <1>4, <3>1, <3>2, <3>3
  <2>3. CASE i = place
    <3>1. b[i] = e /\ b[i - 1] = a[i - 1] /\ units[i] = u /\ i - 1 \in 1 .. L
      BY <1>3, <1>7, <1>9, <1>10, <2>1, <2>3
    <3> QED BY <1>4, <1>8, <1>12, <2>3, <3>1
  <2>4. CASE i = place + 1
    <3>1. b[i] = a[place] /\ b[i - 1] = e /\ units[i] = k.units[place] /\ place \in 1 .. L
      BY <1>3, <1>7, <1>9, <1>10, <2>1, <2>4
    <3>2. time[units[i]] = k.time[k.units[place]] - delta /\ k.time[k.units[place]] \in Int
      BY <1>3, <1>12, <3>1
    <3>3. a[place].left = d - delta + k.time[k.units[place]]
      <4>1. CASE place = 1
        BY <1>3, <1>4, <1>8, <3>1, <4>1
      <4>2. CASE place # 1
        <5>1. place \in 2 .. L /\ place - 1 \in 1 .. L
          BY <1>3, <3>1, <4>2
        <5>2. a[place].left = a[place - 1].left + k.time[k.units[place]] /\ a[place - 1].left \in Int
          BY <1>4, <5>1
        <5> QED BY <1>8, <3>2, <4>2, <5>2
      <4> QED BY <4>1, <4>2
    <3>4. a[place].left \in Int /\ d < a[place].left
      BY <1>3, <1>4, <1>7, <3>1
    <3> QED BY <1>8, <3>1, <3>2, <3>3, <3>4
  <2>5. CASE i > place + 1
    <3>1. i - 1 \in 2 .. L /\ i - 1 \in 1 .. L /\ ~(i < place) /\ i # place /\ ~(i - 1 < place) /\ i - 1 # place
      BY <1>3, <1>7, <2>1, <2>5
    <3>2. b[i] = a[i - 1] /\ b[i - 1] = a[(i - 1) - 1] /\ units[i] = k.units[i - 1]
      BY <1>9, <1>10, <2>1, <3>1
    <3>3. time[units[i]] = k.time[k.units[i - 1]] /\ k.time[k.units[i - 1]] >= 0
      BY <1>2, <1>12, <3>1, <3>2 DEF Ordered, L
    <3> QED BY <1>4, <3>1, <3>2, <3>3
  <2>6. i < place \/ i = place \/ i = place + 1 \/ i > place + 1
    BY <2>1
  <2> QED BY <2>2, <2>3, <2>4, <2>5, <2>6
<1>15. n \in QueueType
  BY <1>1, <1>3, <1>9, <1>11, <1>13 DEF QueueType
<1>16. IsInjective(units)
  <2> SUFFICES ASSUME NEW i \in 1 .. L + 1, NEW j \in 1 .. L + 1, units[i] = units[j] PROVE i = j
    BY <1>9 DEF IsInjective
  <2>1. place \in 1 .. L + 1 /\ L \in Nat
    BY <1>3, <1>7
  <2>2. (i < place => i \in 1 .. L) /\ (i > place => i - 1 \in 1 .. L)
    BY <2>1
  <2>3. (j < place => j \in 1 .. L) /\ (j > place => j - 1 \in 1 .. L)
    BY <2>1
  <2>6. ASSUME NEW m \in 1 .. L + 1, m # place PROVE units[m] # u
    <3>1. (m < place /\ m \in 1 .. L) \/ (m > place /\ ~(m < place) /\ m - 1 \in 1 .. L)
      BY <2>1, <2>6
    <3> QED BY <1>3, <1>9, <2>6, <3>1
  <2>4. (i = place) <=> (j = place)
    BY <1>9, <2>1, <2>6
  <2>5. ASSUME i # place, j # place PROVE i = j
    <3>1. (i < place /\ units[i] = k.units[i]) \/ (i > place /\ units[i] = k.units[i - 1])
      BY <1>9, <2>1, <2>5
    <3>2. (j < place /\ units[j] = k.units[j]) \/ (j > place /\ units[j] = k.units[j - 1])
      BY <1>9, <2>1, <2>5
    <3> QED BY <1>3, <2>1, <2>2, <2>3, <3>1, <3>2
  <2> QED BY <2>4, <2>5
<1>17. WellFormed(n) /\ Ordered(n)
  BY <1>1, <1>9, <1>14, <1>15, <1>16 DEF WellFormed, Ordered
<1>18. Describes(b, n)
  <2>1. \A i \in 1 .. L + 1 : b[i].unit = units[i]
    <3> SUFFICES ASSUME NEW i \in 1 .. L + 1 PROVE b[i].unit = units[i]
      OBVIOUS
    <3>1. (i < place => i \in 1 .. L) /\ (i > place => i - 1 \in 1 .. L)
      BY <1>3, <1>7
    <3>2. CASE i < place
      BY <1>4, <1>9, <1>10, <3>1, <3>2
    <3>3. CASE i = place
      BY <1>9, <1>10, <3>3
    <3>4. CASE i > place
      <4>1. ~(i < place) /\ i # place
        BY <1>7, <3>4
      <4> QED BY <1>4, <1>9, <1>10, <3>1, <3>4, <4>1
    <3> QED BY <1>7, <3>2, <3>3, <3>4
  <2> QED BY <1>1, <1>3, <1>9, <1>10, <1>13, <1>14, <2>1 DEF Describes
<1>19. Pending(n) = A!Place(Pending(k0), u, d)
  <2>1. Pending(n) = b
    BY <1>15, <1>18, DescribedIsPending
  <2>2. A!Place(a, u, d) = InsertAt(a, Max(Earlier(a, d) \union {0}) + 1, e)
    BY DEF A!Place, A!InsertAt, A!Max, InsertAt, Max, Earlier
  <2> QED BY <1>7, <2>1, <2>2 DEF a, b
<1>20. \A v \in Units : sim_is_active(n, v) <=> v = u \/ sim_is_active(k0, v)
  <2> SUFFICES ASSUME NEW v \in Units PROVE sim_is_active(n, v) <=> v = u \/ sim_is_active(k0, v)
    OBVIOUS
  <2>1. sim_is_active(n, v) <=> \E i \in 1 .. L + 1 : units[i] = v
    BY <1>1, <1>9 DEF sim_is_active, Contains
  <2>2. sim_is_active(k0, v) <=> \E i \in 1 .. L : k.units[i] = v
    BY <1>2 DEF sim_is_active, Contains, L
  <2>3. ASSUME NEW i \in 1 .. L PROVE \E j \in 1 .. L + 1 : units[j] = k.units[i]
    <3>1. CASE i < place
      <4>1. i \in 1 .. L + 1
        BY <1>3
      <4> QED BY <1>9, <3>1, <4>1
    <3>2. CASE ~(i < place)
      <4>1. i + 1 \in 1 .. L + 1 /\ ~(i + 1 < place) /\ i + 1 # place /\ (i + 1) - 1 = i
        BY <1>3, <1>7, <3>2
      <4> QED BY <1>9, <4>1
    <3> QED BY <3>1, <3>2
  <2>4. ASSUME NEW j \in 1 .. L + 1 PROVE units[j] = u \/ \E i \in 1 .. L : units[j] = k.units[i]
    <3>1. (j < place => j \in 1 .. L) /\ (j > place => j - 1 \in 1 .. L)
      BY <1>3, <1>7
    <3> QED BY <1>7, <1>9, <3>1
  <2>5. units[place] = u
    BY <1>7, <1>9
  <2> QED BY <1>7, <2>1, <2>2, <2>3, <2>4, <2>5
<1>21. k0.sim_interval >= 0 => n.sim_interval >= 0
  <2>1. n.sim_interval = b[1].left /\ 1 \in 1 .. L + 1
    BY <1>1, <1>3, <1>13
  <2>2. b[1].left = d \/ (L # 0 /\ b[1].left = k0.sim_interval)
    BY <1>2, <1>3, <1>4, <1>7, <1>10, <2>1
  <2> QED BY <2>1, <2>2
<1> QED BY <1>17, <1>19, <1>20, <1>21

WithoutIn(a, u) ==
    IF \E i \in DOMAIN a : a[i].unit = u
    THEN RemoveAt(a, CHOOSE i \in DOMAIN a : a[i].unit = u)
    ELSE a

LEMMA CancelledActive ==
    ASSUME NOQUEUE_WAIT \in Nat \ {0}, NEW k0, WellFormed(k0), Ordered(k0), NEW u \in Units,
           sim_is_active(k0, u), NEW n, n = Cancel(k0, u)
    PROVE  /\ WellFormed(n) /\ Ordered(n)
           /\ Pending(n) = WithoutIn(Pending(k0), u)
           /\ \A v \in Units : sim_is_active(n, v) <=> v # u /\ sim_is_active(k0, v)
           /\ k0.sim_interval >= 0 => n.sim_interval >= 0
<1> DEFINE k == UPDATE_SIM_TIME(k0)
           L == Len(k0.units)
           a == Pending(k0)
           place == CHOOSE i \in DOMAIN k.units : k.units[i] = u
           units == RemoveAt(k.units, place)
           time == [v \in Units |-> IF v = u THEN 0
                                    ELSE IF place \in DOMAIN units /\ v = units[place]
                                         THEN k.time[v] + k.time[u]
                                         ELSE k.time[v]]
           b == RemoveAt(a, place)
<1>1. n = [units |-> units, time |-> time,
           sim_interval |-> IF units = <<>> THEN NOQUEUE_WAIT ELSE time[Head(units)]]
  BY DEF Cancel
<1>2. /\ WellFormed(k) /\ k.units = k0.units /\ k.sim_interval = k0.sim_interval
      /\ Pending(k) = a /\ Ordered(k)
      /\ L # 0 => k.time[k.units[1]] = k0.sim_interval
  BY Updated
<1> HIDE DEF k
<1>3. /\ L \in Nat /\ DOMAIN k.units = 1 .. L /\ k.units \in Seq(Units) /\ Len(k.units) = L
      /\ \A i \in 1 .. L : k.units[i] \in Units
      /\ \A i, j \in 1 .. L : k.units[i] = k.units[j] => i = j
      /\ k.time \in [Units -> Int] /\ k.sim_interval \in Int
  BY <1>2, ListFacts
<1>4. /\ a \in Seq(Entry) /\ Len(a) = L /\ DOMAIN a = 1 .. L
      /\ \A i \in 1 .. L : a[i] \in Entry /\ a[i].left \in Int /\ a[i].unit = k.units[i]
      /\ \A i \in 2 .. L : a[i].left = a[i - 1].left + k.time[k.units[i]]
      /\ L # 0 => a[1].left = k.time[k.units[1]] /\ a[1].left = k.sim_interval
  <2>1. Describes(a, k)
    BY <1>2, AgendaFacts
  <2> QED BY <1>2, <1>3, <2>1, AgendaFacts DEF Describes
<1>5. place \in 1 .. L /\ k.units[place] = u /\ \A i \in 1 .. L : k.units[i] = u => i = place
  <2>1. \E i \in 1 .. L : k.units[i] = u
    BY <1>2 DEF sim_is_active, Contains, L
  <2> QED BY <1>3, <2>1
<1>6. b = WithoutIn(a, u)
  <2>1. \A i \in DOMAIN a : a[i].unit = u <=> i = place
    BY <1>4, <1>5
  <2>2. (CHOOSE i \in DOMAIN a : a[i].unit = u) = place /\ \E i \in DOMAIN a : a[i].unit = u
    <3> HIDE DEF place
    <3> QED BY <1>4, <1>5, <2>1
  <2> HIDE DEF a, place
  <2> QED BY <2>2 DEF WithoutIn
<1> HIDE DEF L, a, place
<1>7. /\ units \in Seq(Units) /\ Len(units) = L - 1 /\ DOMAIN units = 1 .. L - 1
      /\ \A i \in 1 .. L - 1 : units[i] = IF i < place THEN k.units[i] ELSE k.units[i + 1]
  <2>1. units \in Seq(Units) /\ IsRemoved(units, k.units, place)
    BY <1>3, <1>5, RemoveAtProperties
  <2> HIDE DEF units
  <2> QED BY <1>3, <2>1 DEF IsRemoved
<1>8. /\ b \in Seq(Entry) /\ Len(b) = L - 1
      /\ \A i \in 1 .. L - 1 : b[i] = IF i < place THEN a[i] ELSE a[i + 1]
  <2>1. b \in Seq(Entry) /\ IsRemoved(b, a, place)
    BY <1>4, <1>5, RemoveAtProperties
  <2> HIDE DEF b
  <2> QED BY <1>4, <2>1 DEF IsRemoved
<1> HIDE DEF units, b
<1>9. time \in [Units -> Int]
  BY <1>3
<1>10. \A i \in 1 .. L : i # place =>
          time[k.units[i]] = IF i = place + 1 THEN k.time[k.units[i]] + k.time[u]
                             ELSE k.time[k.units[i]]
  <2> SUFFICES ASSUME NEW i \in 1 .. L, i # place
               PROVE  time[k.units[i]] = IF i = place + 1 THEN k.time[k.units[i]] + k.time[u]
                                         ELSE k.time[k.units[i]]
    OBVIOUS
  <2>1. k.units[i] \in Units /\ k.units[i] # u
    BY <1>3, <1>5
  <2>2. (place \in DOMAIN units /\ k.units[i] = units[place]) <=> i = place + 1
    <3>1. place \in DOMAIN units => units[place] = k.units[place + 1] /\ place + 1 \in 1 .. L
      BY <1>3, <1>5, <1>7
    <3>2. i = place + 1 => place \in DOMAIN units
      BY <1>3, <1>5, <1>7
    <3> QED BY <1>3, <3>1, <3>2
  <2> QED BY <2>1, <2>2
<1> HIDE DEF time
<1>11. L # 1 => /\ Head(units) = units[1] /\ units # <<>> /\ time[units[1]] = b[1].left
                /\ (k0.sim_interval >= 0 => b[1].left >= 0)
  <2> SUFFICES ASSUME L # 1
               PROVE  /\ Head(units) = units[1] /\ units # <<>> /\ time[units[1]] = b[1].left
                      /\ (k0.sim_interval >= 0 => b[1].left >= 0)
    OBVIOUS
  <2>1. /\ 1 \in 1 .. L - 1 /\ 1 \in 1 .. L /\ 2 \in 2 .. L /\ 2 \in 1 .. L /\ L # 0
        /\ 1 + 1 = 2 /\ 2 - 1 = 1
    BY <1>3, <1>5
  <2>2. Head(units) = units[1] /\ units # <<>>
    BY <1>7, <2>1
  <2>3. CASE place = 1
    <3>1. units[1] = k.units[2] /\ b[1] = a[2] /\ ~(1 < place)
      BY <1>7, <1>8, <2>1, <2>3
    <3>2. a[2].left = a[1].left + k.time[k.units[2]] /\ k.time[k.units[2]] >= 0
      BY <1>2, <1>3, <1>4, <2>1 DEF Ordered
    <3>3. time[units[1]] = k.time[k.units[2]] + k.time[u] /\ a[1].left = k.time[u]
      BY <1>4, <1>5, <1>10, <2>1, <2>3, <3>1
    <3>4. k.time[k.units[2]] \in Int /\ a[1].left \in Int /\ a[1].left = k0.sim_interval
      BY <1>2, <1>3, <1>4, <2>1
    <3> QED BY <2>2, <3>1, <3>2, <3>3, <3>4
  <2>4. CASE place # 1
    <3>1. units[1] = k.units[1] /\ b[1] = a[1] /\ 1 < place
      BY <1>5, <1>7, <1>8, <2>1, <2>4
    <3>2. time[k.units[1]] = k.time[k.units[1]]
      BY <1>3, <1>5, <1>10, <2>1, <2>4, <3>1
    <3> QED BY <1>2, <1>4, <2>1, <2>2, <3>1, <3>2
  <2> QED BY <2>3, <2>4
<1>12. \A i \in 2 .. L - 1 : b[i].left = b[i - 1].left + time[units[i]] /\ time[units[i]] >= 0
  <2> SUFFICES ASSUME NEW i \in 2 .. L - 1
               PROVE  b[i].left = b[i - 1].left + time[units[i]] /\ time[units[i]] >= 0
    OBVIOUS
  <2>1. /\ i \in 1 .. L - 1 /\ i - 1 \in 1 .. L - 1 /\ place \in Nat /\ i \in 2 .. L
        /\ i + 1 \in 2 .. L /\ i \in 1 .. L /\ i + 1 \in 1 .. L /\ (i + 1) - 1 = i /\ (i - 1) + 1 = i
    BY <1>3, <1>5
  <2>2. k.time[k.units[i]] >= 0 /\ k.time[k.units[i + 1]] >= 0
    BY <1>2, <1>3, <2>1 DEF Ordered
  <2>3. CASE i < place
    <3>1. i - 1 < place /\ i # place /\ i # place + 1
      BY <2>1, <2>3
    <3>2. b[i] = a[i] /\ b[i - 1] = a[i - 1] /\ units[i] = k.units[i]
      BY <1>7, <1>8, <2>1, <2>3, <3>1
    <3>3. time[units[i]] = k.time[k.units[i]]
      BY <1>10, <2>1, <3>1, <3>2
    <3> QED BY <1>4, <2>1, <2>2, <3>2, <3>3
  <2>4. CASE i = place
    <3>1. ~(i < place) /\ i - 1 < place /\ i + 1 # place /\ i + 1 = place + 1
      BY <2>1, <2>4
    <3>2. b[i] = a[i + 1] /\ b[i - 1] = a[i - 1] /\ units[i] = k.units[i + 1]
      BY <1>7, <1>8, <2>1, <3>1
    <3>3. time[units[i]] = k.time[k.units[i + 1]] + k.time[u]
      BY <1>10, <2>1, <3>1, <3>2
    <3>4. /\ a[i + 1].left = a[i].left + k.time[k.units[i + 1]]
          /\ a[i].left = a[i - 1].left + k.time[u] /\ k.time[u] >= 0
      BY <1>4, <1>5, <2>1, <2>2, <2>4
    <3>5. a[i - 1].left \in Int /\ k.time[u] \in Int /\ k.time[k.units[i + 1]] \in Int
      <4>1. i - 1 \in 1 .. L /\ k.units[i + 1] \in Units
        BY <1>3, <2>1
      <4> QED BY <1>3, <1>4, <4>1
    <3> QED BY <2>2, <3>2, <3>3, <3>4, <3>5
  <2>5. CASE i > place
    <3>1. ~(i < place) /\ ~(i - 1 < place) /\ i + 1 # place /\ i + 1 # place + 1
      BY <2>1, <2>5
    <3>2. b[i] = a[i + 1] /\ b[i - 1] = a[i] /\ units[i] = k.units[i + 1]
      BY <1>7, <1>8, <2>1, <3>1
    <3>3. time[units[i]] = k.time[k.units[i + 1]]
      BY <1>10, <2>1, <3>1, <3>2
    <3>4. a[i + 1].left = a[i].left + k.time[k.units[i + 1]]
      BY <1>4, <2>1
    <3> QED BY <2>2, <3>2, <3>3, <3>4
  <2> QED BY <2>1, <2>3, <2>4, <2>5
<1>13. units = <<>> <=> L = 1
  BY <1>3, <1>7
<1>14. n \in QueueType /\ n.units = units /\ n.time = time
  <2>1. n.sim_interval \in Int
    <3>1. CASE L = 1
      BY <1>1, <1>13, <3>1
    <3>2. CASE L # 1
      <4>1. 1 \in 1 .. L - 1
        BY <1>3, <1>5, <3>2
      <4>2. units[1] \in Units
        BY <1>7, <4>1
      <4> QED BY <1>1, <1>9, <1>11, <1>13, <3>2, <4>2
    <3> QED BY <3>1, <3>2
  <2> QED BY <1>1, <1>7, <1>9, <2>1 DEF QueueType
<1>15. IsInjective(units)
  <2> SUFFICES ASSUME NEW i \in 1 .. L - 1, NEW j \in 1 .. L - 1, units[i] = units[j] PROVE i = j
    BY <1>7 DEF IsInjective
  <2>1. /\ place \in 1 .. L /\ L \in Nat /\ i \in 1 .. L /\ i + 1 \in 1 .. L
        /\ j \in 1 .. L /\ j + 1 \in 1 .. L
    BY <1>3, <1>5
  <2>2. (i < place /\ units[i] = k.units[i]) \/ (~(i < place) /\ units[i] = k.units[i + 1])
    BY <1>7
  <2>3. (j < place /\ units[j] = k.units[j]) \/ (~(j < place) /\ units[j] = k.units[j + 1])
    BY <1>7
  <2> QED BY <1>3, <2>1, <2>2, <2>3
<1>16. WellFormed(n) /\ Ordered(n)
  BY <1>7, <1>12, <1>14, <1>15 DEF WellFormed, Ordered
<1>17. Describes(b, n)
  <2>1. \A i \in 1 .. L - 1 : b[i].unit = units[i]
    <3> SUFFICES ASSUME NEW i \in 1 .. L - 1 PROVE b[i].unit = units[i]
      OBVIOUS
    <3>1. i \in 1 .. L /\ i + 1 \in 1 .. L
      BY <1>3
    <3> QED BY <1>4, <1>7, <1>8, <3>1
  <2>2. Len(b) # 0 => b[1].left = n.sim_interval
    BY <1>1, <1>3, <1>8, <1>11, <1>13
  <2> QED BY <1>7, <1>8, <1>12, <1>14, <2>1, <2>2 DEF Describes
<1>18. Pending(n) = b
  BY <1>14, <1>17, DescribedIsPending
<1>19. \A v \in Units : sim_is_active(n, v) <=> v # u /\ sim_is_active(k0, v)
  <2> SUFFICES ASSUME NEW v \in Units PROVE sim_is_active(n, v) <=> v # u /\ sim_is_active(k0, v)
    OBVIOUS
  <2>1. sim_is_active(n, v) <=> \E i \in 1 .. L - 1 : units[i] = v
    BY <1>7, <1>14 DEF sim_is_active, Contains
  <2>2. sim_is_active(k0, v) <=> \E i \in 1 .. L : k.units[i] = v
    BY <1>2 DEF sim_is_active, Contains, L
  <2>3. ASSUME NEW i \in 1 .. L, k.units[i] # u PROVE \E j \in 1 .. L - 1 : units[j] = k.units[i]
    <3>1. CASE i < place
      <4>1. i \in 1 .. L - 1
        BY <1>3, <1>5, <3>1
      <4> QED BY <1>7, <3>1, <4>1
    <3>2. CASE ~(i < place)
      <4>1. i - 1 \in 1 .. L - 1 /\ ~(i - 1 < place) /\ (i - 1) + 1 = i
        BY <1>3, <1>5, <2>3, <3>2
      <4> QED BY <1>7, <4>1
    <3> QED BY <3>1, <3>2
  <2>4. ASSUME NEW j \in 1 .. L - 1
        PROVE  units[j] # u /\ \E i \in 1 .. L : units[j] = k.units[i]
    <3>1. /\ j \in 1 .. L /\ j + 1 \in 1 .. L /\ (j < place => j # place)
          /\ (~(j < place) => j + 1 # place)
      BY <1>3, <1>5
    <3> QED BY <1>3, <1>5, <1>7, <3>1
  <2> QED BY <2>1, <2>2, <2>3, <2>4
<1>20. k0.sim_interval >= 0 => n.sim_interval >= 0
  BY <1>1, <1>11, <1>13
<1> QED BY <1>6, <1>16, <1>18, <1>19, <1>20 DEF a

\* sim_cancel takes a unit off the agenda and moves no other.
LEMMA Cancelled ==
    ASSUME NOQUEUE_WAIT \in Nat \ {0}, NEW k, WellFormed(k), Ordered(k), NEW u \in Units,
           NEW n, n = Cancel(k, u)
    PROVE  /\ WellFormed(n) /\ Ordered(n)
           /\ Pending(n) = WithoutIn(Pending(k), u)
           /\ \A v \in Units : sim_is_active(n, v) <=> v # u /\ sim_is_active(k, v)
           /\ k.sim_interval >= 0 => n.sim_interval >= 0
<1>1. CASE sim_is_active(k, u)
  BY <1>1, CancelledActive
<1>2. CASE ~sim_is_active(k, u)
  <2>1. n = k
    BY <1>2 DEF Cancel
  <2>2. ~ \E i \in DOMAIN Pending(k) : Pending(k)[i].unit = u
    BY <1>2, ListFacts, AgendaFacts DEF sim_is_active, Contains
  <2> QED BY <1>2, <2>1, <2>2 DEF WithoutIn
<1> QED BY <1>1, <1>2

\* KRB schedules with sim_activate_abs: the agenda forgets the unit and places it anew.
LEMMA Rescheduled ==
    ASSUME NOQUEUE_WAIT \in Nat \ {0}, NEW k, WellFormed(k), Ordered(k), NEW u \in Units,
           NEW d \in Nat, NEW n, n = ActivateAbs(k, u, d)
    PROVE  /\ WellFormed(n) /\ Ordered(n)
           /\ Pending(n) = A!Place(WithoutIn(Pending(k), u), u, d)
           /\ \A v \in Units : sim_is_active(n, v) <=> v = u \/ sim_is_active(k, v)
           /\ k.sim_interval >= 0 => n.sim_interval >= 0
<1> DEFINE m == Cancel(k, u)
<1>1. /\ WellFormed(m) /\ Ordered(m) /\ Pending(m) = WithoutIn(Pending(k), u)
      /\ \A v \in Units : sim_is_active(m, v) <=> v # u /\ sim_is_active(k, v)
      /\ k.sim_interval >= 0 => m.sim_interval >= 0
  BY Cancelled
<1>2. n = Activate(m, u, d)
  BY DEF ActivateAbs
<1> HIDE DEF m
<1>3. ~sim_is_active(m, u)
  BY <1>1
<1>4. /\ WellFormed(n) /\ Ordered(n) /\ Pending(n) = A!Place(Pending(m), u, d)
      /\ \A v \in Units : sim_is_active(n, v) <=> v = u \/ sim_is_active(m, v)
      /\ m.sim_interval >= 0 => n.sim_interval >= 0
  BY <1>1, <1>2, <1>3, Activated
<1>5. \A v \in Units : sim_is_active(n, v) <=> v = u \/ sim_is_active(k, v)
  BY <1>1, <1>4
<1> QED BY <1>1, <1>4, <1>5

ShiftedBy(a, m) == [i \in DOMAIN a |-> [a[i] EXCEPT !.left = @ - m]]

\* Writing sim_interval moves the whole agenda.
LEMMA IntervalSet ==
    ASSUME NEW k, WellFormed(k), NEW x \in Int, NEW n, n = [k EXCEPT !.sim_interval = x]
    PROVE  /\ WellFormed(n) /\ (Ordered(k) => Ordered(n)) /\ n.units = k.units
           /\ n.sim_interval = x /\ n.time = k.time
           /\ Pending(n) = ShiftedBy(Pending(k), k.sim_interval - x)
<1> DEFINE a == Pending(k)
           m == k.sim_interval - x
           b == ShiftedBy(a, m)
           L == Len(k.units)
<1>1. /\ n \in QueueType /\ n.units = k.units /\ n.time = k.time /\ n.sim_interval = x
  BY ListFacts DEF WellFormed, QueueType
<1>2. WellFormed(n) /\ (Ordered(k) => Ordered(n))
  BY <1>1 DEF WellFormed, Ordered
<1>3. /\ L \in Nat /\ m \in Int /\ k.sim_interval \in Int /\ a \in Seq(Entry) /\ Len(a) = L
      /\ DOMAIN a = 1 .. L /\ \A i \in 1 .. L : a[i] \in Entry /\ a[i].unit = k.units[i]
      /\ L # 0 => a[1].left = k.sim_interval
      /\ \A i \in 2 .. L : a[i].left = a[i - 1].left + k.time[k.units[i]]
      /\ \A i \in 1 .. L : k.time[k.units[i]] \in Int
  BY ListFacts, AgendaFacts DEF Describes
<1> HIDE DEF a, m, L
<1>4. b = [i \in 1 .. L |-> [a[i] EXCEPT !.left = @ - m]]
  BY <1>3 DEF ShiftedBy
<1> HIDE DEF b
<1>5. \A i \in 1 .. L : b[i] \in Entry /\ b[i].unit = a[i].unit /\ b[i].left = a[i].left - m
  BY <1>3, <1>4 DEF Entry
<1>6. b \in Seq(Entry) /\ Len(b) = L
  <2>1. b \in [1 .. L -> Entry]
    BY <1>4, <1>5
  <2> QED BY <1>3, <2>1
<1>7. \A i \in 2 .. L : b[i].left = b[i - 1].left + k.time[k.units[i]]
  <2> SUFFICES ASSUME NEW i \in 2 .. L PROVE b[i].left = b[i - 1].left + k.time[k.units[i]]
    OBVIOUS
  <2>1. i \in 1 .. L /\ i - 1 \in 1 .. L
    BY <1>3
  <2>2. a[i - 1].left \in Int
    BY <1>3, <2>1 DEF Entry
  <2> QED BY <1>3, <1>5, <2>1, <2>2
<1>8. L # 0 => b[1].left = x
  <2> SUFFICES ASSUME L # 0 PROVE b[1].left = x
    OBVIOUS
  <2>1. 1 \in 1 .. L
    BY <1>3
  <2>2. b[1].left = k.sim_interval - (k.sim_interval - x)
    BY <1>3, <1>5, <2>1 DEF m
  <2> QED BY <1>3, <2>2
<1>9. Describes(b, n)
  BY <1>1, <1>3, <1>5, <1>6, <1>7, <1>8 DEF Describes, L
<1> QED BY <1>1, <1>2, <1>9, DescribedIsPending DEF b, a, m

\* The first unit runs in time and leaves the rest of the agenda where it was.
LEMMA Popped ==
    ASSUME NOQUEUE_WAIT \in Nat \ {0}, NEW k, WellFormed(k), Ordered(k), k.sim_interval = 0,
           k.units # <<>>, NEW n, n = PopFirst(k, 0)
    PROVE  /\ WellFormed(n) /\ Ordered(n) /\ n.sim_interval >= 0
           /\ Pending(n) = Tail(Pending(k))
           /\ Head(k.units) \in Units
           /\ \A v \in Units : sim_is_active(n, v) <=> v # Head(k.units) /\ sim_is_active(k, v)
<1> DEFINE L == Len(k.units)
           a == Pending(k)
           b == Tail(a)
           units == Tail(k.units)
           time == [k.time EXCEPT ![Head(k.units)] = 0]
<1>1. n = [units |-> units, time |-> time,
           sim_interval |-> IF units = <<>> THEN NOQUEUE_WAIT ELSE 0 + 0 + k.time[Head(units)]]
  BY DEF PopFirst
<1>2. /\ L \in Nat /\ L # 0 /\ DOMAIN k.units = 1 .. L /\ k.units \in Seq(Units)
      /\ \A i \in 1 .. L : k.units[i] \in Units
      /\ \A i, j \in 1 .. L : k.units[i] = k.units[j] => i = j
      /\ k.time \in [Units -> Int] /\ Head(k.units) = k.units[1] /\ 1 \in 1 .. L
  BY ListFacts
<1>3. /\ a \in Seq(Entry) /\ Len(a) = L /\ a[1].left = 0
      /\ \A i \in 1 .. L : a[i] \in Entry /\ a[i].unit = k.units[i]
      /\ \A i \in 2 .. L : a[i].left = a[i - 1].left + k.time[k.units[i]]
  BY <1>2, AgendaFacts DEF Describes
<1> HIDE DEF a
<1>4. /\ units \in Seq(Units) /\ Len(units) = L - 1 /\ DOMAIN units = 1 .. L - 1
      /\ \A i \in 1 .. L - 1 : units[i] = k.units[i + 1]
  BY <1>2
<1>5. b \in Seq(Entry) /\ Len(b) = L - 1 /\ \A i \in 1 .. L - 1 : b[i] = a[i + 1]
  <2>1. a # <<>>
    BY <1>2, <1>3
  <2> QED BY <1>3, <2>1
<1> HIDE DEF L, units, b
<1>6. time \in [Units -> Int]
  BY <1>2
<1>7. \A i \in 1 .. L - 1 : time[units[i]] = k.time[k.units[i + 1]] /\ k.time[k.units[i + 1]] >= 0
  <2> SUFFICES ASSUME NEW i \in 1 .. L - 1
               PROVE  time[units[i]] = k.time[k.units[i + 1]] /\ k.time[k.units[i + 1]] >= 0
    OBVIOUS
  <2>1. i + 1 \in 1 .. L /\ i + 1 \in 2 .. L /\ i + 1 # 1
    BY <1>2
  <2>2. k.units[i + 1] # k.units[1] /\ k.units[i + 1] \in Units
    BY <1>2, <2>1
  <2> QED BY <1>2, <1>4, <2>1, <2>2 DEF Ordered, L
<1> HIDE DEF time
<1>8. units = <<>> <=> L = 1
  BY <1>2, <1>4
<1>9. L # 1 => /\ 1 \in 1 .. L - 1 /\ Head(units) = units[1] /\ 1 + 1 = 2 /\ 2 \in 2 .. L /\ 2 - 1 = 1
               /\ 2 \in 1 .. L
  BY <1>2, <1>4
<1>10. n.units = units /\ n.time = time /\ n.sim_interval \in Int /\ n.sim_interval >= 0
  <2>1. CASE L = 1
    BY <1>1, <1>8, <2>1
  <2>2. CASE L # 1
    <3>1. Head(units) = k.units[2] /\ k.units[2] \in Units /\ k.time[k.units[2]] >= 0
      BY <1>2, <1>4, <1>7, <1>9, <2>2
    <3>2. k.time[k.units[2]] \in Int
      BY <1>2, <3>1
    <3> QED BY <1>1, <1>8, <2>2, <3>1, <3>2
  <2> QED BY <2>1, <2>2
<1>11. n \in QueueType
  BY <1>1, <1>4, <1>6, <1>10 DEF QueueType
<1>12. IsInjective(units)
  <2> SUFFICES ASSUME NEW i \in 1 .. L - 1, NEW j \in 1 .. L - 1, units[i] = units[j] PROVE i = j
    BY <1>4 DEF IsInjective
  <2>1. i + 1 \in 1 .. L /\ j + 1 \in 1 .. L
    BY <1>2
  <2>2. i + 1 = j + 1
    BY <1>2, <1>4, <2>1
  <2> QED BY <1>2, <2>2
<1>13. WellFormed(n) /\ Ordered(n)
  <2>1. \A i \in 2 .. L - 1 : i \in 1 .. L - 1
    BY <1>2
  <2> QED BY <1>4, <1>7, <1>10, <1>11, <1>12, <2>1 DEF WellFormed, Ordered
<1>14. Describes(b, n)
  <2>1. \A i \in 1 .. L - 1 : b[i].unit = units[i]
    <3>1. \A i \in 1 .. L - 1 : i + 1 \in 1 .. L
      BY <1>2
    <3> QED BY <1>3, <1>4, <1>5, <3>1
  <2>2. L - 1 # 0 => b[1].left = n.sim_interval
    <3> SUFFICES ASSUME L # 1 PROVE b[1].left = n.sim_interval
      BY <1>2
    <3>1. b[1] = a[2] /\ a[2].left = 0 + k.time[k.units[2]] /\ Head(units) = k.units[2]
      BY <1>3, <1>4, <1>5, <1>9
    <3>2. k.time[k.units[2]] \in Int
      BY <1>2, <1>9
    <3> QED BY <1>1, <1>8, <3>1, <3>2
  <2>3. \A i \in 2 .. L - 1 : b[i].left = b[i - 1].left + time[units[i]]
    <3> SUFFICES ASSUME NEW i \in 2 .. L - 1 PROVE b[i].left = b[i - 1].left + time[units[i]]
      OBVIOUS
    <3>1. i \in 1 .. L - 1 /\ i - 1 \in 1 .. L - 1 /\ i + 1 \in 2 .. L /\ (i - 1) + 1 = i /\ (i + 1) - 1 = i
      BY <1>2
    <3>2. b[i] = a[i + 1] /\ b[i - 1] = a[i] /\ time[units[i]] = k.time[k.units[i + 1]]
      BY <1>5, <1>7, <3>1
    <3> QED BY <1>3, <3>1, <3>2
  <2> QED BY <1>4, <1>5, <1>10, <2>1, <2>2, <2>3 DEF Describes
<1>15. Pending(n) = b
  BY <1>11, <1>14, DescribedIsPending
<1>16. \A v \in Units : sim_is_active(n, v) <=> v # k.units[1] /\ sim_is_active(k, v)
  <2> SUFFICES ASSUME NEW v \in Units
               PROVE  sim_is_active(n, v) <=> v # k.units[1] /\ sim_is_active(k, v)
    OBVIOUS
  <2>1. sim_is_active(n, v) <=> \E i \in 1 .. L - 1 : units[i] = v
    BY <1>4, <1>10 DEF sim_is_active, Contains
  <2>2. sim_is_active(k, v) <=> \E i \in 1 .. L : k.units[i] = v
    BY <1>2 DEF sim_is_active, Contains
  <2>3. ASSUME NEW i \in 1 .. L, k.units[i] # k.units[1]
        PROVE  \E j \in 1 .. L - 1 : units[j] = k.units[i]
    <3>1. i - 1 \in 1 .. L - 1 /\ (i - 1) + 1 = i
      BY <1>2, <2>3
    <3> QED BY <1>4, <3>1
  <2>4. ASSUME NEW j \in 1 .. L - 1
        PROVE  units[j] # k.units[1] /\ \E i \in 1 .. L : units[j] = k.units[i]
    <3>1. j + 1 \in 1 .. L /\ j + 1 # 1
      BY <1>2
    <3> QED BY <1>2, <1>4, <3>1
  <2> QED BY <2>1, <2>2, <2>3, <2>4
<1> QED BY <1>2, <1>10, <1>13, <1>15, <1>16 DEF a, b

LEMMA ResetLeaves ==
    ASSUME Clock \in Units, Tick \in Nat
    PROVE  /\ WellFormed(ResetQueue) /\ Ordered(ResetQueue) /\ ResetQueue.sim_interval = Tick
           /\ Pending(ResetQueue) = <<[unit |-> Clock, left |-> Tick]>>
           /\ sim_is_active(ResetQueue, Clock)
<1> DEFINE k == ResetQueue
           a == <<[unit |-> Clock, left |-> Tick]>>
<1>1. /\ k \in QueueType /\ k.units = <<Clock>> /\ k.sim_interval = Tick
      /\ Len(k.units) = 1 /\ k.units[1] = Clock
  BY DEF ResetQueue, QueueType
<1> HIDE DEF k
<1>2. WellFormed(k) /\ Ordered(k)
  BY <1>1 DEF WellFormed, Ordered, IsInjective
<1>3. /\ a \in Seq(Entry) /\ Len(a) = 1 /\ a[1].unit = Clock /\ a[1].left = Tick
  BY DEF Entry
<1> HIDE DEF a
<1>4. Describes(a, k)
  BY <1>1, <1>3 DEF Describes
<1>5. sim_is_active(k, Clock)
  BY <1>1 DEF sim_is_active, Contains
<1> QED BY <1>1, <1>2, <1>4, <1>5, DescribedIsPending DEF k, a

----------------------------------------------------------------------------
(* The invariant.  The list is in order and keeps its clock, except while  *)
(* the clock's own service runs; nothing is ever caught up; and            *)
(* sim_interval is negative only between a fetch that followed a stop      *)
(* request and the request being served.                                   *)

NotLate ==
    /\ sim_interval_catchup = 0
    /\ at \in {"scp", "cancelling", "service"} => q.sim_interval >= 0
    /\ at \in {"check", "execute"} /\ ~stop_cpu => q.sim_interval >= 0
    /\ at = "fetch" => q.sim_interval >= 0 /\ (q.sim_interval > 0 \/ stop_cpu)

ClockKept == sim_is_active(q, Clock) \/ (at = "service" /\ uptr = Clock)

Places == {"scp", "check", "fetch", "execute", "service", "stopping", "cancelling"}

QInv ==
    /\ at \in Places /\ uptr \in Units /\ stop_cpu \in BOOLEAN
    /\ WellFormed(q) /\ Ordered(q)
    /\ NotLate
    /\ ClockKept

LEMMA QueueInit == ASSUME UnitsAssumption, Init PROVE QInv /\ A!Init
<1>1. Clock \in Units /\ Tick \in Nat /\ Tick \in Delays
  BY DEF UnitsAssumption
<1>2. /\ WellFormed(q) /\ Ordered(q) /\ q.sim_interval = Tick /\ sim_is_active(q, Clock)
      /\ Pending(q) = <<[unit |-> Clock, left |-> Tick]>>
  BY <1>1, ResetLeaves DEF Init
<1>3. QInv
  <2>1. NotLate /\ uptr \in Units /\ at \in Places
    BY <1>1, <1>2 DEF NotLate, Places, Init
  <2>2. stop_cpu \in BOOLEAN
    BY DEF Init
  <2> QED BY <1>2, <2>1, <2>2 DEF QInv, ClockKept
<1>4. Pending(q) \in [1 .. 1 -> [unit : Units, left : Delays]]
  BY <1>1, <1>2
<1> QED BY <1>3, <1>4 DEF A!Init

\* The operators of the agenda, in the terms of the lemmas above.
LEMMA AgendaOf ==
    ASSUME WellFormed(q)
    PROVE  /\ \A u \in Units : A!Waiting(u) <=> sim_is_active(q, u)
           /\ \A u : A!Without(u) = WithoutIn(Pending(q), u)
           /\ \A m : A!Shifted(m) = ShiftedBy(Pending(q), m)
           /\ \A u \in Units : Queued(u) <=> sim_is_active(q, u)
           /\ q.units # <<>> => Pending(q) # <<>> /\ Pending(q)[1].left = q.sim_interval
<1>1. \A u \in Units : A!Waiting(u) <=> sim_is_active(q, u)
  BY ListFacts, AgendaFacts DEF A!Waiting, sim_is_active, Contains
<1>2. \A u : A!Without(u) = WithoutIn(Pending(q), u)
  BY DEF A!Without, A!Waiting, WithoutIn, A!RemoveAt, RemoveAt
<1>3. \A m : A!Shifted(m) = ShiftedBy(Pending(q), m)
  BY DEF A!Shifted, ShiftedBy
<1>4. \A u \in Units : Queued(u) <=> sim_is_active(q, u)
  BY ListFacts DEF Queued, sim_is_active, Contains
<1>5. q.units # <<>> => Pending(q) # <<>> /\ Pending(q)[1].left = q.sim_interval
  BY ListFacts, AgendaFacts DEF Describes
<1> QED BY <1>1, <1>2, <1>3, <1>4, <1>5

LEMMA ClockWaits == ASSUME QInv, at # "service" \/ uptr # Clock PROVE q.units # <<>>
BY ListFacts DEF QInv, ClockKept, sim_is_active, Contains

\* The steps that leave the list alone.
LEMMA QuietSteps ==
    ASSUME QInv, NothingDue \/ EndOfInstruction \/ StopInstruction \/ ServeStop
                 \/ EndOfEvents \/ StopEvents
    PROVE  QInv' /\ q' = q
<1>1. q' = q /\ uptr' = uptr
  BY DEF NothingDue, EndOfInstruction, StopInstruction, ServeStop, EndOfEvents, StopEvents
<1>2. WellFormed(q') /\ Ordered(q') /\ q.sim_interval \in Int
  BY <1>1, ListFacts DEF QInv
<1>3. stop_cpu' \in BOOLEAN /\ at' \in Places /\ at' \in {"fetch", "check", "stopping"} /\ uptr' \in Units
  BY <1>1 DEF QInv, Places, NothingDue, EndOfInstruction, StopInstruction, ServeStop, EndOfEvents, StopEvents
<1>4. NotLate'
  <2>1. CASE NothingDue
    BY <1>1, <1>2, <2>1 DEF QInv, NotLate, NothingDue
  <2>2. CASE EndOfInstruction
    BY <1>1, <1>2, <2>2 DEF QInv, NotLate, EndOfInstruction
  <2>3. CASE EndOfEvents
    BY <1>1, <1>2, <2>3 DEF QInv, NotLate, EndOfEvents, Returns
  <2>4. CASE StopInstruction \/ ServeStop \/ StopEvents
    BY <2>4 DEF QInv, NotLate, StopInstruction, ServeStop, StopEvents
  <2> QED BY <2>1, <2>2, <2>3, <2>4
<1>5. Returns => sim_is_active(q, Clock)
  BY AgendaOf DEF Returns, QInv, ClockKept
<1>6. sim_is_active(q, Clock)
  BY <1>5 DEF QInv, ClockKept, NothingDue, EndOfInstruction, StopInstruction, ServeStop,
     EndOfEvents, StopEvents
<1> QED BY <1>1, <1>2, <1>3, <1>4, <1>6 DEF QInv, ClockKept

LEMMA BootStep == ASSUME UnitsAssumption, QInv, BootPrep PROVE QInv' /\ A!Restart
<1>1. Clock \in Units /\ Tick \in Nat /\ Tick \in Delays
  BY DEF UnitsAssumption
<1>2. /\ WellFormed(q') /\ Ordered(q') /\ q'.sim_interval = Tick /\ sim_is_active(q', Clock)
      /\ Pending(q') = <<[unit |-> Clock, left |-> Tick]>>
  BY <1>1, ResetLeaves DEF BootPrep
<1>3. QInv'
  BY <1>1, <1>2 DEF QInv, NotLate, ClockKept, BootPrep
<1>4. Pending(q') \in [1 .. 1 -> [unit : Units, left : Delays]]
  BY <1>1, <1>2
<1> QED BY <1>3, <1>4 DEF A!Restart

LEMMA RunStep ==
    ASSUME UnitsAssumption, QInv, NEW n \in Delays \union {0}, RunCommand(n)
    PROVE  QInv' /\ (q' = q \/ \E d \in Delays : A!Reschedule(Step, d))
<1>1. /\ Step \in Units /\ Clock \in Units /\ n \in Nat /\ NOQUEUE_WAIT \in Nat \ {0}
      /\ WellFormed(q) /\ Ordered(q) /\ q.sim_interval >= 0 /\ sim_is_active(q, Clock)
  BY DEF UnitsAssumption, QInv, NotLate, ClockKept, RunCommand
<1>2. CASE n = 0
  BY <1>1, <1>2 DEF QInv, NotLate, ClockKept, Places, RunCommand
<1>3. CASE n # 0
  <2>1. q' = ActivateAbs(q, Step, n)
    BY <1>3 DEF RunCommand
  <2>2. /\ WellFormed(q') /\ Ordered(q') /\ q'.sim_interval >= 0 /\ sim_is_active(q', Clock)
        /\ Pending(q') = A!Place(WithoutIn(Pending(q), Step), Step, n)
    BY <1>1, <2>1, Rescheduled
  <2>3. QInv'
    BY <2>2 DEF QInv, NotLate, ClockKept, Places, RunCommand
  <2>4. A!Reschedule(Step, n)
    BY <1>1, <2>2, AgendaOf DEF A!Reschedule
  <2>5. n \in Delays
    BY <1>3
  <2> QED BY <2>3, <2>4, <2>5
<1> QED BY <1>2, <1>3

LEMMA TickStep ==
    ASSUME UnitsAssumption, QInv, ScheduleTick
    PROVE  QInv' /\ A!Schedule(Clock, Tick)
<1>1. Clock \in Units /\ Tick \in Nat /\ WellFormed(q) /\ Ordered(q) /\ q.sim_interval >= 0
  BY DEF UnitsAssumption, QInv, NotLate, ScheduleTick
<1>2. ~sim_is_active(q, Clock) /\ ~A!Waiting(Clock) /\ q' = Activate(q, Clock, Tick)
  BY <1>1, AgendaOf DEF ScheduleTick
<1>3. /\ WellFormed(q') /\ Ordered(q') /\ q'.sim_interval >= 0 /\ sim_is_active(q', Clock)
      /\ Pending(q') = A!Place(Pending(q), Clock, Tick)
  BY <1>1, <1>2, Activated
<1>4. QInv'
  BY <1>3 DEF QInv, NotLate, ClockKept, ScheduleTick
<1> QED BY <1>2, <1>3, <1>4 DEF A!Schedule

LEMMA DeviceSchedules ==
    ASSUME UnitsAssumption, QInv, NEW u \in Units, NEW d \in Delays, Schedule(u, d)
    PROVE  QInv' /\ (q' = q \/ A!Schedule(u, d) \/ A!Reschedule(u, d))
<1>1. /\ Clock \in Units /\ u # Clock /\ d \in Nat /\ NOQUEUE_WAIT \in Nat \ {0}
      /\ WellFormed(q) /\ Ordered(q)
  BY DEF UnitsAssumption, QInv, Schedule
<1>2. CASE q' = q
  BY <1>2 DEF QInv, NotLate, ClockKept, Schedule
<1>3. CASE q' = Activate(q, u, d) /\ ~sim_is_active(q, u)
  <2>1. /\ WellFormed(q') /\ Ordered(q') /\ (q.sim_interval >= 0 => q'.sim_interval >= 0)
        /\ (sim_is_active(q', Clock) <=> sim_is_active(q, Clock))
        /\ Pending(q') = A!Place(Pending(q), u, d)
    BY <1>1, <1>3, Activated
  <2>2. QInv'
    BY <2>1 DEF QInv, NotLate, ClockKept, Schedule
  <2>3. A!Schedule(u, d)
    BY <1>1, <1>3, <2>1, AgendaOf DEF A!Schedule
  <2> QED BY <2>2, <2>3
<1>4. CASE q' = ActivateAbs(q, u, d)
  <2>1. /\ WellFormed(q') /\ Ordered(q') /\ (q.sim_interval >= 0 => q'.sim_interval >= 0)
        /\ (sim_is_active(q', Clock) <=> sim_is_active(q, Clock))
        /\ Pending(q') = A!Place(WithoutIn(Pending(q), u), u, d)
    BY <1>1, <1>4, Rescheduled
  <2>2. QInv'
    BY <2>1 DEF QInv, NotLate, ClockKept, Schedule
  <2>3. A!Reschedule(u, d)
    BY <1>1, <2>1, AgendaOf DEF A!Reschedule
  <2> QED BY <2>2, <2>3
<1>5. q' = ActivateAbs(q, u, d) \/ q' = Activate(q, u, d)
  BY DEF Schedule, Scheduled
<1>6. sim_is_active(q, u) => Activate(q, u, d) = q
  BY DEF Activate
<1> QED BY <1>2, <1>3, <1>4, <1>5, <1>6

LEMMA DeviceWithdraws ==
    ASSUME UnitsAssumption, QInv, NEW u \in Units, Withdraw(u)
    PROVE  QInv' /\ A!Withdraw(u)
<1>1. /\ Clock \in Units /\ u # Clock /\ NOQUEUE_WAIT \in Nat \ {0}
      /\ WellFormed(q) /\ Ordered(q) /\ q' = Cancel(q, u)
  BY DEF UnitsAssumption, QInv, Withdraw
<1>2. /\ WellFormed(q') /\ Ordered(q') /\ (q.sim_interval >= 0 => q'.sim_interval >= 0)
      /\ (sim_is_active(q', Clock) <=> sim_is_active(q, Clock))
      /\ Pending(q') = WithoutIn(Pending(q), u)
  BY <1>1, Cancelled
<1>3. QInv'
  BY <1>2 DEF QInv, NotLate, ClockKept, Withdraw
<1> QED BY <1>1, <1>2, <1>3, AgendaOf DEF A!Withdraw

\* Time passes at the fetch, and in the service of the FPP8A.
LEMMA TimePasses ==
    ASSUME UnitsAssumption, QInv, Fetch \/ Compute PROVE QInv' /\ A!Pass
<1>1. /\ WellFormed(q) /\ Ordered(q) /\ q' = CountDown(q) /\ q.units # <<>>
      /\ q.sim_interval \in Int
  BY ClockWaits, ListFacts DEF QInv, Fetch, Compute
<1>2. q' = [q EXCEPT !.sim_interval = q.sim_interval - 1]
  BY <1>1 DEF CountDown
<1>3. /\ WellFormed(q') /\ Ordered(q') /\ q'.sim_interval = q.sim_interval - 1
      /\ q'.units = q.units
      /\ Pending(q') = ShiftedBy(Pending(q), q.sim_interval - (q.sim_interval - 1))
  BY <1>1, <1>2, IntervalSet
<1>4. sim_is_active(q', Clock) <=> sim_is_active(q, Clock)
  BY <1>3 DEF sim_is_active
<1>5. QInv'
  <2>1. CASE Fetch
    BY <1>1, <1>3, <1>4, <2>1 DEF QInv, NotLate, ClockKept, Places, Fetch
  <2>2. CASE Compute
    BY <1>1, <1>3, <1>4, <2>2 DEF QInv, NotLate, ClockKept, Places, Compute
  <2> QED BY <2>1, <2>2
<1>6. q.sim_interval - (q.sim_interval - 1) = 1
  BY <1>1
<1>7. A!Pass
  BY <1>1, <1>3, <1>6, AgendaOf DEF A!Pass
<1> QED BY <1>5, <1>7

\* A unit's turn comes when its time has come.
LEMMA ServeStep ==
    ASSUME UnitsAssumption, QInv, ServeFirst \/ ServeNext PROVE QInv' /\ A!Run
<1>1. /\ NOQUEUE_WAIT \in Nat \ {0} /\ WellFormed(q) /\ Ordered(q) /\ q.sim_interval \in Int
      /\ sim_interval_catchup = 0
  BY ListFacts DEF UnitsAssumption, QInv, NotLate
<1>2. \E k : /\ WellFormed(k) /\ Ordered(k) /\ k.units = q.units /\ k.sim_interval = 0
             /\ Pending(k) = Pending(q) /\ q' = PopFirst(k, 0) /\ uptr' = Head(k.units)
             /\ q.sim_interval = 0 /\ q.units # <<>> /\ sim_interval_catchup' = 0
             /\ at' = "service" /\ stop_cpu' = stop_cpu /\ sim_is_active(q, Clock)
  <2>1. CASE ServeFirst
    <3>1. at = "check" /\ q.sim_interval = 0 /\ q.units # <<>> /\ sim_is_active(q, Clock)
      BY <1>1, <2>1, ClockWaits DEF QInv, NotLate, ClockKept, ServeFirst
    <3>2. [q EXCEPT !.sim_interval = 0] = q
      BY <3>1 DEF QInv, WellFormed, QueueType
    <3>3. /\ q' = PopFirst(UPDATE_SIM_TIME(q), 0) /\ uptr' = Head(UPDATE_SIM_TIME(q).units)
          /\ sim_interval_catchup' = 0 /\ at' = "service" /\ stop_cpu' = stop_cpu
      BY <2>1, <3>1, <3>2 DEF ServeFirst
    <3>4. /\ WellFormed(UPDATE_SIM_TIME(q)) /\ Ordered(UPDATE_SIM_TIME(q))
          /\ UPDATE_SIM_TIME(q).units = q.units /\ UPDATE_SIM_TIME(q).sim_interval = 0
          /\ Pending(UPDATE_SIM_TIME(q)) = Pending(q)
      BY <1>1, <3>1, Updated
    <3> QED BY <3>1, <3>3, <3>4
  <2>2. CASE ServeNext
    <3>1. CaughtUp = 0
      BY <1>1 DEF CaughtUp
    <3>2. sim_is_active(q, Clock)
      BY <2>2, AgendaOf DEF QInv, ClockKept, ServeNext, Returns
    <3>3. q.units # <<>>
      BY <1>1, <3>2, ListFacts DEF sim_is_active, Contains
    <3>4. q.sim_interval = 0
      BY <1>1, <2>2, <3>1 DEF QInv, NotLate, ServeNext, Returns
    <3> QED BY <1>1, <2>2, <3>1, <3>2, <3>3, <3>4 DEF ServeNext, Returns
  <2> QED BY <2>1, <2>2
<1>3. PICK k : /\ WellFormed(k) /\ Ordered(k) /\ k.units = q.units /\ k.sim_interval = 0
               /\ Pending(k) = Pending(q) /\ q' = PopFirst(k, 0) /\ uptr' = Head(k.units)
               /\ q.sim_interval = 0 /\ q.units # <<>> /\ sim_interval_catchup' = 0
               /\ at' = "service" /\ stop_cpu' = stop_cpu /\ sim_is_active(q, Clock)
  BY <1>2
<1>4. /\ WellFormed(q') /\ Ordered(q') /\ q'.sim_interval >= 0
      /\ Pending(q') = Tail(Pending(q)) /\ Head(k.units) \in Units
      /\ \A v \in Units : sim_is_active(q', v) <=> v # Head(k.units) /\ sim_is_active(k, v)
  BY <1>1, <1>3, Popped
<1>5. sim_is_active(k, Clock)
  BY <1>3 DEF sim_is_active
<1>6. QInv'
  BY <1>3, <1>4, <1>5 DEF QInv, NotLate, ClockKept, Places, UnitsAssumption
<1>7. A!Run
  BY <1>1, <1>3, <1>4, AgendaOf DEF A!Run
<1> QED BY <1>6, <1>7

\* sim_interval is written: the stop request, and the end of catching up.
LEMMA HurryStep ==
    ASSUME UnitsAssumption, QInv, StopServices \/ int_handler
    PROVE  QInv' /\ (q' = q \/ Pending(q') = Pending(q) \/ A!Hurry)
<1>1. WellFormed(q) /\ Ordered(q) /\ q.sim_interval \in Int
  BY ListFacts DEF QInv
<1>2. q' = q \/ q' = [q EXCEPT !.sim_interval = 0]
  <2>1. CASE StopServices
    BY <1>1, <2>1 DEF StopServices, NoCatchingUp, QInv, WellFormed, QueueType
  <2>2. CASE int_handler
    BY <2>2 DEF int_handler
  <2> QED BY <2>1, <2>2
<1>3. ASSUME q' = [q EXCEPT !.sim_interval = 0] PROVE Pending(q') = Pending(q) \/ A!Hurry
  <2>1. /\ WellFormed(q') /\ Ordered(q') /\ q'.sim_interval = 0 /\ q'.units = q.units
        /\ Pending(q') = ShiftedBy(Pending(q), q.sim_interval - 0)
    BY <1>1, <1>3, IntervalSet
  <2>2. q.sim_interval - 0 = q.sim_interval
    BY <1>1
  <2>3. CASE q.units # <<>>
    <3>1. Pending(q) # <<>> /\ Pending(q)[1].left = q.sim_interval
      BY <1>1, <2>3, AgendaOf
    <3>2. A!Shifted(q.sim_interval) = ShiftedBy(Pending(q), q.sim_interval)
      BY <1>1, AgendaOf
    <3>3. Pending(q') = A!Shifted(Pending(q)[1].left)
      BY <2>1, <2>2, <3>1, <3>2
    <3> QED BY <3>1, <3>3 DEF A!Hurry
  <2>4. CASE q.units = <<>>
    <3>1. DOMAIN Pending(q) = {}
      BY <1>1, <2>4, AgendaFacts, ListFacts
    <3>2. Pending(q) = <<>> /\ Pending(q') = <<>>
      BY <1>1, <2>1, <2>4, AgendaFacts, ListFacts
    <3> QED BY <3>2
  <2> QED BY <2>3, <2>4
<1>4. /\ WellFormed(q') /\ Ordered(q') /\ q'.sim_interval \in Int /\ q'.units = q.units
      /\ (q'.sim_interval = q.sim_interval \/ q'.sim_interval = 0)
  <2>1. CASE q' = q
    BY <1>1, <2>1
  <2>2. CASE q' = [q EXCEPT !.sim_interval = 0]
    BY <1>1, <2>2, IntervalSet
  <2> QED BY <1>2, <2>1, <2>2
<1>5. ClockKept'
  BY <1>4 DEF QInv, ClockKept, sim_is_active, StopServices, int_handler
<1>6. NotLate'
  <2>1. CASE StopServices
    <3>1. q'.sim_interval >= 0
      BY <1>1, <2>1 DEF StopServices, NoCatchingUp, QInv, WellFormed, QueueType
    <3> QED BY <2>1, <3>1 DEF StopServices, QInv, NotLate
  <2>2. CASE int_handler
    BY <1>1, <1>4, <2>2 DEF int_handler, QInv, NotLate
  <2> QED BY <2>1, <2>2
<1>7. stop_cpu' \in BOOLEAN /\ at' \in Places /\ uptr' \in Units
  BY DEF QInv, Places, StopServices, int_handler
<1>8. QInv'
  BY <1>4, <1>5, <1>6, <1>7 DEF QInv
<1> QED BY <1>2, <1>3, <1>8

LEMMA StepCancelled == ASSUME UnitsAssumption, QInv, CancelStep PROVE QInv' /\ A!Withdraw(Step)
<1>1. /\ Clock \in Units /\ Step \in Units /\ Step # Clock /\ NOQUEUE_WAIT \in Nat \ {0}
      /\ WellFormed(q) /\ Ordered(q) /\ q.sim_interval >= 0 /\ sim_is_active(q, Clock)
      /\ q' = UPDATE_SIM_TIME(Cancel(q, Step))
  BY DEF UnitsAssumption, QInv, NotLate, ClockKept, CancelStep
<1> DEFINE c == Cancel(q, Step)
<1>2. /\ WellFormed(c) /\ Ordered(c) /\ c.sim_interval >= 0 /\ sim_is_active(c, Clock)
      /\ Pending(c) = WithoutIn(Pending(q), Step)
  BY <1>1, Cancelled
<1>3. q' = UPDATE_SIM_TIME(c)
  BY <1>1
<1> HIDE DEF c
<1>4. /\ WellFormed(q') /\ Ordered(q') /\ q'.sim_interval >= 0 /\ q'.units = c.units
      /\ Pending(q') = Pending(c)
  BY <1>2, <1>3, Updated
<1>5. sim_is_active(q', Clock)
  BY <1>2, <1>4 DEF sim_is_active
<1>6. QInv'
  BY <1>4, <1>5 DEF QInv, NotLate, ClockKept, Places, CancelStep
<1>7. A!Withdraw(Step)
  BY <1>1, <1>2, <1>4, AgendaOf DEF A!Withdraw
<1> QED BY <1>6, <1>7

LEMMA QueueStep ==
    ASSUME UnitsAssumption, QInv, [Next]_vars
    PROVE  QInv' /\ [A!Next]_(Pending(q))
<1>1. CASE UNCHANGED vars
  BY <1>1 DEF QInv, NotLate, ClockKept, vars
<1>2. CASE Next
  <2>1. CASE BootPrep
    BY <2>1, BootStep DEF A!Next
  <2>2. ASSUME NEW n \in Delays \union {0}, RunCommand(n) PROVE QInv' /\ [A!Next]_(Pending(q))
    <3>1. QInv' /\ (q' = q \/ \E d \in Delays : A!Reschedule(Step, d))
      BY <2>2, RunStep
    <3>2. Step \in Units
      BY DEF UnitsAssumption
    <3> QED BY <3>1, <3>2 DEF A!Next
  <2>3. ASSUME NEW u \in Units, NEW d \in Delays, Schedule(u, d)
        PROVE  QInv' /\ [A!Next]_(Pending(q))
    <3>1. QInv' /\ (q' = q \/ A!Schedule(u, d) \/ A!Reschedule(u, d))
      BY <2>3, DeviceSchedules
    <3> QED BY <3>1 DEF A!Next
  <2>4. ASSUME NEW u \in Units, Withdraw(u) PROVE QInv' /\ [A!Next]_(Pending(q))
    <3>1. QInv' /\ A!Withdraw(u)
      BY <2>4, DeviceWithdraws
    <3> QED BY <3>1 DEF A!Next
  <2>5. CASE Fetch \/ Compute
    BY <2>5, TimePasses DEF A!Next
  <2>6. CASE ServeFirst \/ ServeNext
    BY <2>6, ServeStep DEF A!Next
  <2>7. CASE StopServices \/ int_handler
    <3>1. QInv' /\ (q' = q \/ Pending(q') = Pending(q) \/ A!Hurry)
      BY <2>7, HurryStep
    <3> QED BY <3>1 DEF A!Next
  <2>8. CASE CancelStep
    <3>1. QInv' /\ A!Withdraw(Step)
      BY <2>8, StepCancelled
    <3>2. Step \in Units
      BY DEF UnitsAssumption
    <3> QED BY <3>1, <3>2 DEF A!Next
  <2>9. CASE ScheduleTick
    <3>1. QInv' /\ A!Schedule(Clock, Tick)
      BY <2>9, TickStep
    <3>2. Clock \in Units /\ Tick \in Delays
      BY DEF UnitsAssumption
    <3> QED BY <3>1, <3>2 DEF A!Next
  <2>10. CASE NothingDue \/ EndOfInstruction \/ StopInstruction \/ ServeStop
               \/ EndOfEvents \/ StopEvents
    <3>1. QInv' /\ q' = q
      BY <2>10, QuietSteps
    <3> QED BY <3>1
  <2> QED BY <1>2, <2>1, <2>2, <2>3, <2>4, <2>5, <2>6, <2>7, <2>8, <2>9, <2>10 DEF Next, Machine
<1> QED BY <1>1, <1>2

----------------------------------------------------------------------------
(* What follows for every queue.                                           *)

LEMMA QInvariant == ASSUME UnitsAssumption PROVE Init /\ [][Next]_vars => []QInv
<1>1. ASSUME UnitsAssumption, Init PROVE QInv
  BY <1>1, QueueInit
<1>2. ASSUME UnitsAssumption, QInv, [Next]_vars PROVE QInv'
  BY <1>2, QueueStep
<1> QED BY <1>1, <1>2, PTL

LEMMA QTyped == ASSUME UnitsAssumption, QInv PROVE TypeOK
<1>1. /\ q.units \in Seq(Units) /\ IsInjective(q.units)
      /\ q.time \in [Units -> Int] /\ q.sim_interval \in Int
  BY DEF QInv, WellFormed, QueueType
<1>2. at # "service" => Queued(Clock)
  BY AgendaOf DEF QInv, ClockKept, UnitsAssumption
<1>3. sim_interval_catchup \in Int
  BY DEF QInv, NotLate
<1>4. uptr \in Units /\ stop_cpu \in BOOLEAN
  BY DEF QInv
<1> QED BY <1>1, <1>2, <1>3, <1>4 DEF QInv, Places, TypeOK

LEMMA QPunctual == ASSUME QInv PROVE NothingOverdue
BY DEF QInv, NotLate, NothingOverdue

\* The queue implements the agenda: RUN's and BOOT's reset, every scheduling and
\* cancelling, the passing of time, a unit's turn and a stop request are steps of it.
THEOREM QueueIsAgenda == ASSUME UnitsAssumption PROVE Spec => ImplementsAgenda
<1>1. ASSUME UnitsAssumption, Init PROVE A!Init
  BY <1>1, QueueInit
<1>2. ASSUME UnitsAssumption, QInv, [Next]_vars PROVE [A!Next]_(Pending(q))
  BY <1>2, QueueStep
<1> QED BY <1>1, <1>2, QInvariant, PTL DEF Spec, ImplementsAgenda, A!Spec

\* No service runs late: sim_process_event's catching up is never needed.
THEOREM NeverLate == ASSUME UnitsAssumption PROVE Spec => []NothingOverdue
<1>1. QInv => NothingOverdue
  BY QPunctual
<1> QED BY <1>1, QInvariant, PTL DEF Spec
=============================================================================
