---------------------------- MODULE Ledger_proofs ----------------------------
(***************************************************************************)
(* Proofs about what a ledger adds up to, for any finite journal.  The sum *)
(* over a finite set is a recursive definition; that it does not depend on *)
(* the order of the summands is proved here by induction on the number of  *)
(* summands, with the least number in place of an induction schema.        *)
(***************************************************************************)
EXTENDS Ledger, FiniteSetTheorems, WellFoundedInduction, TLAPS

----------------------------------------------------------------------------
(* Sums over finite sets *)

\* Every nonempty set of numbers has a least element.
LEMMA LeastNumber ==
  ASSUME NEW T \in SUBSET Nat, T # {}
  PROVE  \E m \in T : \A k \in T : m <= k
<1>1. \E m \in T : \A k \in T : <<k, m>> \notin OpToRel(<, Nat)
  <2> DEFINE R == OpToRel(<, Nat)
  <2>1. IsWellFoundedOn(R, Nat)
    BY NatLessThanWellFounded
  <2> HIDE DEF R
  <2>2. \E m \in T : \A k \in T : ~(<<k, m>> \in R)
    BY <2>1, WFMin
  <2> QED
    BY <2>2 DEF R
<1>2. PICK m \in T : \A k \in T : <<k, m>> \notin OpToRel(<, Nat)
  BY <1>1
<1>3. ASSUME NEW k \in T, ~(m <= k)
      PROVE  FALSE
  <2>1. k \in Nat /\ m \in Nat /\ k < m
    BY <1>3
  <2>2. <<k, m>> \in OpToRel(<, Nat)
    BY <2>1 DEF OpToRel
  <2> QED
    BY <1>2, <2>2
<1> QED
  BY <1>3

\* The element a sum takes next.
Next1(s) == CHOOSE x \in s : TRUE

\* A table of the sums of f over the subsets of S, as SumFunctionOnSet builds it.
Adds(g, f, s) == IF s = {} THEN 0 ELSE f[Next1(s)] + g[s \ {Next1(s)}]

Table(g, f, S) == g = [s \in SUBSET S |-> Adds(g, f, s)]

Numbers(f, S) == \A x \in S : f[x] \in Int

LEMMA SumIsInTable == \A f, S : SumFunctionOnSet(f, S) = (CHOOSE g : Table(g, f, S))[S]
BY DEF SumFunctionOnSet, FoldFunctionOnSet, MapThenFoldSet, Table, Adds, Next1

\* Taking one element from a subset of a finite set.
LEMMA OneLess ==
  ASSUME NEW S, IsFiniteSet(S), NEW s \in SUBSET S, NEW x \in s
  PROVE  /\ s \ {x} \in SUBSET S
         /\ IsFiniteSet(s)
         /\ Cardinality(s) \in Nat \ {0}
         /\ Cardinality(s \ {x}) = Cardinality(s) - 1
<1>1. IsFiniteSet(s)
  BY FS_Subset
<1>2. Cardinality(s) \in Nat
  BY <1>1, FS_CardinalityType
<1>3. IsFiniteSet(s \ {x}) /\ Cardinality(s \ {x}) = Cardinality(s) - 1
  BY <1>1, FS_RemoveElement
<1>4. Cardinality(s \ {x}) \in Nat
  BY <1>3, FS_CardinalityType
<1> QED
  BY <1>1, <1>2, <1>3, <1>4

LEMMA NextIsElement == \A s : s # {} => Next1(s) \in s
BY DEF Next1

\* There is such a table for every finite set.
LEMMA TableExists ==
  ASSUME NEW S, IsFiniteSet(S), NEW f
  PROVE  \E g : Table(g, f, S)
<1> DEFINE UpTo(n) == {s \in SUBSET S : Cardinality(s) <= n}
           PartOf(n) == \E g : /\ g = [s \in UpTo(n) |-> g[s]]
                               /\ \A s \in UpTo(n) : g[s] = Adds(g, f, s)
           Missing == {n \in Nat : ~PartOf(n)}
<1>1. SUFFICES ASSUME Missing # {}
               PROVE  FALSE
  <2>1. PartOf(Cardinality(S))
    BY <1>1, FS_CardinalityType
  <2>2. UpTo(Cardinality(S)) = SUBSET S
    BY FS_Subset
  <2>3. PICK g : /\ g = [s \in UpTo(Cardinality(S)) |-> g[s]]
                 /\ \A s \in UpTo(Cardinality(S)) : g[s] = Adds(g, f, s)
    BY <2>1
  <2> HIDE DEF UpTo
  <2> QED
    BY <2>2, <2>3 DEF Table
<1>2. PICK n \in Missing : \A k \in Missing : n <= k
  <2>1. Missing \in SUBSET Nat
    OBVIOUS
  <2> HIDE DEF Missing
  <2> QED
    BY <1>1, <2>1, LeastNumber
<1>3. n \in Nat /\ ~PartOf(n)
  OBVIOUS
<1>4. CASE n = 0
  <2> DEFINE g == [s \in UpTo(n) |-> 0]
  <2>1. \A s \in UpTo(n) : s = {}
    <3>1. SUFFICES ASSUME NEW s \in UpTo(n), s # {}
                   PROVE  FALSE
      OBVIOUS
    <3>2. PICK x : x \in s
      BY <3>1
    <3>3. Cardinality(s) \in Nat \ {0}
      BY <3>2, OneLess
    <3> QED
      BY <1>4, <3>3
  <2> HIDE DEF UpTo
  <2>2. g = [s \in UpTo(n) |-> g[s]] /\ \A s \in UpTo(n) : g[s] = Adds(g, f, s)
    BY <2>1 DEF Adds
  <2> HIDE DEF g
  <2>3. PartOf(n)
    BY <2>2
  <2> QED
    BY <1>3, <2>3
<1>5. CASE n # 0
  <2>1. n - 1 \in Nat /\ PartOf(n - 1)
    <3>1. n - 1 \in Nat /\ ~(n <= n - 1)
      BY <1>3, <1>5
    <3>2. n - 1 \notin Missing
      <4> HIDE DEF Missing
      <4> QED
        BY <1>2, <3>1
    <3> HIDE DEF PartOf
    <3> QED
      BY <3>1, <3>2
  <2>2. PICK h : \A s \in UpTo(n - 1) : h[s] = Adds(h, f, s)
    BY <2>1
  <2> DEFINE g == [s \in UpTo(n) |-> Adds(h, f, s)]
  <2>3. \A s \in UpTo(n) : s # {} => s \ {Next1(s)} \in UpTo(n - 1)
    BY <1>3, NextIsElement, OneLess
  <2>4. \A s \in UpTo(n - 1) : s \in UpTo(n)
    <3> SUFFICES ASSUME NEW s \in SUBSET S, Cardinality(s) <= n - 1
                 PROVE  Cardinality(s) <= n
      OBVIOUS
    <3>1. Cardinality(s) \in Nat
      BY FS_Subset, FS_CardinalityType
    <3> QED
      BY <1>3, <3>1
  <2> HIDE DEF UpTo
  <2>5. \A s \in UpTo(n - 1) : g[s] = h[s]
    BY <2>2, <2>4
  <2>6. \A s \in UpTo(n) : Adds(h, f, s) = Adds(g, f, s)
    <3> HIDE DEF g
    <3> QED
      BY <2>3, <2>5 DEF Adds
  <2>7. g = [s \in UpTo(n) |-> g[s]] /\ \A s \in UpTo(n) : g[s] = Adds(g, f, s)
    BY <2>6
  <2> HIDE DEF g
  <2>8. PartOf(n)
    BY <2>7
  <2> QED
    BY <1>3, <2>8
<1> QED
  BY <1>4, <1>5

\* Two tables agree wherever the functions they sum agree.
LEMMA TablesAgree ==
  ASSUME NEW S, IsFiniteSet(S), NEW T, NEW f, NEW h, NEW g, NEW k,
         Table(g, f, S), Table(k, h, T),
         NEW r, r \in SUBSET S, r \in SUBSET T, \A x \in r : f[x] = h[x]
  PROVE  g[r] = k[r]
<1> DEFINE Wrong == {n \in Nat : \E s \in SUBSET r : Cardinality(s) = n /\ g[s] # k[s]}
<1>1. SUFFICES ASSUME Wrong # {}
               PROVE  FALSE
  <2>1. Cardinality(r) \in Nat
    BY FS_Subset, FS_CardinalityType
  <2> QED
    BY <1>1, <2>1
<1>2. PICK n \in Wrong : \A m \in Wrong : n <= m
  <2>1. Wrong \in SUBSET Nat
    OBVIOUS
  <2> HIDE DEF Wrong
  <2> QED
    BY <1>1, <2>1, LeastNumber
<1>3. PICK s \in SUBSET r : Cardinality(s) = n /\ g[s] # k[s]
  OBVIOUS
<1>4. g[s] = Adds(g, f, s) /\ k[s] = Adds(k, h, s)
  BY DEF Table
<1>5. s # {}
  BY <1>3, <1>4 DEF Adds
<1> DEFINE x == Next1(s)
<1>6. x \in s
  BY <1>5, NextIsElement
<1>7. s \ {x} \in SUBSET r /\ Cardinality(s) \in Nat \ {0} /\ Cardinality(s \ {x}) = Cardinality(s) - 1
  BY <1>6, OneLess
<1>8. n - 1 \in Nat /\ n - 1 \notin Wrong
  BY <1>2, <1>3, <1>7
<1>9. g[s \ {x}] = k[s \ {x}]
  BY <1>3, <1>7, <1>8
<1>10. f[x] = h[x]
  BY <1>6
<1> QED
  BY <1>3, <1>4, <1>5, <1>9, <1>10 DEF Adds

\* The values of a table are numbers, and any element may be taken first.
LEMMA AnyOrder ==
  ASSUME NEW S, IsFiniteSet(S), NEW f, Numbers(f, S), NEW g, Table(g, f, S)
  PROVE  /\ g[S] \in Int
         /\ \A x \in S : g[S] = f[x] + g[S \ {x}]
<1> DEFINE Fine(s) == g[s] \in Int /\ \A x \in s : g[s] = f[x] + g[s \ {x}]
           Wrong == {n \in Nat : \E s \in SUBSET S : Cardinality(s) = n /\ ~Fine(s)}
<1>1. SUFFICES ASSUME Wrong # {}
               PROVE  FALSE
  <2>1. Cardinality(S) \in Nat
    BY FS_CardinalityType
  <2>2. Fine(S)
    <3> HIDE DEF Fine
    <3> QED
      BY <1>1, <2>1
  <2> QED
    BY <2>2
<1>2. PICK n \in Wrong : \A m \in Wrong : n <= m
  <2>1. Wrong \in SUBSET Nat
    OBVIOUS
  <2> HIDE DEF Wrong
  <2> QED
    BY <1>1, <2>1, LeastNumber
<1>3. PICK s \in SUBSET S : Cardinality(s) = n /\ ~Fine(s)
  OBVIOUS
<1>4. g[s] = Adds(g, f, s)
  BY DEF Table
<1>5. s # {}
  BY <1>3, <1>4 DEF Adds
<1> DEFINE p == Next1(s)
<1>6. p \in s
  BY <1>5, NextIsElement
<1>7. g[s] = f[p] + g[s \ {p}]
  BY <1>4, <1>5 DEF Adds
<1>8. \A x \in s : s \ {x} \in SUBSET S /\ Fine(s \ {x})
  <2> SUFFICES ASSUME NEW x \in s
               PROVE  s \ {x} \in SUBSET S /\ Fine(s \ {x})
    OBVIOUS
  <2>1. /\ s \ {x} \in SUBSET S /\ Cardinality(s) \in Nat \ {0}
        /\ Cardinality(s \ {x}) = Cardinality(s) - 1
    BY OneLess
  <2>2. n - 1 \in Nat /\ n - 1 \notin Wrong
    BY <1>2, <1>3, <2>1
  <2> HIDE DEF Fine
  <2> QED
    BY <1>3, <2>1, <2>2
<1>9. \A x \in s : f[x] \in Int
  BY DEF Numbers
<1> HIDE DEF p
<1>10. g[s] \in Int
  <2>1. f[p] \in Int /\ g[s \ {p}] \in Int
    BY <1>6, <1>8, <1>9
  <2> QED
    BY <1>7, <2>1
<1>11. ASSUME NEW x \in s
       PROVE  g[s] = f[x] + g[s \ {x}]
  <2>1. CASE x = p
    BY <1>7, <2>1
  <2>2. CASE x # p
    <3> DEFINE rest == (s \ {p}) \ {x}
    <3>1. rest = (s \ {x}) \ {p}
      OBVIOUS
    <3>2. g[s \ {p}] = f[x] + g[rest]
      BY <1>6, <1>8, <2>2
    <3>3. g[s \ {x}] = f[p] + g[rest]
      <4>1. p \in s \ {x}
        BY <1>6, <2>2
      <4>2. g[s \ {x}] = f[p] + g[(s \ {x}) \ {p}]
        BY <1>8, <4>1
      <4> HIDE DEF rest
      <4> QED
        BY <3>1, <4>2
    <3>4. s \ {p} \in SUBSET S /\ Fine(s \ {p}) /\ rest = (s \ {p}) \ {x}
      BY <1>6, <1>8
    <3>5. g[rest] \in Int
      <4>1. /\ rest \in SUBSET S /\ Cardinality(s \ {p}) \in Nat \ {0}
            /\ Cardinality(rest) = Cardinality(s \ {p}) - 1
        BY <1>6, <2>2, <3>4, OneLess
      <4>2. Cardinality(s) \in Nat \ {0} /\ Cardinality(s \ {p}) = Cardinality(s) - 1
        BY <1>6, OneLess
      <4>3. Cardinality(rest) \in Nat /\ Cardinality(rest) < n
        BY <1>3, <4>1, <4>2
      <4>4. Cardinality(rest) \notin Wrong
        <5> HIDE DEF Wrong, rest
        <5>1. n \in Nat
          BY DEF Wrong
        <5> QED
          BY <1>2, <4>3, <5>1
      <4>5. Fine(rest)
        <5> HIDE DEF Fine, rest
        <5> QED
          BY <4>1, <4>3, <4>4
      <4> QED
        BY <4>5
    <3> HIDE DEF rest
    <3> QED
      BY <1>6, <1>7, <1>9, <3>2, <3>3, <3>5
  <2> QED
    BY <2>1, <2>2
<1> QED
  BY <1>3, <1>10, <1>11

\* A sum over a finite set is a number, and any summand may be split off.
LEMMA SumSplits ==
  ASSUME NEW S, IsFiniteSet(S), NEW f, Numbers(f, S)
  PROVE  /\ SumFunctionOnSet(f, S) \in Int
         /\ \A x \in S : SumFunctionOnSet(f, S) = f[x] + SumFunctionOnSet(f, S \ {x})
<1> DEFINE g == CHOOSE t : Table(t, f, S)
<1>1. Table(g, f, S) /\ SumFunctionOnSet(f, S) = g[S]
  BY TableExists, SumIsInTable
<1> HIDE DEF g
<1>2. g[S] \in Int /\ \A x \in S : g[S] = f[x] + g[S \ {x}]
  BY <1>1, AnyOrder
<1>3. ASSUME NEW x \in S
      PROVE  SumFunctionOnSet(f, S \ {x}) = g[S \ {x}]
  <2> DEFINE T == S \ {x}
             k == CHOOSE t : Table(t, f, T)
  <2>1. IsFiniteSet(T) /\ T \in SUBSET S /\ T \in SUBSET T
    BY FS_Subset
  <2> HIDE DEF T
  <2>2. Table(k, f, T) /\ SumFunctionOnSet(f, T) = k[T]
    BY <2>1, TableExists, SumIsInTable
  <2> HIDE DEF k
  <2>3. g[T] = k[T]
    BY <1>1, <2>1, <2>2, TablesAgree
  <2> QED
    BY <2>2, <2>3 DEF T
<1> QED
  BY <1>1, <1>2, <1>3

LEMMA SumOfNothing == \A f : SumFunctionOnSet(f, {}) = 0
<1> SUFFICES ASSUME NEW f
             PROVE  SumFunctionOnSet(f, {}) = 0
  OBVIOUS
<1>1. IsFiniteSet({})
  BY FS_EmptySet
<1>2. PICK g : Table(g, f, {})
  BY <1>1, TableExists
<1> DEFINE k == CHOOSE t : Table(t, f, {})
<1>3. Table(k, f, {}) /\ SumFunctionOnSet(f, {}) = k[{}]
  BY <1>2, SumIsInTable
<1> HIDE DEF k
<1> QED
  BY <1>3 DEF Table, Adds

\* One more summand.
LEMMA SumGrows ==
  ASSUME NEW S, IsFiniteSet(S), NEW x, x \notin S, NEW f, Numbers(f, S \cup {x})
  PROVE  /\ SumFunctionOnSet(f, S) \in Int
         /\ SumFunctionOnSet(f, S \cup {x}) = SumFunctionOnSet(f, S) + f[x]
<1> DEFINE T == S \cup {x}
<1>1. IsFiniteSet(T) /\ x \in T /\ T \ {x} = S
  BY FS_AddElement
<1>2. Numbers(f, S) /\ f[x] \in Int /\ Numbers(f, T)
  BY DEF Numbers
<1> HIDE DEF T
<1>3. SumFunctionOnSet(f, T) = f[x] + SumFunctionOnSet(f, S)
  BY <1>1, <1>2, SumSplits
<1>4. SumFunctionOnSet(f, S) \in Int
  BY <1>2, SumSplits
<1> QED
  BY <1>2, <1>3, <1>4 DEF T

\* Only the values summed matter.
LEMMA SumsAgree ==
  ASSUME NEW S, IsFiniteSet(S), NEW f, NEW h, \A x \in S : f[x] = h[x]
  PROVE  SumFunctionOnSet(f, S) = SumFunctionOnSet(h, S)
<1> DEFINE g == CHOOSE t : Table(t, f, S)
           k == CHOOSE t : Table(t, h, S)
<1>1. Table(g, f, S) /\ SumFunctionOnSet(f, S) = g[S]
  BY TableExists, SumIsInTable
<1>2. Table(k, h, S) /\ SumFunctionOnSet(h, S) = k[S]
  BY TableExists, SumIsInTable
<1> HIDE DEF g, k
<1>3. g[S] = k[S]
  BY <1>1, <1>2, TablesAgree
<1> QED
  BY <1>1, <1>2, <1>3

LEMMA SumOfOne ==
  ASSUME NEW x, NEW f, f[x] \in Int
  PROVE  SumFunctionOnSet(f, {x}) = f[x]
<1>1. IsFiniteSet({}) /\ x \notin {} /\ {} \cup {x} = {x}
  BY FS_EmptySet
<1>2. Numbers(f, {} \cup {x})
  BY DEF Numbers
<1>3. SumFunctionOnSet(f, {} \cup {x}) = SumFunctionOnSet(f, {}) + f[x]
  BY <1>1, <1>2, SumGrows
<1> QED
  BY <1>1, <1>3, SumOfNothing

----------------------------------------------------------------------------
(* What an entry changes *)

\* An account that no line names, and an account that one line names.
LEMMA NetOfLines ==
  ASSUME NEW e, NEW account
  PROVE  /\ (\A l \in e.lines : l.account # account) => EntryNet(e, account) = 0
         /\ \A line \in e.lines :
              (/\ line.credit - line.debit \in Int
               /\ \A l \in e.lines : l.account = account <=> l = line)
                => EntryNet(e, account) = line.credit - line.debit
<1> DEFINE lines == {l \in e.lines : l.account = account}
           net == [l \in lines |-> l.credit - l.debit]
<1>1. EntryNet(e, account) = SumFunctionOnSet(net, lines)
  BY DEF EntryNet, SumFunction
<1>2. ASSUME \A l \in e.lines : l.account # account
      PROVE  EntryNet(e, account) = 0
  <2>1. lines = {}
    BY <1>2
  <2> HIDE DEF lines, net
  <2> QED
    BY <1>1, <2>1, SumOfNothing
<1>3. ASSUME NEW line \in e.lines, line.credit - line.debit \in Int,
             \A l \in e.lines : l.account = account <=> l = line
      PROVE  EntryNet(e, account) = line.credit - line.debit
  <2>1. lines = {line} /\ net[line] = line.credit - line.debit
    BY <1>3
  <2> HIDE DEF lines, net
  <2> QED
    BY <1>1, <1>3, <2>1, SumOfOne
<1> QED
  BY <1>2, <1>3

\* An entry that moves an amount from one account to another.
LEMMA NetOfTransfer ==
  ASSUME NEW key, NEW from, NEW to, from # to, NEW cents \in Int, NEW account
  PROVE  EntryNet(Entry(key, {Debit(from, cents), Credit(to, cents)}), account)
           = IF account = to THEN cents ELSE IF account = from THEN 0 - cents ELSE 0
<1> DEFINE e == Entry(key, {Debit(from, cents), Credit(to, cents)})
<1>1. /\ e.lines = {Debit(from, cents), Credit(to, cents)}
      /\ Debit(from, cents).account = from /\ Credit(to, cents).account = to
      /\ Debit(from, cents).credit - Debit(from, cents).debit = 0 - cents
      /\ Credit(to, cents).credit - Credit(to, cents).debit = cents
  BY DEF Entry, Debit, Credit
<1> HIDE DEF e
<1>2. CASE account = to
  <2>1. \A l \in e.lines : l.account = account <=> l = Credit(to, cents)
    BY <1>1, <1>2
  <2>2. EntryNet(e, account) = cents
    BY <1>1, <2>1, NetOfLines
  <2> QED
    BY <1>2, <2>2 DEF e
<1>3. CASE account = from
  <2>1. \A l \in e.lines : l.account = account <=> l = Debit(from, cents)
    BY <1>1, <1>3
  <2>2. EntryNet(e, account) = 0 - cents
    BY <1>1, <2>1, NetOfLines
  <2> QED
    BY <1>3, <2>2 DEF e
<1>4. CASE account # to /\ account # from
  <2>1. \A l \in e.lines : l.account # account
    BY <1>1, <1>4
  <2>2. EntryNet(e, account) = 0
    BY <2>1, NetOfLines
  <2> QED
    BY <1>4, <2>2 DEF e
<1> QED
  BY <1>2, <1>3, <1>4

\* An entry that divides an amount between two accounts; a part that would
\* be empty has no line.
LEMMA NetOfSplit ==
  ASSUME NEW key, NEW from, NEW to, NEW too, from # to, from # too, to # too,
         NEW cents \in Int, NEW part \in Nat, NEW rest \in Nat, NEW account
  PROVE  EntryNet(Entry(key, {Debit(from, cents)} \cup CreditIfAny(to, part)
                               \cup CreditIfAny(too, rest)), account)
           = IF account = to THEN part ELSE IF account = too THEN rest
             ELSE IF account = from THEN 0 - cents ELSE 0
<1> DEFINE lines == {Debit(from, cents)} \cup CreditIfAny(to, part) \cup CreditIfAny(too, rest)
           e == Entry(key, lines)
<1>1. /\ e.lines = lines
      /\ Debit(from, cents) \in lines
      /\ part > 0 => Credit(to, part) \in lines
      /\ rest > 0 => Credit(too, rest) \in lines
      /\ \A l \in lines : \/ l = Debit(from, cents)
                          \/ part > 0 /\ l = Credit(to, part)
                          \/ rest > 0 /\ l = Credit(too, rest)
  BY DEF Entry, CreditIfAny
<1>2. /\ Debit(from, cents).account = from
      /\ Debit(from, cents).credit - Debit(from, cents).debit = 0 - cents
      /\ \A a, n : Credit(a, n).account = a
      /\ \A a : \A n \in Nat : Credit(a, n).credit - Credit(a, n).debit = n
  BY DEF Debit, Credit
<1> HIDE DEF lines
<1>3. EntryNet(e, account) = IF account = to THEN part ELSE IF account = too THEN rest
                             ELSE IF account = from THEN 0 - cents ELSE 0
  <2> HIDE DEF e
  <2>1. CASE account = to /\ part > 0
    <3>1. \A l \in e.lines : l.account = account <=> l = Credit(to, part)
      BY <1>1, <1>2, <2>1
    <3>2. EntryNet(e, account) = Credit(to, part).credit - Credit(to, part).debit
      BY <1>1, <1>2, <2>1, <3>1, NetOfLines
    <3> QED
      BY <1>2, <2>1, <3>2
  <2>2. CASE account = too /\ rest > 0
    <3>1. \A l \in e.lines : l.account = account <=> l = Credit(too, rest)
      BY <1>1, <1>2, <2>2
    <3>2. EntryNet(e, account) = Credit(too, rest).credit - Credit(too, rest).debit
      BY <1>1, <1>2, <2>2, <3>1, NetOfLines
    <3> QED
      BY <1>2, <2>2, <3>2
  <2>3. CASE account = from
    <3>1. \A l \in e.lines : l.account = account <=> l = Debit(from, cents)
      BY <1>1, <1>2, <2>3
    <3>2. EntryNet(e, account) = 0 - cents
      BY <1>1, <1>2, <3>1, NetOfLines
    <3> QED
      BY <2>3, <3>2
  <2>4. CASE ~(account = to /\ part > 0) /\ ~(account = too /\ rest > 0) /\ account # from
    <3>1. \A l \in e.lines : l.account # account
      BY <1>1, <1>2, <2>4
    <3>2. EntryNet(e, account) = 0
      BY <3>1, NetOfLines
    <3> QED
      BY <2>4, <3>2
  <2> QED
    BY <2>1, <2>2, <2>3, <2>4
<1> QED
  BY <1>3 DEF lines

----------------------------------------------------------------------------
(* What a journal adds up to *)

LEMMA BalanceOfNothing == \A account : LedgerBalance({}, account) = 0
BY SumOfNothing DEF LedgerBalance, SumFunction

\* An entry with a new key changes a balance by what it moves.
LEMMA BalanceOfPost ==
  ASSUME NEW journal, IsFiniteSet(journal), NEW account, NEW entry,
         \A e \in journal \cup {entry} : EntryNet(e, account) \in Int,
         ~Posted(journal, entry.key)
  PROVE  /\ PostLedgerEntry(journal, entry) = journal \cup {entry}
         /\ LedgerBalance(journal, account) \in Int
         /\ LedgerBalance(PostLedgerEntry(journal, entry), account)
              = LedgerBalance(journal, account) + EntryNet(entry, account)
<1> DEFINE longer == journal \cup {entry}
           net == [e \in longer |-> EntryNet(e, account)]
           old == [e \in journal |-> EntryNet(e, account)]
<1>1. PostLedgerEntry(journal, entry) = longer /\ entry \notin journal
  BY DEF PostLedgerEntry, Posted
<1>2. /\ LedgerBalance(longer, account) = SumFunctionOnSet(net, longer)
      /\ LedgerBalance(journal, account) = SumFunctionOnSet(old, journal)
  BY DEF LedgerBalance, SumFunction
<1>3. /\ Numbers(net, longer) /\ \A e \in journal : net[e] = old[e]
      /\ net[entry] = EntryNet(entry, account)
  BY DEF Numbers
<1> HIDE DEF net, old
<1>4. /\ SumFunctionOnSet(net, journal) \in Int
      /\ SumFunctionOnSet(net, longer) = SumFunctionOnSet(net, journal) + net[entry]
  BY <1>1, <1>3, SumGrows
<1>5. SumFunctionOnSet(net, journal) = SumFunctionOnSet(old, journal)
  BY <1>3, SumsAgree
<1> QED
  BY <1>1, <1>2, <1>3, <1>4, <1>5
=============================================================================
