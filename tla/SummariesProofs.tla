---------------------------- MODULE SummariesProofs ----------------------------
(* For any book, commands, claims and failures: a scope never has two valid     *)
(* summaries, a summarize that ran undisturbed leaves current ones only, and    *)
(* those of an old grouping end with it.                                        *)
EXTENDS SummariesProps, FiniteSetTheorems, SequenceTheorems, WellFoundedInduction, TLAPS

\* The fields that ending a summary reads and writes are there.
Rows == \A a \in artifacts : {"level", "volume", "status"} \subseteq DOMAIN a

\* Marking a row stale leaves its scope alone.
LEMMA Ended ==
  ASSUME NEW a, {"level", "volume", "status"} \subseteq DOMAIN a
  PROVE  LET b == [a EXCEPT !.status = "stale"]
         IN DOMAIN b = DOMAIN a /\ b.level = a.level /\ b.volume = a.volume /\ b.status = "stale"
OBVIOUS

\* Storing a summary leaves no other valid one in its scope: not the rows that
\* were valid there, and not the row of the same text, which it replaces.
LEMMA UpsertKeepsOne ==
  ASSUME Rows, OneValidPerScope, NEW new,
         {"level", "volume", "status"} \subseteq DOMAIN new,
         artifacts' = Upsert(new)
  PROVE  Rows' /\ OneValidPerScope'
<1> DEFINE End(a) == IF a.level = new.level /\ a.volume = new.volume
                     THEN [a EXCEPT !.status = "stale"] ELSE a
<1>1. \A a \in artifacts' : a = new \/ \E b \in artifacts : a = End(b)
  BY DEF Upsert
<1>2. \A b \in artifacts :
        /\ {"level", "volume", "status"} \subseteq DOMAIN End(b)
        /\ End(b).level = b.level /\ End(b).volume = b.volume
        /\ End(b).status = "valid" =>
             /\ End(b) = b /\ b.status = "valid"
             /\ ~(b.level = new.level /\ b.volume = new.volume)
  BY Ended DEF Rows
<1>3. Rows'
  BY <1>1, <1>2 DEF Rows
<1>4. ASSUME NEW a \in artifacts', NEW c \in artifacts', a.status = "valid", c.status = "valid",
             a.level = c.level, a.volume = c.volume
      PROVE  a = c
  <2>1. CASE a = new \/ c = new
    BY <1>1, <1>2, <1>4, <2>1
  <2>2. CASE a # new /\ c # new
    <3>1. PICK b \in artifacts : a = End(b)
      BY <1>1, <2>2
    <3>2. PICK d \in artifacts : c = End(d)
      BY <1>1, <2>2
    <3>3. a = b /\ c = d
      BY <1>2, <1>4, <3>1, <3>2
    <3> QED
      BY <1>4, <3>3 DEF OneValidPerScope, Valid
  <2> QED
    BY <2>1, <2>2
<1>5. OneValidPerScope'
  BY <1>4 DEF OneValidPerScope, Valid
<1> QED
  BY <1>3, <1>5

\* Ending the summaries of other groupings only takes valid rows away.
LEMMA StalingKeepsOne ==
  ASSUME Rows, OneValidPerScope, NEW p, StaleOld(p)
  PROVE  Rows' /\ OneValidPerScope'
<1> DEFINE End(a) == IF a.level = "volume" /\ a.version # job[p].version
                     THEN [a EXCEPT !.status = "stale"] ELSE a
<1>1. \A a \in artifacts' : \E b \in artifacts : a = End(b)
  BY DEF StaleOld
<1>2. \A b \in artifacts :
        /\ {"level", "volume", "status"} \subseteq DOMAIN End(b)
        /\ End(b).status = "valid" => End(b) = b /\ b.status = "valid"
  BY Ended DEF Rows
<1>3. Rows'
  BY <1>1, <1>2 DEF Rows
<1>4. \A a \in artifacts' : a.status = "valid" => a \in Valid
  BY <1>1, <1>2 DEF Valid
<1> QED
  BY <1>3, <1>4 DEF OneValidPerScope, Valid

\* For any number of commands, regroupings, changes of the claims and failures,
\* and any volumes and texts, no two valid summaries have the same scope.
THEOREM OneSummary == Spec => []OneValidPerScope
<1>1. Init => Rows /\ OneValidPerScope
  BY DEF Init, Rows, OneValidPerScope, Valid
<1>2. Rows /\ OneValidPerScope /\ [Next]_vars => (Rows /\ OneValidPerScope)'
  <2> SUFFICES ASSUME Rows, OneValidPerScope, [Next]_vars PROVE Rows' /\ OneValidPerScope'
    OBVIOUS
  <2>1. ASSUME NEW p \in Commands, SaveVolume(p) PROVE Rows' /\ OneValidPerScope'
    BY <2>1, UpsertKeepsOne DEF SaveVolume
  <2>2. ASSUME NEW p \in Commands, SaveBook(p) PROVE Rows' /\ OneValidPerScope'
    BY <2>2, UpsertKeepsOne DEF SaveBook, BookOf
  <2>3. ASSUME NEW p \in Commands, StaleOld(p) PROVE Rows' /\ OneValidPerScope'
    BY <2>3, StalingKeepsOne
  <2>4. ASSUME UNCHANGED artifacts PROVE Rows' /\ OneValidPerScope'
    BY <2>4 DEF Rows, OneValidPerScope, Valid
  <2>5. ASSUME NEW p \in Commands, Command(p) PROVE \/ SaveVolume(p) \/ SaveBook(p) \/ StaleOld(p)
                                                    \/ UNCHANGED artifacts
    BY <2>5 DEF Command, Start, Group, WriteGroups, ReadMemories, LookVolume, LookBook, Fail, store
  <2> QED
    BY <2>1, <2>2, <2>3, <2>4, <2>5 DEF Next, Change, vars, store
<1> QED
  BY <1>1, <1>2, PTL DEF Spec
-----------------------------------------------------------------------------
(* Numbers: least elements, induction, division *)

\* A set of numbers has a least element.
LEMMA Least == ASSUME NEW T \in SUBSET Nat, T # {} PROVE \E x \in T : \A y \in T : x <= y
<1> DEFINE R == {ss \in Nat \X Nat : ss[1] < ss[2]}
<1>1. IsWellFoundedOn(R, Nat)
  BY NatLessThanWellFounded, Zenon DEF OpToRel
<1>2. PICK x \in T : \A y \in T : <<y, x>> \notin R
  BY <1>1, WFMin, Zenon
<1>3. ASSUME NEW y \in T PROVE x <= y
  <2>1. x \in Nat /\ y \in Nat /\ ~(y < x)
    BY <1>2
  <2> QED
    BY <2>1
<1> QED
  BY <1>3

\* A set of numbers that has 0 and what follows its members is all of them.
LEMMA Induction ==
  ASSUME NEW G \in SUBSET Nat, 0 \in G, \A k \in G : k + 1 \in G
  PROVE  G = Nat
<1> SUFFICES ASSUME Nat \ G # {} PROVE FALSE
  OBVIOUS
<1>1. PICK x \in Nat \ G : \A y \in Nat \ G : x <= y
  BY Least
<1>2. x - 1 \in Nat /\ x = (x - 1) + 1 /\ ~(x <= x - 1)
  BY <1>1
<1> QED
  BY <1>1, <1>2

\* A numeral of more than one digit has fewer digits without its last one.
LEMMA Shorter ==
  ASSUME NEW n \in Nat, ~(n < Base)
  PROVE  n \div Base \in Nat /\ n \div Base < n
<1>1. Base \in Nat /\ Base > 1
  BY SummariesAssumption
<1> DEFINE q == n \div Base
<1>2. q \in Int /\ n = Base * q + (n % Base) /\ n % Base \in 0..(Base - 1)
  BY <1>1
<1> HIDE DEF q
<1>3. q >= 0
  BY <1>1, <1>2
<1>4. q < n
  BY <1>1, <1>2, <1>3
<1> QED
  BY <1>2, <1>3, <1>4 DEF q

\* A digit is a number below the base.
LEMMA Digit == ASSUME NEW n \in Nat PROVE n % Base \in Nat /\ n % Base < Base
<1>1. Base \in Nat /\ Base > 1
  BY SummariesAssumption
<1> QED
  BY <1>1

\* The next number ends in another digit.
LEMMA NextDigit == ASSUME NEW n \in Nat PROVE (n + 1) % Base # n % Base
<1>1. Base \in Nat /\ Base > 1
  BY SummariesAssumption
<1> DEFINE q == n \div Base
           r == (n + 1) \div Base
<1>2. q \in Int /\ n = Base * q + (n % Base)
  BY <1>1
<1>3. r \in Int /\ n + 1 = Base * r + ((n + 1) % Base)
  BY <1>1
<1> HIDE DEF q, r
<1>4. SUFFICES ASSUME (n + 1) % Base = n % Base PROVE FALSE
  OBVIOUS
<1>5. Base * r = Base * q + 1
  BY <1>1, <1>2, <1>3, <1>4
<1>6. PICK d \in Int : d = r - q
  BY <1>2, <1>3
<1>7. Base * d = 1
  BY <1>1, <1>2, <1>3, <1>5, <1>6
<1>8. d <= 0 => Base * d <= 0
  BY <1>1
<1>9. d >= 1 => Base * d >= Base
  BY <1>1
<1> QED
  BY <1>1, <1>7, <1>8, <1>9
-----------------------------------------------------------------------------
(* Numerals *)

\* The recursive definition of the numerals means what it says.
LEMMA NumeralDef ==
  \A n \in Nat : Numeral[n] = IF n < Base THEN <<n>> ELSE Append(Numeral[n \div Base], n % Base)
<1> DEFINE Digits(f, n) == IF n < Base THEN <<n>> ELSE Append(f[n \div Base], n % Base)
           Is(f, k) == \A n \in 0..k : f[n] = Digits(f, n)
           Fun(f) == f = [n \in Nat |-> Digits(f, n)]
           G == {k \in Nat : \E f : Is(f, k)}
<1>1. ASSUME NEW n \in Nat, NEW f, NEW g, \A i \in Nat : i < n => f[i] = g[i]
      PROVE  Digits(f, n) = Digits(g, n)
  BY <1>1, Shorter
<1>2. 0 \in G
  <2> DEFINE f == [n \in {0} |-> <<0>>]
  <2>1. 0 < Base
    BY SummariesAssumption
  <2>2. \A n \in 0..0 : n = 0
    OBVIOUS
  <2>3. Is(f, 0)
    BY <2>1, <2>2
  <2> QED
    BY <2>3
<1>3. ASSUME NEW k \in G PROVE k + 1 \in G
  <2>1. PICK f : Is(f, k)
    OBVIOUS
  <2>2. k \in Nat
    OBVIOUS
  <2> DEFINE g == [n \in 0..(k + 1) |-> IF n <= k THEN f[n] ELSE Digits(f, n)]
  <2>3. \A n \in 0..k : g[n] = f[n]
    BY <2>2
  <2>4. g[k + 1] = Digits(f, k + 1)
    BY <2>2
  <2> HIDE DEF g, Digits
  <2>5. \A n \in 0..(k + 1) : g[n] = Digits(f, n)
    <3> TAKE n \in 0..(k + 1)
    <3>1. n \in 0..k \/ n = k + 1
      BY <2>2
    <3> QED
      BY <2>1, <2>3, <2>4, <3>1
  <2>6. ASSUME NEW n \in 0..(k + 1) PROVE Digits(f, n) = Digits(g, n)
    <3>1. \A i \in Nat : i < n => i \in 0..k
      BY <2>2
    <3> QED
      BY <1>1, <2>3, <3>1
  <2>7. Is(g, k + 1)
    BY <2>5, <2>6
  <2>8. k + 1 \in Nat
    BY <2>2
  <2> HIDE DEF Is
  <2> QED
    BY <2>7, <2>8, Zenon
<1>4. G = Nat
  <2> HIDE DEF G
  <2>1. G \in SUBSET Nat
    BY DEF G
  <2> QED
    BY <1>2, <1>3, <2>1, Induction
<1>5. ASSUME NEW k \in Nat, NEW l \in Nat, NEW f, NEW g, Is(f, k), Is(g, l), k <= l
      PROVE  \A i \in 0..k : f[i] = g[i]
  <2> DEFINE T == {i \in 0..k : f[i] # g[i]}
  <2> SUFFICES ASSUME T # {} PROVE FALSE
    OBVIOUS
  <2>1. T \in SUBSET Nat
    OBVIOUS
  <2> HIDE DEF Digits
  <2>2. PICK x \in T : \A y \in T : x <= y
    BY <2>1, Least
  <2>3. x \in 0..k /\ x \in 0..l /\ x \in Nat
    BY <1>5, <2>2
  <2>4. \A i \in Nat : i < x => f[i] = g[i]
    BY <2>2, <2>3
  <2>5. Digits(f, x) = Digits(g, x)
    BY <1>1, <2>3, <2>4
  <2> QED
    BY <1>5, <2>2, <2>3, <2>5
<1> DEFINE up(n) == CHOOSE f : Is(f, n)
           all == [n \in Nat |-> up(n)[n]]
<1>6. \A n \in Nat : Is(up(n), n)
  <2> HIDE DEF Is
  <2>1. \A n \in Nat : \E f : Is(f, n)
    BY <1>4
  <2> QED
    BY <2>1, Zenon
<1> HIDE DEF up, Is
<1>7. ASSUME NEW n \in Nat PROVE all[n] = Digits(all, n)
  <2>1. up(n)[n] = Digits(up(n), n)
    BY <1>6 DEF Is
  <2>2. \A i \in Nat : i < n => up(n)[i] = all[i]
    <3> SUFFICES ASSUME NEW i \in Nat, i < n PROVE up(n)[i] = up(i)[i]
      OBVIOUS
    <3>1. i <= n /\ i \in 0..i
      OBVIOUS
    <3> QED
      BY <1>5, <1>6, <3>1
  <2> QED
    BY <1>1, <2>1, <2>2
<1>8. Fun(all)
  <2>1. all = [n \in Nat |-> all[n]]
    OBVIOUS
  <2> HIDE DEF all, Digits
  <2> QED
    BY <1>7, <2>1
<1>9. Fun(Numeral)
  <2>1. Numeral = CHOOSE f : Fun(f)
    BY Zenon DEF Numeral
  <2> HIDE DEF Fun
  <2> QED
    BY <1>8, <2>1, Zenon
<1> QED
  <2> HIDE DEF Digits
  <2>1. \A n \in Nat : Numeral[n] = Digits(Numeral, n)
    BY <1>9
  <2> QED
    BY <2>1 DEF Digits

\* A numeral is a sequence of numbers, the last of which is the remainder.
LEMMA Numerals ==
  \A n \in Nat : /\ Numeral[n] \in Seq(Nat) /\ Len(Numeral[n]) > 0
                 /\ Numeral[n][Len(Numeral[n])] = n % Base
<1> DEFINE Good(n) == /\ Numeral[n] \in Seq(Nat) /\ Len(Numeral[n]) > 0
                      /\ Numeral[n][Len(Numeral[n])] = n % Base
           T == {n \in Nat : ~Good(n)}
<1> SUFFICES ASSUME T # {} PROVE FALSE
  OBVIOUS
<1>1. T \in SUBSET Nat
  OBVIOUS
<1> HIDE DEF Good
<1>2. PICK n \in T : \A m \in T : n <= m
  BY <1>1, Least
<1>3. n \in Nat /\ ~Good(n)
  BY <1>2
<1>4. CASE n < Base
  <2>1. Numeral[n] = <<n>>
    BY <1>3, <1>4, NumeralDef
  <2>2. n % Base = n
    BY <1>3, <1>4, SummariesAssumption
  <2>3. <<n>> \in Seq(Nat) /\ Len(<<n>>) = 1 /\ <<n>>[1] = n
    BY <1>3
  <2> QED
    BY <1>3, <2>1, <2>2, <2>3 DEF Good
<1>5. CASE ~(n < Base)
  <2>1. Numeral[n] = Append(Numeral[n \div Base], n % Base)
    BY <1>3, <1>5, NumeralDef
  <2>2. n \div Base \in Nat /\ n \div Base < n
    BY <1>3, <1>5, Shorter
  <2> DEFINE q == n \div Base
  <2>3. Good(q)
    <3> HIDE DEF q
    <3> QED
      BY <1>2, <1>3, <2>2 DEF q
  <2>4. n % Base \in Nat
    BY <1>3, Digit
  <2> DEFINE d == n % Base
             s == Numeral[q]
  <2>5. s \in Seq(Nat) /\ d \in Nat
    BY <2>3, <2>4 DEF Good
  <2> HIDE DEF d, s
  <2>6. /\ Append(s, d) \in Seq(Nat) /\ Len(Append(s, d)) > 0
        /\ Append(s, d)[Len(Append(s, d))] = d
    BY <2>5
  <2> QED
    BY <1>3, <2>1, <2>6 DEF d, s, Good
<1> QED
  BY <1>4, <1>5
-----------------------------------------------------------------------------
(* The order of the texts *)

\* How TextLess compares two texts.
Before(x, y) ==
  \E i \in DOMAIN y : /\ \A j \in 1..(i - 1) : j \in DOMAIN x /\ x[j] = y[j]
                      /\ i \notin DOMAIN x \/ x[i] < y[i]

\* No text is before itself.
LEMMA BeforeIsStrict == ASSUME NEW x \in Seq(Nat) PROVE ~Before(x, x)
<1>1. \A i \in DOMAIN x : x[i] \in Nat
  OBVIOUS
<1> QED
  BY <1>1 DEF Before

\* The order of texts is transitive.
LEMMA BeforeIsTransitive ==
  ASSUME NEW x \in Seq(Nat), NEW y \in Seq(Nat), NEW z \in Seq(Nat), Before(x, y), Before(y, z)
  PROVE  Before(x, z)
<1>1. /\ DOMAIN x = 1..Len(x) /\ Len(x) \in Nat /\ \A i \in DOMAIN x : x[i] \in Nat
      /\ DOMAIN y = 1..Len(y) /\ Len(y) \in Nat /\ \A i \in DOMAIN y : y[i] \in Nat
      /\ DOMAIN z = 1..Len(z) /\ Len(z) \in Nat /\ \A i \in DOMAIN z : z[i] \in Nat
  OBVIOUS
<1>2. PICK i \in DOMAIN y : /\ \A j \in 1..(i - 1) : j \in DOMAIN x /\ x[j] = y[j]
                            /\ i \notin DOMAIN x \/ x[i] < y[i]
  BY DEF Before
<1>3. PICK k \in DOMAIN z : /\ \A j \in 1..(k - 1) : j \in DOMAIN y /\ y[j] = z[j]
                            /\ k \notin DOMAIN y \/ y[k] < z[k]
  BY DEF Before
<1>4. CASE i < k
  <2>0. i \in 1..(k - 1) /\ k - 1 < Len(z) /\ i \in 1..Len(z)
    BY <1>1, <1>2, <1>3, <1>4
  <2>1. i \in DOMAIN z /\ y[i] = z[i]
    BY <1>1, <1>3, <2>0
  <2>2. \A j \in 1..(i - 1) : j \in DOMAIN x /\ x[j] = z[j]
    BY <1>1, <1>2, <1>3, <1>4
  <2> QED
    BY <1>2, <2>1, <2>2 DEF Before
<1>5. CASE k <= i
  <2>1. k \in DOMAIN y /\ y[k] < z[k]
    BY <1>1, <1>2, <1>3, <1>5
  <2>2. \A j \in 1..(k - 1) : j \in 1..(i - 1)
    BY <1>1, <1>2, <1>3, <1>5
  <2>3. \A j \in 1..(k - 1) : j \in DOMAIN x /\ x[j] = z[j]
    BY <1>2, <1>3, <2>2
  <2>4. k < i => k \in 1..(i - 1)
    BY <1>1, <1>2, <1>3
  <2>5. k \notin DOMAIN x \/ x[k] < z[k]
    <3>1. CASE k < i
      BY <1>2, <2>1, <2>4, <3>1
    <3>2. CASE k = i
      BY <1>1, <1>2, <2>1, <3>2
    <3> QED
      BY <1>1, <1>2, <1>3, <1>5, <3>1, <3>2
  <2> QED
    BY <2>3, <2>5 DEF Before
<1> QED
  BY <1>1, <1>4, <1>5

\* Of two texts that differ one is before the other.
LEMMA BeforeIsTotal ==
  ASSUME NEW x \in Seq(Nat), NEW y \in Seq(Nat), ~Before(x, y), ~Before(y, x)
  PROVE  x = y
<1>1. /\ DOMAIN x = 1..Len(x) /\ Len(x) \in Nat /\ \A i \in DOMAIN x : x[i] \in Nat
      /\ DOMAIN y = 1..Len(y) /\ Len(y) \in Nat /\ \A i \in DOMAIN y : y[i] \in Nat
  OBVIOUS
<1> DEFINE T == {i \in DOMAIN x \cup DOMAIN y :
                   ~(i \in DOMAIN x /\ i \in DOMAIN y /\ x[i] = y[i])}
<1>2. ASSUME T # {} PROVE FALSE
  <2>1. T \in SUBSET Nat
    BY <1>1
  <2>2. PICK i \in T : \A j \in T : i <= j
    BY <1>2, <2>1, Least
  <2>3. \A j \in 1..(i - 1) : j \in DOMAIN x /\ j \in DOMAIN y /\ x[j] = y[j]
    BY <1>1, <2>2
  <2>4. CASE i \in DOMAIN x /\ (i \notin DOMAIN y \/ y[i] < x[i])
    BY <2>3, <2>4 DEF Before
  <2>5. CASE i \in DOMAIN y /\ (i \notin DOMAIN x \/ x[i] < y[i])
    BY <2>3, <2>5 DEF Before
  <2> QED
    BY <1>1, <2>2, <2>4, <2>5
<1>3. DOMAIN x = DOMAIN y /\ \A i \in DOMAIN x : x[i] = y[i]
  BY <1>2
<1>4. Len(x) = Len(y)
  <2>1. PICK a \in Nat : a = Len(x)
    BY <1>1
  <2>2. PICK b \in Nat : b = Len(y)
    BY <1>1
  <2>3. \A i \in Nat : i \in 1..a <=> i \in 1..b
    BY <1>1, <1>3, <2>1, <2>2
  <2>4. a <= b
    BY <2>3
  <2>5. b <= a
    BY <2>3
  <2> QED
    BY <2>1, <2>2, <2>4, <2>5
<1> QED
  BY <1>1, <1>3, <1>4

\* The versions of groupings, as texts, are ordered; the next version is another text.
LEMMA Texts ==
  /\ \A a \in Nat : ~TextLess(a, a)
  /\ \A a, b, c \in Nat : TextLess(a, b) /\ TextLess(b, c) => TextLess(a, c)
  /\ \A a, b, c \in Nat : ~TextLess(a, b) /\ ~TextLess(b, a) /\ TextLess(b, c) => TextLess(a, c)
  /\ \A a \in Nat : TextLess(a, a + 1) \/ TextLess(a + 1, a)
<1>1. \A a, b : TextLess(a, b) <=> Before(Numeral[a], Numeral[b])
  BY DEF TextLess, Before
<1>2. \A a \in Nat : Numeral[a] \in Seq(Nat)
  BY Numerals
<1>3. \A a \in Nat : ~TextLess(a, a)
  BY <1>1, <1>2, BeforeIsStrict
<1>4. \A a, b, c \in Nat : TextLess(a, b) /\ TextLess(b, c) => TextLess(a, c)
  BY <1>1, <1>2, BeforeIsTransitive
<1>5. \A a, b \in Nat : ~TextLess(a, b) /\ ~TextLess(b, a) => Numeral[a] = Numeral[b]
  BY <1>1, <1>2, BeforeIsTotal
<1>6. \A a, b, c \in Nat : ~TextLess(a, b) /\ ~TextLess(b, a) /\ TextLess(b, c) => TextLess(a, c)
  BY <1>1, <1>5
<1>7. \A a \in Nat : Numeral[a] # Numeral[a + 1]
  <2> TAKE a \in Nat
  <2>1. a + 1 \in Nat
    OBVIOUS
  <2> QED
    BY <2>1, Numerals, NextDigit
<1>8. \A a \in Nat : TextLess(a, a + 1) \/ TextLess(a + 1, a)
  BY <1>5, <1>7
<1> QED
  BY <1>3, <1>4, <1>6, <1>8
-----------------------------------------------------------------------------
(* Groupings *)

\* The volumes of a grouping of any admissible size.
LEMMA Named ==
  ASSUME NEW size \in Sizes, NEW n \in Nat
  PROVE  {<<n, k>> : k \in Ordinals(size)} \subseteq Nat \X Nat
<1>1. size \in Nat \ {0} /\ Cardinality(Chapters) \in Nat
  BY SummariesAssumption, FS_CardinalityType
<1>2. ASSUME NEW c \in Chapters PROVE ((c - 1) \div size) + 1 \in Nat
  <2>1. c \in Nat /\ c - 1 \in Nat
    BY <1>1, SummariesAssumption
  <2> DEFINE q == (c - 1) \div size
  <2>2. q \in Int /\ c - 1 = size * q + ((c - 1) % size) /\ (c - 1) % size \in 0..(size - 1)
    BY <1>1, <2>1
  <2>3. q >= 0
    <3> HIDE DEF q
    <3> QED
      BY <1>1, <2>1, <2>2
  <2> QED
    BY <2>2, <2>3
<1> QED
  BY <1>2 DEF Ordinals

\* What is known of the groupings.
LEMMA Grouping ==
  ASSUME Shapes
  PROVE  /\ Len(groupings) \in Nat /\ DOMAIN groupings = 1..Len(groupings)
         /\ \A n \in DOMAIN groupings : groupings[n].version \in Nat /\ groupings[n].size \in Sizes
         /\ Current \subseteq DOMAIN groupings /\ CurrentVolumes \subseteq Nat \X Nat
<1> DEFINE R == [version : Nat, size : Sizes]
<1>0. groupings \in Seq(R)
  BY DEF Shapes
<1>1. /\ Len(groupings) \in Nat /\ DOMAIN groupings = 1..Len(groupings)
      /\ \A n \in DOMAIN groupings : groupings[n] \in R
  <2> HIDE DEF R
  <2> QED
    BY <1>0
<1>2. \A n \in DOMAIN groupings : groupings[n].version \in Nat /\ groupings[n].size \in Sizes
  BY <1>1
<1>3. Current \subseteq DOMAIN groupings
  BY DEF Current
<1>4. \A n \in Current : Volumes(n) \subseteq Nat \X Nat
  BY <1>1, <1>2, <1>3, Named DEF Volumes
<1> QED
  BY <1>1, <1>2, <1>3, <1>4 DEF CurrentVolumes

\* A command works on the volumes in the order of the book.
LEMMA FirstIsOne ==
  ASSUME NEW vols \in SUBSET (Nat \X Nat), vols # {}
  PROVE  First(vols) \in vols
<1> DEFINE K == {v[2] : v \in vols}
<1>1. K \in SUBSET Nat /\ K # {}
  OBVIOUS
<1>2. PICK k \in K : \A l \in K : k <= l
  BY <1>1, Least
<1> DEFINE N == {n \in Nat : <<n, k>> \in vols}
<1>3. N \in SUBSET Nat /\ N # {}
  BY <1>2
<1>4. PICK n \in N : \A m \in N : n <= m
  BY <1>3, Least
<1>5. ASSUME NEW u \in vols PROVE k < u[2] \/ (k = u[2] /\ n <= u[1])
  <2>1. u = <<u[1], u[2]>> /\ u[1] \in Nat /\ u[2] \in Nat /\ u[2] \in K /\ k \in Nat
    BY <1>2
  <2>2. k = u[2] => u[1] \in N
    BY <2>1
  <2> QED
    BY <1>2, <1>4, <2>1, <2>2
<1>6. \E v \in vols : \A u \in vols : v[2] < u[2] \/ (v[2] = u[2] /\ v[1] <= u[1])
  <2>1. <<n, k>> \in vols
    BY <1>4
  <2>2. \A u \in vols : <<n, k>>[2] < u[2] \/ (<<n, k>>[2] = u[2] /\ <<n, k>>[1] <= u[1])
    BY <1>5
  <2> QED
    BY <2>1, <2>2
<1> QED
  BY <1>6 DEF First

\* A new grouping takes the place of every grouping that it ends.
LEMMA Succession ==
  ASSUME Shapes, NEW v \in Nat, NEW size \in Sizes,
         groupings' = Append(groupings, [version |-> v, size |-> size])
  PROVE  LET new == Len(groupings) + 1
         IN /\ groupings' \in Seq([version : Nat, size : Sizes])
            /\ groupings'[new].version = v
            /\ \A n \in DOMAIN groupings : groupings'[n] = groupings[n]
            /\ Current' \subseteq Current \cup {new}
            /\ Current \subseteq Current' \/ new \in Current'
            /\ /\ \E n \in Current' : groupings'[n].version = v
               /\ Current = {} \/ \E n \in Current : v = groupings[n].version + 1
               => Current' = {new} /\ CurrentVolumes' = {<<new, k>> : k \in Ordinals(size)}
<1> DEFINE new == Len(groupings) + 1
           ver(n) == groupings'[n].version
<1>1. /\ Len(groupings) \in Nat /\ DOMAIN groupings = 1..Len(groupings)
      /\ \A n \in DOMAIN groupings : groupings[n].version \in Nat
      /\ Current \subseteq DOMAIN groupings
  BY Grouping
<1>2. /\ groupings' \in Seq([version : Nat, size : Sizes])
      /\ DOMAIN groupings' = DOMAIN groupings \cup {new} /\ new \notin DOMAIN groupings
      /\ groupings'[new] = [version |-> v, size |-> size]
      /\ \A n \in DOMAIN groupings : groupings'[n] = groupings[n]
  BY <1>1 DEF Shapes
<1>3. \A n \in DOMAIN groupings' : ver(n) \in Nat
  BY <1>1, <1>2
<1>4. ver(new) = v /\ new \in DOMAIN groupings'
  BY <1>2
<1>5. /\ Current' \subseteq DOMAIN groupings'
      /\ \A n \in DOMAIN groupings' : n \in Current' <=>
           \A m \in DOMAIN groupings' : ~TextLess(ver(n), ver(m))
  BY DEF Current, TextLess
<1>6. \A n \in DOMAIN groupings : n \in Current <=>
        \A m \in DOMAIN groupings : ~TextLess(ver(n), ver(m))
  BY <1>2 DEF Current
<1> HIDE DEF ver
<1>7. Current' \subseteq Current \cup {new}
  BY <1>2, <1>5, <1>6
<1>8. ASSUME NEW n \in Current, n \notin Current' PROVE new \in Current'
  <2>1. n \in DOMAIN groupings /\ n \in DOMAIN groupings' /\ \A m \in DOMAIN groupings : ~TextLess(ver(n), ver(m))
    BY <1>1, <1>2, <1>6
  <2>2. TextLess(ver(n), ver(new))
    BY <1>2, <1>5, <1>8, <2>1
  <2>3. \A m \in DOMAIN groupings : ~TextLess(ver(new), ver(m))
    BY <1>2, <1>3, <1>4, <2>1, <2>2, Texts
  <2>4. ~TextLess(ver(new), ver(new))
    BY <1>3, <1>4, Texts
  <2> QED
    BY <1>2, <1>4, <1>5, <2>3, <2>4
<1>9. ASSUME \E n \in Current' : ver(n) = v,
             Current = {} \/ \E n \in Current : v = groupings[n].version + 1
      PROVE  Current' = {new}
  <2>1. new \in Current'
    BY <1>4, <1>5, <1>9
  <2>2. ASSUME NEW k \in Current', k # new PROVE FALSE
    <3>1. k \in Current /\ k \in DOMAIN groupings /\ k \in DOMAIN groupings'
      BY <1>1, <1>2, <1>7, <2>2
    <3>2. PICK m \in Current : v = ver(m) + 1
      <4>1. PICK m \in Current : v = groupings[m].version + 1
        BY <1>9, <3>1
      <4>2. ver(m) = groupings[m].version
        BY <1>1, <1>2, <4>1 DEF ver
      <4> QED
        BY <4>1, <4>2
    <3>3. m \in DOMAIN groupings /\ m \in DOMAIN groupings'
      BY <1>1, <1>2
    <3>4. ~TextLess(ver(k), ver(m)) /\ ~TextLess(ver(m), ver(k))
      BY <1>6, <3>1, <3>3
    <3>5. ~TextLess(ver(k), v) /\ ~TextLess(v, ver(k)) /\ ~TextLess(v, ver(m))
      BY <1>4, <1>5, <2>1, <3>1, <3>3
    <3>6. ver(k) \in Nat /\ ver(m) \in Nat
      BY <1>3, <3>1, <3>3
    <3>7. ~TextLess(ver(m), v)
      BY <3>4, <3>5, <3>6, Texts
    <3>8. TextLess(ver(m), ver(m) + 1) \/ TextLess(ver(m) + 1, ver(m))
      BY <3>6, Texts
    <3> QED
      BY <3>2, <3>5, <3>7, <3>8
  <2> QED
    BY <2>1, <2>2
<1>10. ASSUME Current' = {new} PROVE CurrentVolumes' = {<<new, k>> : k \in Ordinals(size)}
  <2>1. CurrentVolumes' = UNION {{<<n, k>> : k \in Ordinals(groupings'[n].size)} : n \in {new}}
    BY <1>10 DEF CurrentVolumes, Volumes, Ordinals
  <2>2. groupings'[new].size = size
    BY <1>2
  <2> QED
    BY <2>1, <2>2
<1> QED
  BY <1>2, <1>4, <1>7, <1>8, <1>9, <1>10 DEF ver
-----------------------------------------------------------------------------
(* The inductive invariant, and what a step of one command leaves of it *)

Safe == Shapes /\ OneValidPerScope /\ LeftInv /\ AloneInv /\ SettledInv /\ SummariesCurrent

GroupingShape == groupings \in Seq([version : Nat, size : Sizes])
ArtifactShape == \A a \in artifacts : DOMAIN a = ArtifactFields

\* A job that goes on has its fields.
Onwards(x, j) ==
  \/ x = Idle
  \/ /\ DOMAIN x = Fields /\ x.step # "idle" /\ x.alone = j.alone
     /\ x.version \in Nat /\ x.size = j.size /\ x.todo \subseteq Nat \X Nat

\* What is left to show of a step that moves one command on.
LEMMA Move ==
  ASSUME Safe, NEW p \in Commands, NEW x, Go(p, x), job[p].step # "idle", Onwards(x, job[p])
  PROVE  /\ job'[p] = x /\ \A q \in Commands : q # p => job'[q] = job[q]
         /\ GroupingShape' /\ ArtifactShape' => Shapes'
         /\ (x # Idle /\ Undisturbed(p) => (GroupingInv(p) /\ ReducingInv(p))') => AloneInv'
         /\ ~settled /\ job[p] # Idle /\ DOMAIN job[p] = Fields
         /\ job[p].version \in Nat /\ job[p].size \in Sizes /\ job[p].todo \subseteq Nat \X Nat
<1>1. /\ DOMAIN job = Commands
      /\ \A q \in Commands : DOMAIN job[q] = Fields /\ job[q].todo \subseteq Nat \X Nat
      /\ \A q \in Commands : job[q] # Idle => job[q].version \in Nat /\ job[q].size \in Sizes
  BY DEF Safe, Shapes
<1>2. job' = [job EXCEPT ![p] = x]
  BY DEF Go
<1>3. job'[p] = x /\ DOMAIN job' = Commands /\ \A q \in Commands : q # p => job'[q] = job[q]
  BY <1>1, <1>2
<1>4. Idle.step = "idle" /\ DOMAIN Idle = Fields /\ Idle.todo \subseteq Nat \X Nat
  BY DEF Idle, Fields
<1>5. job[p] # Idle
  BY <1>4
<1>6. ~settled
  BY <1>5 DEF Safe, SettledInv
<1>7. ASSUME GroupingShape', ArtifactShape' PROVE Shapes'
  <2>1. ASSUME NEW q \in Commands
        PROVE  /\ DOMAIN job'[q] = Fields /\ job'[q].todo \subseteq Nat \X Nat
               /\ job'[q] # Idle => job'[q].version \in Nat /\ job'[q].size \in Sizes
    <3>1. CASE q = p
      BY <1>1, <1>3, <1>4, <1>5, <3>1 DEF Onwards
    <3>2. CASE q # p
      BY <1>1, <1>3, <3>2
    <3> QED
      BY <3>1, <3>2
  <2> QED
    BY <1>3, <1>7, <2>1 DEF Shapes, GroupingShape, ArtifactShape
<1>8. ASSUME x # Idle /\ Undisturbed(p) => (GroupingInv(p) /\ ReducingInv(p))' PROVE AloneInv'
  <2> SUFFICES ASSUME NEW r \in Commands, job'[r] # Idle, job'[r].alone
               PROVE  /\ \A q \in Commands : q = r \/ job'[q] = Idle
                      /\ (GroupingInv(r) /\ ReducingInv(r))'
    BY DEF AloneInv, Undisturbed
  <2>1. r = p
    <3> SUFFICES ASSUME r # p PROVE FALSE
      OBVIOUS
    <3>1. job[r] # Idle /\ job[r].alone
      BY <1>3
    <3> QED
      BY <1>5, <3>1 DEF Safe, AloneInv, Undisturbed
  <2>2. x # Idle /\ x.alone = job[p].alone
    BY <1>3, <2>1 DEF Onwards
  <2>3. Undisturbed(p)
    BY <1>3, <1>5, <2>1, <2>2 DEF Undisturbed
  <2>4. \A q \in Commands : q = p \/ job'[q] = Idle
    BY <1>3, <2>3 DEF Safe, AloneInv
  <2>5. (GroupingInv(p) /\ ReducingInv(p))'
    BY <1>8, <2>2, <2>3
  <2> QED
    BY <2>1, <2>4, <2>5
<1> QED
  BY <1>1, <1>3, <1>5, <1>6, <1>7, <1>8

\* A step that touches no summary and no grouping keeps what does not depend on
\* the command that takes it.
LEMMA Looks ==
  ASSUME Safe, NEW p \in Commands, NEW x, Go(p, x), job[p].step \notin {"idle", "stale"},
         Onwards(x, job[p]), UNCHANGED <<groupings, artifacts, leftover>>
  PROVE  Shapes' /\ OneValidPerScope' /\ LeftInv'
<1>1. Shapes'
  BY Move DEF Safe, Shapes, GroupingShape, ArtifactShape
<1>2. OneValidPerScope'
  BY DEF Safe, OneValidPerScope, Valid
<1>3. LeftInv'
  <2>1. ASSUME NEW q \in Commands, job[q].step = "stale" PROVE job'[q] = job[q]
    BY <2>1, Move
  <2>2. Valid' = Valid /\ Current' = Current
    BY DEF Valid, Current, TextLess
  <2> QED
    BY <2>1, <2>2 DEF Safe, LeftInv
<1> QED
  BY <1>1, <1>2, <1>3

-----------------------------------------------------------------------------
(* The steps *)

\* Nothing is settled after a step that does not settle.
LEMMA Unsettled == ASSUME ~settled' PROVE SettledInv' /\ SummariesCurrent'
BY DEF SettledInv, SummariesCurrent

\* What is current depends on the groupings only.
LEMMA SameGroupings ==
  ASSUME UNCHANGED groupings
  PROVE  /\ Current' = Current /\ CurrentVolumes' = CurrentVolumes
         /\ \A v : ChaptersOf(v)' = ChaptersOf(v)
BY DEF Current, TextLess, CurrentVolumes, Volumes, Ordinals, ChaptersOf

\* A change of the claims leaves the rows and the commands alone.
LEMMA ChangeSafe == ASSUME Safe, Change PROVE Safe'
<1>1. UNCHANGED <<groupings, artifacts, job, leftover>> /\ ~settled'
  BY DEF Change
<1>2. Shapes' /\ OneValidPerScope'
  BY <1>1 DEF Safe, Shapes, OneValidPerScope, Valid
<1>3. LeftInv'
  BY <1>1, SameGroupings DEF Safe, LeftInv, Valid
<1>4. AloneInv'
  <2> SUFFICES ASSUME NEW p \in Commands, Undisturbed(p)
               PROVE  /\ \A q \in Commands : q = p \/ job[q] = Idle
                      /\ (GroupingInv(p) /\ ReducingInv(p))'
    BY <1>1 DEF AloneInv, Undisturbed
  <2>1. (\A q \in Commands : q = p \/ job[q] = Idle) /\ GroupingInv(p) /\ ReducingInv(p)
    BY DEF Safe, AloneInv
  <2>2. GroupingInv(p)'
    BY <1>1, <2>1, SameGroupings DEF GroupingInv, Timely
  <2>3. ReducingInv(p)'
    BY <1>1, <2>1, SameGroupings DEF ReducingInv, Known, Inputs, Valid
  <2> QED
    BY <2>1, <2>2, <2>3
<1> QED
  BY <1>1, <1>2, <1>3, <1>4, Unsettled DEF Safe

\* A command starts: it is alone if no other one runs, and no other one is from now on.
LEMMA StartSafe ==
  ASSUME Safe, NEW p \in Commands, NEW only, NEW size \in Sizes, NEW cutoff,
         Start(p, only, size, cutoff)
  PROVE  Safe'
<1> DEFINE others == {q \in Commands \ {p} : job[q] # Idle}
           x == [Idle EXCEPT !.step = "group", !.only = only, !.size = size,
                             !.cutoff = cutoff, !.alone = (others = {})]
<1>1. /\ DOMAIN job = Commands
      /\ \A q \in Commands : DOMAIN job[q] = Fields /\ job[q].todo \subseteq Nat \X Nat
      /\ \A q \in Commands : job[q] # Idle => job[q].version \in Nat /\ job[q].size \in Sizes
  BY DEF Safe, Shapes
<1>2. /\ job' = [q \in Commands |-> IF q = p THEN x ELSE [job[q] EXCEPT !.alone = (q \notin others)]]
      /\ UNCHANGED <<groupings, artifacts, leftover>> /\ ~settled' /\ job[p] = Idle
  BY DEF Start, store
<1>3. /\ DOMAIN x = Fields /\ x.step = "group" /\ x.size = size /\ x.version = 0 /\ x.todo = {}
      /\ x.made = {} /\ x.alone = (others = {}) 
  BY DEF Idle, Fields
<1> HIDE DEF x
<1>4. job'[p] = x /\ DOMAIN job' = Commands
  BY <1>2
<1>5. ASSUME NEW q \in Commands, q # p
      PROVE  /\ DOMAIN job'[q] = Fields /\ job'[q].step = job[q].step
             /\ job'[q].todo = job[q].todo /\ job'[q].version = job[q].version
             /\ job'[q].size = job[q].size /\ job'[q].alone = (q \notin others)
             /\ job[q] = Idle => job'[q] = Idle
  <2>1. job'[q] = [job[q] EXCEPT !.alone = (q \notin others)]
    BY <1>2, <1>5
  <2>2. DOMAIN job[q] = Fields
    BY <1>1
  <2> DEFINE b == (q \notin others)
  <2>3. job[q] = Idle => b = TRUE
    OBVIOUS
  <2> HIDE DEF b
  <2>4. job'[q] = [job[q] EXCEPT !.alone = b]
    BY <2>1 DEF b
  <2>5. /\ DOMAIN job'[q] = Fields /\ job'[q].step = job[q].step
        /\ job'[q].todo = job[q].todo /\ job'[q].version = job[q].version
        /\ job'[q].size = job[q].size /\ job'[q].alone = b
    BY <2>2, <2>4, Zenon DEF Fields
  <2>6. [Idle EXCEPT !.alone = TRUE] = Idle
    <3>1. Idle = [f \in Fields |-> Idle[f]] /\ Idle["alone"] = TRUE
      BY Zenon DEF Idle, Fields
    <3> DEFINE y == [Idle EXCEPT !.alone = TRUE]
    <3>2. y = [f \in DOMAIN Idle |-> IF f = "alone" THEN TRUE ELSE Idle[f]]
      BY Zenon
    <3> HIDE DEF y
    <3> QED
      BY <3>1, <3>2 DEF y
  <2> QED
    BY <2>3, <2>4, <2>5, <2>6 DEF b
<1>6. Shapes'
  <2>1. ASSUME NEW q \in Commands
        PROVE  /\ DOMAIN job'[q] = Fields /\ job'[q].todo \subseteq Nat \X Nat
               /\ job'[q] # Idle => job'[q].version \in Nat /\ job'[q].size \in Sizes
    BY <1>1, <1>3, <1>4, <1>5
  <2> QED
    BY <1>2, <1>4, <2>1 DEF Safe, Shapes
<1>7. OneValidPerScope'
  BY <1>2 DEF Safe, OneValidPerScope, Valid
<1>8. LeftInv'
  <2>1. ASSUME NEW q \in Commands, job[q].step = "stale"
        PROVE  job'[q].step = "stale" /\ job'[q].version = job[q].version
    <3>1. q # p
      BY <1>2, <2>1 DEF Idle
    <3> QED
      BY <1>5, <2>1, <3>1
  <2>2. Valid' = Valid
    BY <1>2 DEF Valid
  <2> QED
    BY <1>2, <2>1, <2>2, SameGroupings DEF Safe, LeftInv
<1>9. AloneInv'
  <2> SUFFICES ASSUME NEW r \in Commands, job'[r] # Idle, job'[r].alone
               PROVE  /\ \A q \in Commands : q = r \/ job'[q] = Idle
                      /\ (GroupingInv(r) /\ ReducingInv(r))'
    BY DEF AloneInv, Undisturbed
  <2>1. r = p
    BY <1>5
  <2>2. others = {}
    BY <1>3, <1>4, <2>1
  <2>3. \A q \in Commands : q = p \/ job'[q] = Idle
    BY <1>5, <2>2
  <2>4. (GroupingInv(p) /\ ReducingInv(p))'
    BY <1>3, <1>4 DEF GroupingInv, ReducingInv
  <2> QED
    BY <2>1, <2>3, <2>4
<1> QED
  BY <1>2, <1>6, <1>7, <1>8, <1>9, Unsettled DEF Safe

\* group() reads the current grouping: it is used, or the next version is written.
LEMMA GroupSafe == ASSUME Safe, NEW p \in Commands, Group(p) PROVE Safe'
<1>1. job[p].step = "group" /\ UNCHANGED <<groupings, artifacts, leftover, settled>>
  BY DEF Group, store
<1>2. job[p] # Idle
  BY <1>1 DEF Idle
<1>3. ~settled' /\ job[p].version \in Nat /\ job[p].size \in Sizes /\ DOMAIN job[p] = Fields
  BY <1>1, <1>2 DEF Safe, SettledInv, Shapes
<1>4. Undisturbed(p) => job[p].made = {}
  BY <1>1 DEF Safe, AloneInv, GroupingInv
<1>5. ASSUME NEW n \in Current, Go(p, Grouped(p, groupings[n].version, CurrentVolumes))
      PROVE  Safe'
  <2> DEFINE v == groupings[n].version
             x == Grouped(p, v, CurrentVolumes)
  <2>1. v \in Nat /\ CurrentVolumes \subseteq Nat \X Nat
    BY Grouping DEF Safe
  <2>2. x = Idle \/ /\ DOMAIN x = Fields /\ x.step = "read" /\ x.alone = job[p].alone
                    /\ x.version = v /\ x.size = job[p].size /\ x.todo = CurrentVolumes
                    /\ x.made = job[p].made
    <3> DEFINE vols == CurrentVolumes
               j == job[p]
               y == [j EXCEPT !.step = "read", !.version = v, !.todo = vols]
    <3>1. x = Idle \/ x = y
      BY Zenon DEF Grouped
    <3> HIDE DEF v, x, vols, j
    <3>2. DOMAIN j = Fields
      BY <1>3 DEF j
    <3>3. /\ DOMAIN y = Fields /\ y.step = "read" /\ y.alone = j.alone /\ y.version = v
          /\ y.size = j.size /\ y.todo = vols /\ y.made = j.made
      BY <3>2, Zenon DEF Fields
    <3> QED
      BY <3>1, <3>3 DEF vols, j
  <2> HIDE DEF x, v
  <2>3. Onwards(x, job[p])
    BY <1>3, <2>1, <2>2 DEF Onwards
  <2>4. Go(p, x)
    BY <1>5 DEF x, v
  <2>5. /\ job'[p] = x
        /\ (x # Idle /\ Undisturbed(p) => (GroupingInv(p) /\ ReducingInv(p))') => AloneInv'
    BY <1>1, <2>3, <2>4, Move
  <2>6. ASSUME x # Idle, Undisturbed(p) PROVE (GroupingInv(p) /\ ReducingInv(p))'
    BY <1>1, <1>4, <2>2, <2>5, <2>6, SameGroupings DEF GroupingInv, ReducingInv
  <2>7. Shapes' /\ OneValidPerScope' /\ LeftInv'
    BY <1>1, <2>3, <2>4, Looks
  <2> QED
    BY <1>3, <2>5, <2>6, <2>7, Unsettled DEF Safe
<1>6. ASSUME NEW v \in {groupings[n].version : n \in Current} \cup (IF Current = {} THEN {0} ELSE {}),
             Go(p, [job[p] EXCEPT !.step = "write", !.version = v + 1])
      PROVE  Safe'
  <2> DEFINE w == v + 1
             j == job[p]
             x == [j EXCEPT !.step = "write", !.version = w]
  <2>1. v \in Nat /\ w \in Nat /\ (Current = {} \/ \E n \in Current : w = groupings[n].version + 1)
    BY Grouping DEF Safe
  <2> HIDE DEF w
  <2>2. /\ DOMAIN x = Fields /\ x.step = "write" /\ x.alone = j.alone
        /\ x.version = w /\ x.size = j.size /\ x.todo = j.todo /\ x.made = j.made
    <3>1. DOMAIN j = Fields
      BY <1>3
    <3> HIDE DEF j
    <3> QED
      BY <3>1, Zenon DEF Fields
  <2>3. Go(p, x)
    BY <1>6 DEF w
  <2> HIDE DEF x
  <2>4. Onwards(x, job[p])
    BY <1>3, <2>1, <2>2 DEF Onwards, Safe, Shapes
  <2>5. /\ job'[p] = x
        /\ (x # Idle /\ Undisturbed(p) => (GroupingInv(p) /\ ReducingInv(p))') => AloneInv'
    BY <1>1, <2>3, <2>4, Move
  <2>6. ASSUME Undisturbed(p) PROVE (GroupingInv(p) /\ ReducingInv(p))'
    <3>1. Current' = Current /\ groupings' = groupings
      BY <1>1, SameGroupings
    <3>2. Current' = {} \/ \E n \in Current' : job'[p].version = groupings'[n].version + 1
      BY <2>1, <2>2, <2>5, <3>1
    <3> QED
      BY <1>4, <2>2, <2>5, <2>6, <3>2 DEF GroupingInv, ReducingInv
  <2>7. Shapes' /\ OneValidPerScope' /\ LeftInv'
    BY <1>1, <2>3, <2>4, Looks
  <2> QED
    BY <1>3, <2>5, <2>6, <2>7, Unsettled DEF Safe
<1> QED
  BY <1>5, <1>6 DEF Group

\* The new volumes are there, and the old ones are still summarized: the command is
\* about to end their summaries, if the new grouping is the current one.
LEMMA WriteGroupsSafe == ASSUME Safe, NEW p \in Commands, WriteGroups(p) PROVE Safe'
<1> DEFINE new == Len(groupings) + 1
           j == job[p]
           vols == {<<new, k>> : k \in Ordinals(job[p].size)}
           x == [j EXCEPT !.step = "stale", !.todo = vols]
<1>1. /\ j.step = "write" /\ Go(p, x) /\ UNCHANGED <<artifacts, leftover, settled>>
      /\ groupings' = Append(groupings, [version |-> j.version, size |-> j.size])
  BY DEF WriteGroups
<1>2. j # Idle
  BY <1>1 DEF Idle
<1>3. ~settled' /\ DOMAIN j = Fields /\ j.version \in Nat /\ j.size \in Sizes
  BY <1>1, <1>2 DEF Safe, SettledInv, Shapes
<1>4. vols \subseteq Nat \X Nat
  BY <1>3, Named, Grouping DEF Safe
<1>5. /\ DOMAIN x = Fields /\ x.step = "stale" /\ x.alone = j.alone
      /\ x.version = j.version /\ x.size = j.size /\ x.todo = vols /\ x.made = j.made
  <2> HIDE DEF j, vols
  <2> QED
    BY <1>3, Zenon DEF Fields
<1> HIDE DEF x, vols
<1>6. Onwards(x, j)
  BY <1>3, <1>4, <1>5 DEF Onwards
<1>7. /\ job'[p] = x /\ \A q \in Commands : q # p => job'[q] = job[q]
      /\ GroupingShape' /\ ArtifactShape' => Shapes'
      /\ (x # Idle /\ Undisturbed(p) => (GroupingInv(p) /\ ReducingInv(p))') => AloneInv'
  BY <1>1, <1>6, Move
<1>8. /\ groupings' \in Seq([version : Nat, size : Sizes])
      /\ groupings'[new].version = j.version
      /\ \A n \in DOMAIN groupings : groupings'[n] = groupings[n]
      /\ Current' \subseteq Current \cup {new}
      /\ Current \subseteq Current' \/ new \in Current'
      /\ /\ \E n \in Current' : groupings'[n].version = j.version
         /\ Current = {} \/ \E n \in Current : j.version = groupings[n].version + 1
         => Current' = {new} /\ CurrentVolumes' = {<<new, k>> : k \in Ordinals(j.size)}
  BY <1>1, <1>3, Succession DEF Safe
<1>9. Shapes'
  BY <1>1, <1>7, <1>8 DEF Safe, Shapes, GroupingShape, ArtifactShape
<1>10. OneValidPerScope'
  BY <1>1 DEF Safe, OneValidPerScope, Valid
<1>11. LeftInv'
  <2> SUFFICES ASSUME ~leftover, NEW a \in Valid, a.level = "volume"
               PROVE  \E n \in Current' : \/ groupings'[n].version = a.version
                                          \/ \E q \in Commands : /\ job'[q].step = "stale"
                                                                 /\ job'[q].version = groupings'[n].version
    BY <1>1 DEF LeftInv, Valid
  <2>1. CASE new \in Current'
    BY <1>5, <1>7, <1>8, <2>1
  <2>2. CASE Current \subseteq Current'
    <3>1. PICK n \in Current : \/ groupings[n].version = a.version
                               \/ \E q \in Commands : /\ job[q].step = "stale"
                                                      /\ job[q].version = groupings[n].version
      BY DEF Safe, LeftInv
    <3>2. n \in Current' /\ groupings'[n] = groupings[n]
      BY <1>8, <2>2 DEF Current
    <3>3. \A q \in Commands : job[q].step = "stale" => job'[q] = job[q]
      BY <1>1, <1>7
    <3> QED
      BY <3>1, <3>2, <3>3
  <2> QED
    BY <1>8, <2>1, <2>2
<1>12. ASSUME Undisturbed(p) PROVE (GroupingInv(p) /\ ReducingInv(p))'
  <2>1. j.made = {} /\ (Current = {} \/ \E n \in Current : j.version = groupings[n].version + 1)
    BY <1>1, <1>12 DEF Safe, AloneInv, GroupingInv
  <2>2. Timely(p)' => job'[p].todo = CurrentVolumes'
    <3>1. Timely(p)' => \E n \in Current' : groupings'[n].version = j.version
      BY <1>5, <1>7 DEF Timely
    <3> QED
      BY <1>5, <1>7, <1>8, <2>1, <3>1 DEF vols
  <2> QED
    BY <1>5, <1>7, <2>1, <2>2 DEF GroupingInv, ReducingInv
<1>13. AloneInv'
  BY <1>7, <1>12
<1> QED
  BY <1>3, <1>9, <1>10, <1>11, <1>13, Unsettled DEF Safe

\* Ending the summaries of older groupings keeps the invariant.
LEMMA StaleOldSafe == ASSUME Safe, NEW p \in Commands, StaleOld(p) PROVE Safe'
<1> DEFINE j == job[p]
           x == Grouped(p, j.version, j.todo)
           End(a) == IF a.level = "volume" /\ a.version # j.version
                     THEN [a EXCEPT !.status = "stale"] ELSE a
<1>1. /\ j.step = "stale" /\ Go(p, x) /\ leftover' = ~Timely(p)
      /\ artifacts' = {End(a) : a \in artifacts} /\ UNCHANGED <<groupings, settled>>
  BY DEF StaleOld
<1>2. j # Idle
  BY <1>1 DEF Idle
<1>3. /\ ~settled' /\ DOMAIN j = Fields /\ j.version \in Nat /\ j.size \in Sizes
      /\ j.todo \subseteq Nat \X Nat
  BY <1>1, <1>2 DEF Safe, SettledInv, Shapes
<1>4. x = Idle \/ /\ DOMAIN x = Fields /\ x.step = "read" /\ x.alone = j.alone
                  /\ x.version = j.version /\ x.size = j.size /\ x.todo = j.todo
                  /\ x.made = j.made
  <2> DEFINE v == j.version
             vols == j.todo
             y == [j EXCEPT !.step = "read", !.version = v, !.todo = vols]
  <2>1. x = Idle \/ x = y
    BY Zenon DEF Grouped
  <2> HIDE DEF x, v, vols
  <2>2. /\ DOMAIN y = Fields /\ y.step = "read" /\ y.alone = j.alone /\ y.version = v
        /\ y.size = j.size /\ y.todo = vols /\ y.made = j.made
    <3>1. DOMAIN j = Fields
      BY <1>3
    <3> HIDE DEF j
    <3> QED
      BY <3>1, Zenon DEF Fields
  <2> QED
    BY <2>1, <2>2 DEF v, vols
<1> HIDE DEF x
<1>5. Onwards(x, j)
  BY <1>3, <1>4 DEF Onwards
<1>6. /\ job'[p] = x
      /\ GroupingShape' /\ ArtifactShape' => Shapes'
      /\ (x # Idle /\ Undisturbed(p) => (GroupingInv(p) /\ ReducingInv(p))') => AloneInv'
  BY <1>1, <1>5, Move
<1>7. ASSUME NEW a \in artifacts
      PROVE  /\ DOMAIN End(a) = ArtifactFields
             /\ End(a).status = "valid" =>
                  End(a) = a /\ a \in Valid /\ (a.level = "volume" => a.version = j.version)
  <2>1. DOMAIN a = ArtifactFields
    BY DEF Safe, Shapes
  <2>2. {"level", "volume", "status"} \subseteq DOMAIN a
    BY <2>1 DEF ArtifactFields
  <2> QED
    BY <2>1, <2>2, Ended DEF Valid
<1>8. Shapes'
  <2>1. GroupingShape'
    BY <1>1 DEF Safe, Shapes, GroupingShape
  <2>2. ArtifactShape'
    BY <1>1, <1>7 DEF ArtifactShape
  <2> QED
    BY <1>6, <2>1, <2>2
<1>9. \A a \in Valid' : a \in Valid /\ (a.level = "volume" => a.version = j.version)
  BY <1>1, <1>7 DEF Valid
<1>10. OneValidPerScope'
  BY <1>9 DEF Safe, OneValidPerScope
<1>11. LeftInv'
  BY <1>1, <1>9, SameGroupings DEF LeftInv, Timely
<1>12. ASSUME x # Idle, Undisturbed(p) PROVE (GroupingInv(p) /\ ReducingInv(p))'
  <2>1. j.made = {} /\ (Timely(p) => j.todo = CurrentVolumes)
    BY <1>1, <1>12 DEF Safe, AloneInv, GroupingInv
  <2>2. leftover' \/ job'[p].todo = CurrentVolumes'
    BY <1>1, <1>4, <1>6, <1>12, <2>1, SameGroupings
  <2> QED
    BY <1>4, <1>6, <1>12, <2>1, <2>2 DEF GroupingInv, ReducingInv
<1> QED
  BY <1>3, <1>6, <1>8, <1>10, <1>11, <1>12, Unsettled DEF Safe

\* What the command reads is what it goes on with.
LEMMA ReadMemoriesSafe == ASSUME Safe, NEW p \in Commands, ReadMemories(p) PROVE Safe'
<1> DEFINE j == job[p]
           seen == [c \in Chapters |-> IF j.cutoff # None /\ c > j.cutoff
                                       THEN None ELSE view.memory[c]]
           vols == {v \in j.todo : \E c \in ChaptersOf(v) : seen[c] # None}
           x == [j EXCEPT !.step = "volume", !.mem = seen, !.todo = vols]
<1>1. j.step = "read" /\ Go(p, x) /\ UNCHANGED <<groupings, artifacts, leftover, settled>>
  BY DEF ReadMemories, store
<1>2. j # Idle
  BY <1>1 DEF Idle
<1>3. /\ ~settled' /\ DOMAIN j = Fields /\ j.version \in Nat /\ j.size \in Sizes
      /\ j.todo \subseteq Nat \X Nat
  BY <1>1, <1>2 DEF Safe, SettledInv, Shapes
<1>4. /\ DOMAIN x = Fields /\ x.step = "volume" /\ x.alone = j.alone
      /\ x.version = j.version /\ x.size = j.size /\ x.todo = vols /\ x.made = j.made
      /\ x.mem = seen
  <2> HIDE DEF j, vols, seen
  <2> QED
    BY <1>3, Zenon DEF Fields, j
<1> HIDE DEF x
<1>5. Onwards(x, j)
  BY <1>3, <1>4 DEF Onwards
<1>6. /\ job'[p] = x
      /\ (x # Idle /\ Undisturbed(p) => (GroupingInv(p) /\ ReducingInv(p))') => AloneInv'
  BY <1>1, <1>5, Move
<1>7. Shapes' /\ OneValidPerScope' /\ LeftInv'
  BY <1>1, <1>5, Looks
<1>8. ASSUME Undisturbed(p) PROVE (GroupingInv(p) /\ ReducingInv(p))'
  <2>1. j.made = {} /\ (leftover \/ j.todo = CurrentVolumes)
    BY <1>1, <1>8 DEF Safe, AloneInv, GroupingInv
  <2> HIDE DEF seen
  <2>2. \A v : ChaptersOf(v)' \cap Known(p)' # {} <=> \E c \in ChaptersOf(v) : seen[c] # None
    BY <1>1, <1>4, <1>6, SameGroupings DEF Known, ChaptersOf
  <2>3. leftover' \/ {v \in CurrentVolumes' : ChaptersOf(v)' \cap Known(p)' # {}}
                       = job'[p].todo \cup {a.volume : a \in job'[p].made}
    BY <1>1, <1>4, <1>6, <2>1, <2>2, SameGroupings
  <2> QED
    BY <1>4, <1>6, <2>1, <2>3 DEF GroupingInv, ReducingInv
<1> QED
  BY <1>3, <1>6, <1>7, <1>8, Unsettled DEF Safe

\* Storing a summary leaves the valid ones of other scopes alone.
LEMMA Upserted ==
  ASSUME ArtifactShape, NEW new, DOMAIN new = ArtifactFields, artifacts' = Upsert(new)
  PROVE  /\ ArtifactShape' /\ new \in artifacts'
         /\ \A a \in Valid' : a = new \/ a \in Valid
         /\ \A a \in Valid : a.level # new.level \/ a.volume # new.volume => a \in Valid'
<1> DEFINE End(a) == IF a.level = new.level /\ a.volume = new.volume
                     THEN [a EXCEPT !.status = "stale"] ELSE a
           others == {b \in artifacts : Id(b) # Id(new)}
<1>1. artifacts' = {End(a) : a \in others} \cup {new}
  BY DEF Upsert
<1>2. ASSUME NEW a \in artifacts
      PROVE  DOMAIN End(a) = ArtifactFields /\ (End(a).status = "valid" => End(a) = a)
  <2>1. DOMAIN a = ArtifactFields
    BY DEF ArtifactShape
  <2>2. {"level", "volume", "status"} \subseteq DOMAIN a
    BY <2>1 DEF ArtifactFields
  <2> QED
    BY <2>1, <2>2, Ended
<1>3. ArtifactShape'
  BY <1>1, <1>2 DEF ArtifactShape
<1>4. ASSUME NEW a \in Valid', a # new PROVE a \in Valid
  <2>1. a \in artifacts' /\ a.status = "valid"
    BY DEF Valid
  <2>2. PICK b \in others : a = End(b)
    BY <1>1, <1>4, <2>1
  <2>3. a = b
    BY <1>2, <2>1, <2>2
  <2> QED
    BY <2>1, <2>3 DEF Valid
<1>5. ASSUME NEW a \in Valid, a.level # new.level \/ a.volume # new.volume PROVE a \in Valid'
  <2>1. Id(a) # Id(new)
    BY <1>5 DEF Id
  <2>2. a \in others /\ End(a) = a
    BY <1>5, <2>1 DEF Valid
  <2> QED
    BY <1>1, <1>5, <2>2 DEF Valid
<1> QED
  BY <1>1, <1>3, <1>4, <1>5

\* What is made of a volume is added to what the summary of the book is made of.
LEMMA Making ==
  ASSUME NEW p, NEW a, DOMAIN job[p] = Fields, job[p].todo \subseteq Nat \X Nat,
         job[p].version \in Nat
  PROVE  LET x == Made(p, a, "volume")
         IN /\ Onwards(x, job[p]) /\ x # Idle /\ x.step = "volume" /\ x.mem = job[p].mem
            /\ x.made = job[p].made \cup {a} /\ x.todo = job[p].todo \ {a.volume}
<1> DEFINE j == job[p]
           made == j.made \cup {a}
           vols == j.todo \ {a.volume}
           x == Made(p, a, "volume")
<1>1. x = [j EXCEPT !.step = "volume", !.made = made, !.todo = vols]
  BY DEF Made
<1>2. /\ DOMAIN x = Fields /\ x.step = "volume" /\ x.alone = j.alone /\ x.mem = j.mem
      /\ x.version = j.version /\ x.size = j.size /\ x.todo = vols /\ x.made = made
  <2> HIDE DEF x, made, vols, j
  <2> QED
    BY <1>1, Zenon DEF Fields, j
<1>3. x # Idle
  BY <1>2 DEF Idle
<1> HIDE DEF x
<1> QED
  BY <1>2, <1>3 DEF Onwards, x

\* A volume of which a summary is made or found is done with.
LEMMA OneVolume ==
  ASSUME Safe, NEW p \in Commands, NEW a, Go(p, Made(p, a, "volume")), Undisturbed(p),
         job[p].step \in {"volume", "save"}, a.volume \in job[p].todo, a.level = "volume",
         a \in Valid', a.inputs = Inputs(p, ChaptersOf(a.volume)),
         \A b \in Valid : b.level # "volume" \/ b.volume # a.volume => b \in Valid',
         UNCHANGED groupings, leftover' \/ ~leftover
  PROVE  (GroupingInv(p) /\ ReducingInv(p))'
<1> DEFINE j == job[p]
           x == Made(p, a, "volume")
<1>1. DOMAIN j = Fields /\ j.todo \subseteq Nat \X Nat /\ j.version \in Nat
  BY DEF Safe, Shapes, Undisturbed
<1>2. /\ Onwards(x, j) /\ x # Idle /\ x.step = "volume" /\ x.mem = j.mem
      /\ x.made = j.made \cup {a} /\ x.todo = j.todo \ {a.volume}
  BY <1>1, Making
<1>3. j.step # "idle"
  OBVIOUS
<1> HIDE DEF x
<1>4. job'[p] = x
  <2>1. Go(p, x)
    BY DEF x
  <2> QED
    BY <1>2, <1>3, <2>1, Move
<1>5. /\ leftover \/ {v \in CurrentVolumes : ChaptersOf(v) \cap Known(p) # {}}
                       = j.todo \cup {b.volume : b \in j.made}
      /\ j.made \subseteq Valid
      /\ \A b \in j.made : /\ b.level = "volume" /\ b.volume \notin j.todo
                           /\ b.inputs = Inputs(p, ChaptersOf(b.volume))
  BY DEF Safe, AloneInv, ReducingInv
<1>6. Known(p)' = Known(p) /\ \A C : Inputs(p, C)' = Inputs(p, C)
  BY <1>2, <1>4 DEF Known, Inputs
<1>7. leftover' \/ {v \in CurrentVolumes' : ChaptersOf(v)' \cap Known(p)' # {}}
                     = x.todo \cup {b.volume : b \in x.made}
  <2>1. {b.volume : b \in x.made} = {b.volume : b \in j.made} \cup {a.volume}
    BY <1>2
  <2> QED
    BY <1>2, <1>5, <1>6, <2>1, SameGroupings
<1>8. x.made \subseteq Valid'
  BY <1>2, <1>5
<1>9. ASSUME NEW b \in x.made
      PROVE  /\ b.level = "volume" /\ b.volume \notin x.todo
             /\ b.inputs = Inputs(p, ChaptersOf(b.volume))'
  <2>1. b = a \/ b \in j.made
    BY <1>2
  <2>2. ChaptersOf(b.volume)' = ChaptersOf(b.volume)
    BY SameGroupings
  <2>3. Inputs(p, ChaptersOf(b.volume))' = Inputs(p, ChaptersOf(b.volume))
    BY <1>6, <2>2 DEF Inputs
  <2> QED
    BY <1>2, <1>5, <2>1, <2>3
<1> QED
  BY <1>2, <1>4, <1>7, <1>8, <1>9 DEF GroupingInv, ReducingInv

\* A summary that is found is used as it is.
LEMMA LookVolumeSafe == ASSUME Safe, NEW p \in Commands, LookVolume(p) PROVE Safe'
<1> DEFINE j == job[p]
           v == First(j.todo)
           kept == Reusable("volume", v, Inputs(p, ChaptersOf(v)), {})
           a == CHOOSE b \in kept : TRUE
           x == IF kept = {} THEN [j EXCEPT !.step = "save"] ELSE Made(p, a, "volume")
<1>1. /\ j.step = "volume" /\ j.todo # {} /\ Go(p, x)
      /\ UNCHANGED <<groupings, artifacts, leftover, settled>>
  BY DEF LookVolume, store
<1>2. j # Idle
  BY <1>1 DEF Idle
<1>3. /\ ~settled' /\ DOMAIN j = Fields /\ j.version \in Nat /\ j.size \in Sizes
      /\ j.todo \subseteq Nat \X Nat
  BY <1>1, <1>2 DEF Safe, SettledInv, Shapes
<1>4. v \in j.todo
  BY <1>1, <1>3, FirstIsOne
<1>5. CASE kept = {}
  <2> DEFINE y == [j EXCEPT !.step = "save"]
  <2>1. /\ DOMAIN y = Fields /\ y.step = "save" /\ y.alone = j.alone /\ y.mem = j.mem
        /\ y.version = j.version /\ y.size = j.size /\ y.todo = j.todo /\ y.made = j.made
    <3> HIDE DEF j
    <3> QED
      BY <1>3, Zenon DEF Fields, j
  <2>2. Go(p, y)
    BY <1>1, <1>5
  <2> HIDE DEF y
  <2>3. Onwards(y, j)
    BY <1>3, <2>1 DEF Onwards
  <2>4. /\ job'[p] = y
        /\ (y # Idle /\ Undisturbed(p) => (GroupingInv(p) /\ ReducingInv(p))') => AloneInv'
    BY <1>1, <2>2, <2>3, Move
  <2>5. Shapes' /\ OneValidPerScope' /\ LeftInv'
    BY <1>1, <2>2, <2>3, Looks
  <2>6. ASSUME Undisturbed(p) PROVE (GroupingInv(p) /\ ReducingInv(p))'
    <3>1. ReducingInv(p)
      BY <2>6 DEF Safe, AloneInv
    <3>2. Known(p)' = Known(p) /\ \A C : Inputs(p, C)' = Inputs(p, C)
      BY <2>1, <2>4 DEF Known, Inputs
    <3>3. \A b : Inputs(p, ChaptersOf(b.volume))' = Inputs(p, ChaptersOf(b.volume))
      BY <1>1, <3>2, SameGroupings DEF Inputs
    <3>4. Valid' = Valid
      BY <1>1 DEF Valid
    <3> QED
      BY <1>1, <2>1, <2>4, <3>1, <3>2, <3>3, <3>4, SameGroupings DEF GroupingInv, ReducingInv
  <2> QED
    BY <1>3, <2>4, <2>5, <2>6, Unsettled DEF Safe
<1>6. CASE kept # {}
  <2> DEFINE y == Made(p, a, "volume")
  <2>1. a \in kept
    BY <1>6
  <2>2. a \in Valid /\ a.level = "volume" /\ a.volume = v /\ a.inputs = Inputs(p, ChaptersOf(v))
    BY <2>1 DEF Reusable, Of
  <2>3. Go(p, y)
    BY <1>1, <1>6
  <2>4. Onwards(y, j) /\ y # Idle
    BY <1>3, Making
  <2>5. Shapes' /\ OneValidPerScope' /\ LeftInv'
    <3> HIDE DEF y
    <3> QED
      BY <1>1, <2>3, <2>4, Looks
  <2>6. Valid' = Valid
    BY <1>1 DEF Valid
  <2>7. Undisturbed(p) => (GroupingInv(p) /\ ReducingInv(p))'
    <3> HIDE DEF a, v
    <3> QED
      BY <1>1, <1>4, <2>2, <2>3, <2>6, OneVolume
  <2>8. AloneInv'
    <3> HIDE DEF y
    <3> QED
      BY <1>1, <2>3, <2>4, <2>7, Move
  <2> QED
    BY <1>3, <2>5, <2>8, Unsettled DEF Safe
<1> QED
  BY <1>5, <1>6

\* A summary that is made takes the place of the others of its volume; if it is of
\* a grouping that is not current any more, that is on record.
LEMMA SaveVolumeSafe == ASSUME Safe, NEW p \in Commands, SaveVolume(p) PROVE Safe'
<1> DEFINE j == job[p]
           v == First(j.todo)
           in == Inputs(p, ChaptersOf(v))
           new == [level |-> "volume", volume |-> v, gist |-> [c \in DOMAIN in |-> GistOf[in[c]]],
                   inputs |-> in, deps |-> {}, version |-> j.version, status |-> "valid"]
           x == Made(p, new, "volume")
<1>1. /\ j.step = "save" /\ Go(p, x) /\ artifacts' = Upsert(new)
      /\ leftover' = (leftover \/ ~Timely(p)) /\ UNCHANGED <<groupings, settled>>
  BY DEF SaveVolume
<1>2. j # Idle
  BY <1>1 DEF Idle
<1>3. /\ ~settled' /\ DOMAIN j = Fields /\ j.version \in Nat /\ j.size \in Sizes
      /\ j.todo \subseteq Nat \X Nat
  BY <1>1, <1>2 DEF Safe, SettledInv, Shapes
<1>4. /\ DOMAIN new = ArtifactFields /\ new.level = "volume" /\ new.volume = v /\ new.inputs = in
      /\ new.version = j.version /\ new.status = "valid"
  BY DEF ArtifactFields
<1> HIDE DEF new
<1>5. Onwards(x, j) /\ x # Idle
  BY <1>3, Making
<1> HIDE DEF x
<1>6. /\ job'[p] = x /\ \A q \in Commands : q # p => job'[q] = job[q]
      /\ GroupingShape' /\ ArtifactShape' => Shapes'
      /\ (x # Idle /\ Undisturbed(p) => (GroupingInv(p) /\ ReducingInv(p))') => AloneInv'
  BY <1>1, <1>5, Move
<1>7. ArtifactShape /\ Rows
  BY DEF Safe, Shapes, ArtifactShape, Rows, ArtifactFields
<1>8. /\ ArtifactShape' /\ new \in artifacts'
      /\ \A a \in Valid' : a = new \/ a \in Valid
      /\ \A a \in Valid : a.level # new.level \/ a.volume # new.volume => a \in Valid'
  BY <1>1, <1>4, <1>7, Upserted
<1>9. Shapes'
  BY <1>1, <1>6, <1>8 DEF Safe, Shapes, GroupingShape
<1>10. OneValidPerScope'
  BY <1>1, <1>4, <1>7, UpsertKeepsOne DEF Safe, ArtifactFields
<1>11. LeftInv'
  <2> SUFFICES ASSUME ~leftover, Timely(p), NEW a \in Valid', a.level = "volume"
               PROVE  \E n \in Current : \/ groupings[n].version = a.version
                                         \/ \E q \in Commands : /\ job'[q].step = "stale"
                                                                /\ job'[q].version = groupings[n].version
    BY <1>1, SameGroupings DEF LeftInv
  <2>1. CASE a = new
    BY <1>4, <2>1 DEF Timely
  <2>2. CASE a \in Valid
    <3>1. \A q \in Commands : job[q].step = "stale" => job'[q] = job[q]
      BY <1>1, <1>6
    <3> QED
      BY <2>2, <3>1 DEF Safe, LeftInv
  <2> QED
    BY <1>8, <2>1, <2>2
<1>12. ASSUME Undisturbed(p) PROVE (GroupingInv(p) /\ ReducingInv(p))'
  <2>1. j.todo # {}
    BY <1>1, <1>12 DEF Safe, AloneInv, ReducingInv
  <2>2. v \in j.todo
    BY <1>3, <2>1, FirstIsOne
  <2>3. new \in Valid' /\ new.inputs = Inputs(p, ChaptersOf(new.volume))
    BY <1>4, <1>8 DEF Valid
  <2> HIDE DEF v, in
  <2> QED
    BY <1>1, <1>4, <1>8, <1>12, <2>2, <2>3, OneVolume DEF x
<1> QED
  BY <1>3, <1>6, <1>9, <1>10, <1>11, <1>12, Unsettled DEF Safe

\* A command that ends leaves its job to none.
LEMMA Ends ==
  ASSUME Safe, NEW p \in Commands, Go(p, Idle), job[p].step # "idle"
  PROVE  /\ GroupingShape' /\ ArtifactShape' => Shapes'
         /\ AloneInv' /\ ~settled /\ \A q \in Commands : q # p => job'[q] = job[q]
         /\ Undisturbed(p) => \A q \in Commands : job'[q] = Idle
<1>1. Onwards(Idle, job[p])
  BY DEF Onwards
<1>2. /\ job'[p] = Idle /\ \A q \in Commands : q # p => job'[q] = job[q]
      /\ GroupingShape' /\ ArtifactShape' => Shapes'
      /\ AloneInv' /\ ~settled
  BY <1>1, Move
<1> QED
  BY <1>2 DEF Safe, AloneInv

\* What a summarize that ran undisturbed has made is what the queries then read:
\* its summaries are those of the volumes of the current grouping, and the summary
\* of the book is made of them.
LEMMA Settling ==
  ASSUME Safe, NEW p \in Commands, Go(p, Idle), job[p].step \in {"volume", "saveBook"},
         job[p].todo = {}, UNCHANGED <<view, groupings, leftover>>, OneValidPerScope',
         settled' => Settles(p), \A a \in Valid : a.level = "volume" => a \in Valid',
         settled' => \E b \in Valid' : /\ b.level = "book" /\ b.inputs = Inputs(p, Chapters)
                                       /\ b.deps = {Id(a) : a \in job[p].made}
  PROVE  SettledInv' /\ SummariesCurrent'
<1> SUFFICES ASSUME settled' PROVE SettledInv' /\ SummariesCurrent'
  BY Unsettled
<1> DEFINE j == job[p]
           vols == {v \in CurrentVolumes : HasMemory(v)}
           now == {a \in Valid' : a.level = "volume" /\ a.volume \in vols}
<1>1. /\ j.alone /\ j.made # {} /\ ~leftover /\ j.mem = view.memory
  BY DEF Settles
<1>2. Undisturbed(p)
  BY <1>1 DEF Undisturbed, Idle
<1>3. /\ {v \in CurrentVolumes : ChaptersOf(v) \cap Known(p) # {}} = {a.volume : a \in j.made}
      /\ j.made \subseteq Valid
      /\ \A a \in j.made : a.level = "volume" /\ a.inputs = Inputs(p, ChaptersOf(a.volume))
  BY <1>1, <1>2 DEF Safe, AloneInv, ReducingInv
<1>4. Known(p) = {c \in Chapters : view.memory[c] # None}
  BY <1>1 DEF Known
<1>5. \A v : ChaptersOf(v) \cap Known(p) # {} <=> HasMemory(v)
  BY <1>4 DEF HasMemory, ChaptersOf
<1>6. vols = {a.volume : a \in j.made}
  BY <1>3, <1>5
<1>7. ASSUME NEW C \in SUBSET Chapters
      PROVE  Inputs(p, C) = [c \in {d \in C : view.memory[d] # None} |-> view.memory[c]]
  <2>1. C \cap Known(p) = {d \in C : view.memory[d] # None}
    BY <1>4
  <2> QED
    BY <1>1, <2>1 DEF Inputs
<1>8. now = j.made
  <2>1. ASSUME NEW a \in j.made PROVE a \in now
    BY <1>3, <1>6
  <2>2. ASSUME NEW a \in now PROVE a \in j.made
    <3>1. PICK b \in j.made : b.volume = a.volume
      BY <1>6
    <3>2. a = b
      BY <1>3, <3>1 DEF OneValidPerScope
    <3> QED
      BY <3>1, <3>2
  <2> QED
    BY <2>1, <2>2
<1>9. vols' = vols /\ \A v : ChaptersOf(v)' = ChaptersOf(v)
  BY SameGroupings DEF HasMemory
<1>10. \A v \in vols : \E a \in now : a.volume = v /\ a.inputs = Inputs(p, ChaptersOf(v))
  BY <1>3, <1>6, <1>8
<1>11. \A v : ChaptersOf(v) \in SUBSET Chapters
  BY DEF ChaptersOf
<1>12. SummariesCurrent'
  <2> DEFINE in(C) == [c \in {d \in C : view.memory[d] # None} |-> view.memory[c]]
  <2>1. \A v \in vols : \E a \in now : a.volume = v /\ a.inputs = in(ChaptersOf(v))
    <3> TAKE v \in vols
    <3>1. Inputs(p, ChaptersOf(v)) = in(ChaptersOf(v))
      BY <1>7, <1>11
    <3> HIDE DEF vols, now, in
    <3> QED
      BY <1>10, <3>1
  <2>2. \E b \in Valid' : /\ b.level = "book" /\ b.inputs = in(Chapters)
                          /\ b.deps = {Id(a) : a \in now}
    BY <1>7, <1>8
  <2> QED
    BY <1>9, <2>1, <2>2 DEF SummariesCurrent, Id
<1>13. SettledInv'
  BY <1>1, <1>2, Ends DEF SettledInv, Idle
<1> QED
  BY <1>12, <1>13

\* Looking at the summary of the book keeps it.
LEMMA LookBookSafe == ASSUME Safe, NEW p \in Commands, LookBook(p) PROVE Safe'
<1> DEFINE j == job[p]
           b == BookOf(p)
           kept == Reusable("book", None, b.inputs, b.deps)
<1>1. j.step = "volume" /\ j.todo = {} /\ UNCHANGED <<view, groupings, artifacts, leftover>>
  BY DEF LookBook, store
<1>2. j # Idle
  BY <1>1 DEF Idle
<1>3. /\ ~settled /\ DOMAIN j = Fields /\ j.version \in Nat /\ j.size \in Sizes
      /\ j.todo \subseteq Nat \X Nat
  BY <1>2 DEF Safe, SettledInv, Shapes
<1>4. b.inputs = Inputs(p, Chapters) /\ b.deps = {Id(a) : a \in j.made}
  BY DEF BookOf
<1>5. Valid' = Valid /\ OneValidPerScope'
  BY <1>1 DEF Valid, OneValidPerScope, Safe
<1>6. CASE j.made = {} \/ kept # {}
  <2>1. Go(p, Idle) /\ settled' = Settles(p)
    BY <1>6 DEF LookBook
  <2>2. Onwards(Idle, j)
    BY DEF Onwards
  <2>3. Shapes' /\ LeftInv'
    BY <1>1, <2>1, <2>2, Looks
  <2>4. AloneInv'
    BY <1>1, <2>1, Ends
  <2>5. settled' => \E a \in Valid' : /\ a.level = "book" /\ a.inputs = Inputs(p, Chapters)
                                      /\ a.deps = {Id(c) : c \in j.made}
    <3> SUFFICES ASSUME Settles(p) PROVE \E a \in kept : TRUE
      BY <1>4, <1>5, <2>1 DEF Reusable, Of
    <3> QED
      BY <1>6 DEF Settles
  <2>6. SettledInv' /\ SummariesCurrent'
    BY <1>1, <1>5, <2>1, <2>5, Settling
  <2> QED
    BY <1>5, <2>3, <2>4, <2>6 DEF Safe
<1>7. CASE ~(j.made = {} \/ kept # {})
  <2> DEFINE x == [j EXCEPT !.step = "saveBook"]
  <2>1. Go(p, x) /\ settled' = settled
    BY <1>7 DEF LookBook
  <2>2. /\ DOMAIN x = Fields /\ x.step = "saveBook" /\ x.alone = j.alone /\ x.mem = j.mem
        /\ x.version = j.version /\ x.size = j.size /\ x.todo = j.todo /\ x.made = j.made
    <3> HIDE DEF j
    <3> QED
      BY <1>3, Zenon DEF Fields, j
  <2> HIDE DEF x
  <2>3. Onwards(x, j)
    BY <1>3, <2>2 DEF Onwards
  <2>4. /\ job'[p] = x
        /\ (x # Idle /\ Undisturbed(p) => (GroupingInv(p) /\ ReducingInv(p))') => AloneInv'
    BY <1>1, <2>1, <2>3, Move
  <2>5. Shapes' /\ LeftInv'
    BY <1>1, <2>1, <2>3, Looks
  <2>6. ASSUME Undisturbed(p) PROVE (GroupingInv(p) /\ ReducingInv(p))'
    <3>1. ReducingInv(p)
      BY <2>6 DEF Safe, AloneInv
    <3>2. Known(p)' = Known(p) /\ \A C : Inputs(p, C)' = Inputs(p, C)
      BY <2>2, <2>4 DEF Known, Inputs
    <3>3. \A a : Inputs(p, ChaptersOf(a.volume))' = Inputs(p, ChaptersOf(a.volume))
      BY <1>1, <3>2, SameGroupings DEF Inputs
    <3> QED
      BY <1>1, <1>5, <2>2, <2>4, <3>1, <3>2, <3>3, SameGroupings DEF GroupingInv, ReducingInv
  <2> QED
    BY <1>3, <1>5, <2>1, <2>4, <2>5, <2>6, Unsettled DEF Safe
<1> QED
  BY <1>6, <1>7

\* Saving the summary of the book keeps it.
LEMMA SaveBookSafe == ASSUME Safe, NEW p \in Commands, SaveBook(p) PROVE Safe'
<1> DEFINE j == job[p]
           b == BookOf(p)
<1>1. /\ j.step = "saveBook" /\ Go(p, Idle) /\ artifacts' = Upsert(b)
      /\ settled' = Settles(p) /\ UNCHANGED <<view, groupings, leftover>>
  BY DEF SaveBook
<1>2. /\ DOMAIN b = ArtifactFields /\ b.level = "book" /\ b.status = "valid"
      /\ b.inputs = Inputs(p, Chapters) /\ b.deps = {Id(a) : a \in j.made}
  BY DEF BookOf, ArtifactFields
<1> HIDE DEF b
<1>3. ArtifactShape /\ Rows
  BY DEF Safe, Shapes, ArtifactShape, Rows, ArtifactFields
<1>4. /\ ArtifactShape' /\ b \in artifacts'
      /\ \A a \in Valid' : a = b \/ a \in Valid
      /\ \A a \in Valid : a.level # "book" => a \in Valid'
  BY <1>1, <1>2, <1>3, Upserted
<1>5. /\ GroupingShape' /\ ArtifactShape' => Shapes'
      /\ AloneInv' /\ ~settled /\ \A q \in Commands : q # p => job'[q] = job[q]
  BY <1>1, Ends
<1>6. Shapes'
  BY <1>1, <1>4, <1>5 DEF Safe, Shapes, GroupingShape
<1>7. OneValidPerScope'
  BY <1>1, <1>2, <1>3, UpsertKeepsOne DEF Safe, ArtifactFields
<1>8. LeftInv'
  <2>1. \A q \in Commands : job[q].step = "stale" => job'[q] = job[q]
    BY <1>1, <1>5
  <2>2. \A a \in Valid' : a.level = "volume" => a \in Valid
    BY <1>2, <1>4
  <2> QED
    BY <1>1, <2>1, <2>2, SameGroupings DEF Safe, LeftInv
<1>9. SettledInv' /\ SummariesCurrent'
  <2>1. \A a \in Valid : a.level = "volume" => a \in Valid'
    BY <1>4
  <2>2. \E a \in Valid' : /\ a.level = "book" /\ a.inputs = Inputs(p, Chapters)
                          /\ a.deps = {Id(c) : c \in j.made}
    BY <1>2, <1>4 DEF Valid
  <2>3. ASSUME settled' PROVE j.todo = {}
    <3>1. Undisturbed(p)
      <4>1. job[p].alone
        BY <1>1, <2>3 DEF Settles
      <4>2. job[p] # Idle
        BY <1>1 DEF Idle
      <4> QED
        BY <4>1, <4>2 DEF Undisturbed
    <3> QED
      BY <1>1, <3>1 DEF Safe, AloneInv, ReducingInv
  <2> QED
    BY <1>1, <1>7, <2>1, <2>2, <2>3, Settling, Unsettled
<1> QED
  BY <1>5, <1>6, <1>7, <1>8, <1>9 DEF Safe

\* A command that dies between writing the new volumes and ending the summaries of
\* the old ones leaves these behind.
LEMMA FailSafe == ASSUME Safe, NEW p \in Commands, Fail(p) PROVE Safe'
<1>1. /\ job[p] # Idle /\ Go(p, Idle) /\ leftover' = (leftover \/ job[p].step = "stale")
      /\ UNCHANGED <<groupings, artifacts, settled>>
  BY DEF Fail, store
<1>2. ~settled'
  BY <1>1 DEF Safe, SettledInv
<1>3. job'[p] = Idle /\ DOMAIN job' = Commands /\ \A q \in Commands : q # p => job'[q] = job[q]
  BY <1>1 DEF Safe, Shapes, Go
<1>4. Shapes'
  <2>1. DOMAIN Idle = Fields /\ Idle.todo \subseteq Nat \X Nat
    BY DEF Idle, Fields
  <2>2. ASSUME NEW q \in Commands
        PROVE  /\ DOMAIN job'[q] = Fields /\ job'[q].todo \subseteq Nat \X Nat
               /\ job'[q] # Idle => job'[q].version \in Nat /\ job'[q].size \in Sizes
    BY <1>3, <2>1 DEF Safe, Shapes
  <2> QED
    BY <1>1, <1>3, <2>2 DEF Safe, Shapes
<1>5. OneValidPerScope'
  BY <1>1 DEF Safe, OneValidPerScope, Valid
<1>6. LeftInv'
  <2> SUFFICES ASSUME ~leftover, job[p].step # "stale" PROVE LeftInv'
    BY <1>1 DEF LeftInv
  <2>1. \A q \in Commands : job[q].step = "stale" => job'[q] = job[q]
    BY <1>3
  <2>2. Valid' = Valid
    BY <1>1 DEF Valid
  <2> QED
    BY <1>1, <2>1, <2>2, SameGroupings DEF Safe, LeftInv
<1>7. AloneInv'
  <2> SUFFICES ASSUME NEW r \in Commands, Undisturbed(r)' PROVE FALSE
    BY DEF AloneInv
  <2>1. r # p /\ Undisturbed(r)
    BY <1>3 DEF Undisturbed
  <2> QED
    BY <1>1, <2>1 DEF Safe, AloneInv
<1> QED
  BY <1>2, <1>4, <1>5, <1>6, <1>7, Unsettled DEF Safe
-----------------------------------------------------------------------------
(* The theorems *)

\* For any book, claims, commands, sizes, base of the numerals and failures, the
\* invariant holds from which the promises to the readers of summaries follow.
THEOREM SummariesSafety == Spec => []Safe
<1>1. Init => Safe
  <2> SUFFICES ASSUME Init PROVE Safe
    OBVIOUS
  <2>1. /\ groupings = <<>> /\ artifacts = {} /\ job = [p \in Commands |-> Idle] /\ ~settled
    BY DEF Init
  <2>2. DOMAIN Idle = Fields /\ Idle.todo = {}
    BY DEF Idle, Fields
  <2>3. Shapes
    BY <2>1, <2>2 DEF Shapes
  <2>4. OneValidPerScope /\ LeftInv
    BY <2>1 DEF OneValidPerScope, LeftInv, Valid
  <2>5. AloneInv
    BY <2>1 DEF AloneInv, Undisturbed
  <2> QED
    BY <2>1, <2>3, <2>4, <2>5 DEF Safe, SettledInv, SummariesCurrent
<1>2. Safe /\ [Next]_vars => Safe'
  <2> SUFFICES ASSUME Safe, [Next]_vars PROVE Safe'
    OBVIOUS
  <2>1. ASSUME NEW p \in Commands, Command(p) PROVE Safe'
    <3>1. \A size \in Sizes : Start(p, TRUE, size, None) => Safe'
      BY StartSafe
    <3>2. \A size \in Sizes, k \in Cutoffs : Start(p, FALSE, size, k) => Safe'
      BY StartSafe
    <3>3. Group(p) \/ WriteGroups(p) \/ StaleOld(p) \/ ReadMemories(p) => Safe'
      BY GroupSafe, WriteGroupsSafe, StaleOldSafe, ReadMemoriesSafe
    <3>4. LookVolume(p) \/ SaveVolume(p) \/ LookBook(p) \/ SaveBook(p) \/ Fail(p) => Safe'
      BY LookVolumeSafe, SaveVolumeSafe, LookBookSafe, SaveBookSafe, FailSafe
    <3> QED
      BY <2>1, <3>1, <3>2, <3>3, <3>4, Zenon DEF Command
  <2>2. CASE UNCHANGED vars
    <3>1. UNCHANGED <<view, groupings, artifacts, job, settled, leftover>>
      BY <2>2 DEF vars, store
    <3>2. Shapes' /\ OneValidPerScope'
      BY <3>1 DEF Safe, Shapes, OneValidPerScope, Valid
    <3>3. LeftInv' /\ SettledInv'
      BY <3>1, SameGroupings DEF Safe, LeftInv, SettledInv, Valid
    <3>4. \A p \in Commands : GroupingInv(p)' = GroupingInv(p) /\ ReducingInv(p)' = ReducingInv(p)
      BY <3>1 DEF GroupingInv, ReducingInv, Timely, Current, TextLess, CurrentVolumes,
                  Volumes, Ordinals, ChaptersOf, Known, Inputs, Valid
    <3>5. AloneInv'
      BY <3>1, <3>4 DEF Safe, AloneInv, Undisturbed
    <3>6. SummariesCurrent'
      BY <3>1, SameGroupings DEF Safe, SummariesCurrent, Valid, HasMemory
    <3> QED
      BY <3>2, <3>3, <3>5, <3>6 DEF Safe
  <2> QED
    BY <2>1, <2>2, ChangeSafe DEF Next
<1> QED
  BY <1>1, <1>2, PTL DEF Spec

\* A summarize that ran undisturbed to its end has left current summaries: of the
\* volumes that queries read, from the claims that are served, and a book of these.
THEOREM SummariesAreCurrent == Spec => []SummariesCurrent
<1>1. Safe => SummariesCurrent
  BY DEF Safe
<1> QED
  BY <1>1, SummariesSafety, PTL

\* The summaries of a grouping end with it, but for those that a dead or an
\* overtaken command has left.
THEOREM OldGroupingsAreEnded == Spec => []OldGroupingsEnd
<1>1. Safe => OldGroupingsEnd
  <2> SUFFICES ASSUME Safe, settled PROVE OldGroupingsEnd
    BY DEF OldGroupingsEnd
  <2>1. ~leftover /\ \A q \in Commands : job[q].step # "stale"
    BY DEF Safe, SettledInv, Idle
  <2> QED
    BY <2>1 DEF Safe, LeftInv, OldGroupingsEnd
<1> QED
  BY <1>1, SummariesSafety, PTL
================================================================================
