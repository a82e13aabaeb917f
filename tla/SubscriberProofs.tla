-------------------------- MODULE SubscriberProofs --------------------------
(***************************************************************************)
(* Safety of the channels subscriber and of the RX thread it commands, for *)
(* any number of channels, sources, flows, slots, failures, silent flows   *)
(* and commands of the user:                                               *)
(*   - the counts by which scan_flows gives flows up are right;            *)
(*   - no command finds its handler's assertion or unwrap fail;            *)
(*   - the sinks end up where the subscriptions say;                       *)
(*   - a ring buffer has one writer;                                       *)
(*   - a connected channel hears the source it is subscribed to;           *)
(*   - no task panics with a lock held.                                    *)
(*                                                                         *)
(* PlanInv is about the worker's own tables while requests and stops are   *)
(* on their way; RxInv about the commands on their way to the RX thread;   *)
(* InfoInv about what controllers are told; HeardInv about what is heard.  *)
(* Every operation has its lemma under a heading, and the theorems combine *)
(* them.                                                                   *)
(*                                                                         *)
(* FlowsSuffice, the hypothesis of all of them: the transmitters' answers  *)
(* never ask for more flows than there are indices (MAX_FLOWS).  The last  *)
(* theorem shows that with at most half as many channels they never do.    *)
(***************************************************************************)
EXTENDS Subscriber, FiniteSetTheorems, SequenceTheorems, WellFoundedInduction, TLAPS

-----------------------------------------------------------------------------
(* Sets and sequences *)

\* A set of naturals that is not empty has a least element.
LEMMA Least ==
    ASSUME NEW S \in SUBSET Nat, S # {}
    PROVE  \E x \in S : \A y \in S : x <= y
<1> DEFINE R == OpToRel(<, Nat)
<1>1. IsWellFoundedOn(R, Nat)
  BY NatLessThanWellFounded
<1>2. \A x, y \in Nat : y < x => <<y, x>> \in R
  BY DEF OpToRel
<1> HIDE DEF R
<1>3. PICK x \in S : \A y \in S : <<y, x>> \notin R
  BY <1>1, WFMin
<1>4. ASSUME NEW y \in S
      PROVE  x <= y
  <2>1. x \in Nat /\ y \in Nat
    OBVIOUS
  <2>2. ~(y < x)
    BY <1>2, <1>3, <2>1
  <2>3. QED
    BY <2>1, <2>2
<1>5. QED
  BY <1>4

\* A set that has 0, and n + 1 with every n, has every natural number.
LEMMA EveryNumber ==
    ASSUME NEW S, 0 \in S, \A n \in Nat : n \in S => n + 1 \in S
    PROVE  Nat \subseteq S
<1> SUFFICES ASSUME Nat \ S # {} PROVE FALSE
  OBVIOUS
<1>1. PICK d \in Nat \ S : \A e \in Nat \ S : d <= e
  BY Least
<1>2. d - 1 \in Nat /\ d - 1 \in S
  <2>1. d # 0 /\ d - 1 \in Nat /\ ~(d <= d - 1)
    BY <1>1
  <2>2. QED
    BY <1>1, <2>1
<1>3. (d - 1) + 1 \in S
  BY <1>2
<1>4. (d - 1) + 1 = d
  BY <1>1
<1>5. QED
  BY <1>1, <1>3, <1>4

LEMMA MinOf ==
    ASSUME NEW S \in SUBSET Nat, S # {}
    PROVE  Min(S) \in S /\ \A y \in S : Min(S) <= y
BY Least DEF Min

\* A listing of S: every element once.
Lists(q, S) ==
    /\ q \in Seq(S) /\ Len(q) \in Nat
    /\ \A x \in S : \E k \in 1..Len(q) : q[k] = x
    /\ \A k, m \in 1..Len(q) : q[k] = q[m] => k = m

LEMMA ListOfSet ==
    ASSUME NEW S, IsFiniteSet(S)
    PROVE  Lists(SetToSeq(S), S)
<1> DEFINE n == Cardinality(S)
           r == SetToSeq(S)
<1>1. n \in Nat /\ ExistsBijection(1..n, S)
  BY FS_CardinalityType
<1>2. \E f \in [1..n -> S] : IsInjective(f)
  BY <1>1 DEF ExistsBijection, Bijection, Injection
<1>3. r \in [1..n -> S] /\ IsInjective(r)
  BY <1>2 DEF SetToSeq
<1> HIDE DEF r
<1>4. r \in Seq(S) /\ Len(r) = n
  BY <1>1, <1>3
<1>5. IsFiniteSet(1..n) /\ Cardinality(1..n) = n
  BY <1>1, FS_Interval
<1>6. r \in Surjection(1..n, S)
  BY <1>1, <1>3, <1>5, FS_Injection DEF Injection
<1> HIDE DEF n
<1>7. \A x \in S : \E k \in 1..Len(r) : r[k] = x
  BY <1>4, <1>6 DEF Surjection
<1>8. \A k, m \in 1..Len(r) : r[k] = r[m] => k = m
  BY <1>3, <1>4 DEF IsInjective
<1>9. QED
  BY <1>1, <1>4, <1>7, <1>8 DEF r, Lists

Below(S, R, x) == {y \in S : <<y, x>> \in R}
Rank(S, R) == [x \in S |-> Cardinality(Below(S, R, x)) + 1]
StrictOrder(S, R) ==
    /\ \A x \in S : <<x, x>> \notin R
    /\ \A x, y, z \in S : <<x, y>> \in R /\ <<y, z>> \in R => <<x, z>> \in R
    /\ \A x, y \in S : x = y \/ <<x, y>> \in R \/ <<y, x>> \in R

\* A strict order on a finite set numbers its elements.
LEMMA Numbered ==
    ASSUME NEW S, IsFiniteSet(S), NEW R, StrictOrder(S, R)
    PROVE  /\ Rank(S, R) \in Injection(S, 1..Cardinality(S))
           /\ Rank(S, R) \in Surjection(S, 1..Cardinality(S))
<1> DEFINE n == Cardinality(S)
           below(x) == Below(S, R, x)
           rank == [x \in S |-> Cardinality(below(x)) + 1]
<1> USE DEF Below, StrictOrder
<1>1. n \in Nat
  BY FS_CardinalityType
<1>2. ASSUME NEW x \in S
      PROVE  IsFiniteSet(below(x)) /\ Cardinality(below(x)) \in 0..(n - 1)
  <2>1. below(x) \in SUBSET S /\ below(x) # S
    OBVIOUS
  <2>2. IsFiniteSet(below(x)) /\ Cardinality(below(x)) <= n /\ Cardinality(below(x)) # n
    BY <2>1, FS_Subset
  <2>3. Cardinality(below(x)) \in Nat
    BY <2>2, FS_CardinalityType
  <2>4. QED
    BY <1>1, <2>2, <2>3
<1>3. rank \in [S -> 1..n]
  <2>1. ASSUME NEW x \in S
        PROVE  Cardinality(below(x)) + 1 \in 1..n
    <3>1. Cardinality(below(x)) \in 0..(n - 1)
      BY <1>2
    <3> HIDE DEF below, n
    <3>2. QED
      BY <1>1, <3>1
  <2>2. QED
    BY <2>1
<1>4. ASSUME NEW x \in S, NEW y \in S, <<x, y>> \in R
      PROVE  Cardinality(below(x)) < Cardinality(below(y))
  <2>1. below(x) \in SUBSET below(y) /\ below(x) # below(y)
    <3>1. \A z \in below(x) : z \in below(y)
      BY <1>4
    <3>2. x \in below(y) /\ x \notin below(x)
      BY <1>4
    <3>3. QED
      BY <3>1, <3>2
  <2>2. Cardinality(below(x)) <= Cardinality(below(y)) /\ Cardinality(below(x)) # Cardinality(below(y))
    BY <1>2, <2>1, FS_Subset
  <2>3. Cardinality(below(x)) \in Int /\ Cardinality(below(y)) \in Int
    <3>1. Cardinality(below(x)) \in 0..(n - 1) /\ Cardinality(below(y)) \in 0..(n - 1)
      BY <1>2
    <3> HIDE DEF below, n
    <3>2. QED
      BY <1>1, <3>1
  <2> HIDE DEF below
  <2>4. QED
    BY <2>2, <2>3
<1>5. ASSUME NEW x \in S, NEW y \in S, rank[x] = rank[y]
      PROVE  x = y
  <2>1. Cardinality(below(x)) \in Int /\ Cardinality(below(y)) \in Int
    <3>1. Cardinality(below(x)) \in 0..(n - 1) /\ Cardinality(below(y)) \in 0..(n - 1)
      BY <1>2
    <3> HIDE DEF below, n
    <3>2. QED
      BY <1>1, <3>1
  <2>2. Cardinality(below(x)) + 1 = Cardinality(below(y)) + 1
    BY <1>5
  <2>3. ~(Cardinality(below(x)) < Cardinality(below(y))) /\ ~(Cardinality(below(y)) < Cardinality(below(x)))
    <3> HIDE DEF below
    <3>1. QED
      BY <2>1, <2>2
  <2>4. <<x, y>> \notin R /\ <<y, x>> \notin R
    BY <1>4, <2>3
  <2>5. QED
    BY <2>4
<1>6. rank \in Injection(S, 1..n)
  BY <1>3, <1>5 DEF Injection, IsInjective
<1>7. IsFiniteSet(1..n) /\ Cardinality(1..n) = n
  BY <1>1, FS_Interval
<1>8. rank \in Surjection(S, 1..n)
  <2> HIDE DEF rank
  <2>1. QED
    BY <1>6, <1>7, FS_Injection
<1>9. QED
  BY <1>6, <1>8 DEF Rank

LEMMA NumberedLists ==
    ASSUME NEW S, IsFiniteSet(S), NEW R, StrictOrder(S, R),
           NEW T, NEW q \in [1..Cardinality(S) -> T],
           \A i \in 1..Cardinality(S) :
               (\E x \in S : Cardinality(Below(S, R, x)) = i - 1)
                   => q[i] \in S /\ Cardinality(Below(S, R, q[i])) = i - 1
    PROVE  Lists(q, S)
<1> DEFINE n == Cardinality(S)
           card(x) == Cardinality(Below(S, R, x))
           rank == [x \in S |-> card(x) + 1]
<1>1. n \in Nat
  BY FS_CardinalityType
<1>2. rank \in Injection(S, 1..n) /\ rank \in Surjection(S, 1..n)
  BY Numbered DEF Rank
<1>3. \A x \in S : card(x) \in Nat
  <2>1. \A x \in S : IsFiniteSet(Below(S, R, x))
    BY FS_Subset DEF Below
  <2>2. QED
    BY <2>1, FS_CardinalityType
<1>0. /\ q \in [1..n -> T]
      /\ \A i \in 1..n : (\E x \in S : card(x) = i - 1) => q[i] \in S /\ card(q[i]) = i - 1
  OBVIOUS
<1> HIDE DEF n, card
<1>4. \A i \in 1..n : \E x \in S : card(x) = i - 1
  <2> SUFFICES ASSUME NEW i \in 1..n
               PROVE  \E x \in S : card(x) = i - 1
    OBVIOUS
  <2>1. PICK x \in S : rank[x] = i
    BY <1>2 DEF Surjection
  <2>2. card(x) + 1 = i /\ card(x) \in Nat
    BY <1>3, <2>1
  <2>3. QED
    BY <1>1, <2>2
<1>5. \A i \in 1..n : q[i] \in S /\ card(q[i]) = i - 1
  BY <1>4, <1>0
<1>6. q \in [1..n -> S]
  BY <1>5, <1>0
<1>7. q \in Seq(S) /\ Len(q) = n
  <2> HIDE DEF rank
  <2>1. QED
    BY <1>1, <1>6
<1>8. ASSUME NEW x \in S
      PROVE  \E k \in 1..n : q[k] = x
  <2>1. card(x) + 1 \in 1..n /\ rank[x] = card(x) + 1
    BY <1>2 DEF Injection
  <2>2. card(q[card(x) + 1]) = (card(x) + 1) - 1 /\ q[card(x) + 1] \in S
    BY <1>5, <2>1
  <2>3. rank[q[card(x) + 1]] = rank[x]
    BY <1>3, <2>2
  <2>4. q[card(x) + 1] = x
    BY <1>2, <2>2, <2>3 DEF Injection, IsInjective
  <2>5. QED
    BY <2>1, <2>4
<1>9. ASSUME NEW k \in 1..n, NEW m \in 1..n, q[k] = q[m]
      PROVE  k = m
  <2>1. k - 1 = m - 1
    BY <1>5, <1>9
  <2>2. QED
    BY <1>1, <2>1
<1>10. Lists(q, S)
  BY <1>1, <1>7, <1>8, <1>9 DEF Lists
<1>11. QED
  BY <1>10

LEMMA AscendingLists ==
    ASSUME NEW S \in SUBSET Int, IsFiniteSet(S)
    PROVE  Lists(Ascending(S), S)
<1> DEFINE R == {p \in S \X S : p[1] < p[2]}
<1>1. \A x, y \in S : <<x, y>> \in R <=> x < y
  OBVIOUS
<1> HIDE DEF R
<1>2. StrictOrder(S, R)
  BY <1>1 DEF StrictOrder
<1>3. \A x \in S : Below(S, R, x) = {y \in S : y < x}
  <2> SUFFICES ASSUME NEW x \in S
               PROVE  Below(S, R, x) = {y \in S : y < x}
    OBVIOUS
  <2>1. \A y \in S : <<y, x>> \in R <=> y < x
    BY <1>1
  <2>2. QED
    BY <2>1 DEF Below
<1> DEFINE q == Ascending(S)
           n == Cardinality(S)
<1>4. q = [i \in 1..n |-> CHOOSE x \in S : Cardinality({y \in S : y < x}) = i - 1]
  BY DEF Ascending, InOrder
<1> HIDE DEF q, n
<1> DEFINE e(i) == CHOOSE x \in S : Cardinality({y \in S : y < x}) = i - 1
<1>5. q \in [1..n -> {e(i) : i \in 1..n}]
  <2>1. q = [i \in 1..n |-> e(i)]
    BY <1>4
  <2> HIDE DEF e
  <2>2. QED
    BY <2>1
<1>6. ASSUME NEW i \in 1..n, NEW z \in S, Cardinality(Below(S, R, z)) = i - 1
      PROVE  q[i] \in S /\ Cardinality(Below(S, R, q[i])) = i - 1
  <2>1. Cardinality({y \in S : y < z}) = i - 1
    BY <1>3, <1>6
  <2>2. q[i] = CHOOSE x \in S : Cardinality({y \in S : y < x}) = i - 1
    BY <1>4
  <2>3. q[i] \in S /\ Cardinality({y \in S : y < q[i]}) = i - 1
    BY <2>1, <2>2
  <2>4. QED
    BY <1>3, <2>3
<1> HIDE DEF e
<1>7. QED
  BY <1>2, <1>5, <1>6, NumberedLists DEF n, q

-----------------------------------------------------------------------------
(* The commands of the RX thread *)

Tables == [FlowIds -> {NoSocket} \cup [Slots -> SUBSET Channels]]

\* A command that its handler carries out: nothing it asserts or unwraps fails,
\* and what it is about is there.
Fits(table, command) ==
    /\ command \in Commands
    /\ Applicable(table, command)
    /\ command.op # "AddSocket" => table[command.flow] # NoSocket

\* Every command fits when it is its turn, and the last one leaves `after`.
LeadsAlong(q, tables, before, after) ==
    /\ tables[1] = before /\ tables[Len(q) + 1] = after
    /\ \A k \in 1..Len(q) : Fits(tables[k], q[k]) /\ tables[k + 1] = Executed(tables[k], q[k])
Leads(q, before, after) ==
    \E tables \in [1..Len(q) + 1 -> Tables] : LeadsAlong(q, tables, before, after)

LEMMA NoSocketIsNone == NoSocket \notin [Slots -> SUBSET Channels]
  BY SlotsAssumption DEF NoSocket

LEMMA CommandIs ==
    ASSUME NEW command \in Commands
    PROVE  /\ command.flow \in FlowIds
           /\ command.op \in {"AddSocket", "RemoveSocket", "ConnectChannel", "DisconnectChannel"}
           /\ command.op \in {"ConnectChannel", "DisconnectChannel"} =>
                  command.slot \in Slots /\ command.chan \in Channels
  BY DEF Commands

Fed(sinks, command) == [sinks EXCEPT ![command.slot] = @ \cup {command.chan}]
Left(sinks, command) == [sinks EXCEPT ![command.slot] = @ \ {command.chan}]

LEMMA ExecutedIs ==
    ASSUME NEW table \in Tables, NEW command \in Commands
    PROVE  /\ Executed(table, command) \in Tables
           /\ \A f \in FlowIds : f # command.flow => Executed(table, command)[f] = table[f]
           /\ command.op = "AddSocket" => Executed(table, command)[command.flow] = NewSocket
           /\ command.op = "RemoveSocket" => Executed(table, command)[command.flow] = NoSocket
           /\ command.op \in {"ConnectChannel", "DisconnectChannel"} /\ table[command.flow] = NoSocket
                  => Executed(table, command) = table
           /\ command.op = "ConnectChannel" /\ table[command.flow] # NoSocket
                  => Executed(table, command)[command.flow]
                        = Fed(table[command.flow], command)
           /\ command.op = "DisconnectChannel" /\ table[command.flow] # NoSocket
                  => Executed(table, command)[command.flow]
                        = Left(table[command.flow], command)
<1> DEFINE f == command.flow
           s == command.slot
           c == command.chan
<1>1. f \in FlowIds /\ (command.op \in {"ConnectChannel", "DisconnectChannel"} => s \in Slots /\ c \in Channels)
  BY CommandIs
<1>2. table[f] # NoSocket => table[f] \in [Slots -> SUBSET Channels]
  BY <1>1 DEF Tables
<1>3. NewSocket \in [Slots -> SUBSET Channels]
  BY DEF NewSocket
<1>4. CASE command.op = "AddSocket"
  <2>1. Executed(table, command) = [table EXCEPT ![f] = NewSocket]
    BY <1>4 DEF Executed
  <2>2. QED
    BY <1>1, <1>3, <1>4, <2>1 DEF Tables
<1>5. CASE command.op = "RemoveSocket"
  <2>1. Executed(table, command) = [table EXCEPT ![f] = NoSocket]
    BY <1>5 DEF Executed
  <2>2. QED
    BY <1>1, <1>5, <2>1 DEF Tables
<1>6. CASE command.op \in {"ConnectChannel", "DisconnectChannel"} /\ table[f] = NoSocket
  <2>1. Executed(table, command) = table
    BY <1>6 DEF Executed
  <2>2. QED
    BY <1>6, <2>1
<1>7. CASE command.op = "ConnectChannel" /\ table[f] # NoSocket
  <2> DEFINE fed == [table[f] EXCEPT ![s] = @ \cup {c}]
  <2>1. Executed(table, command) = [table EXCEPT ![f][s] = @ \cup {c}]
    BY <1>7 DEF Executed
  <2>2. fed \in [Slots -> SUBSET Channels]
    BY <1>1, <1>2, <1>7
  <2>3. Executed(table, command) = [table EXCEPT ![f] = fed]
    BY <2>1
  <2> HIDE DEF fed
  <2>4. Executed(table, command) \in Tables /\ Executed(table, command)[f] = fed
    BY <1>1, <2>2, <2>3 DEF Tables
  <2>5. \A g \in FlowIds : g # f => Executed(table, command)[g] = table[g]
    BY <2>3 DEF Tables
  <2>6. QED
    BY <1>7, <2>4, <2>5 DEF fed, Fed
<1>8. CASE command.op = "DisconnectChannel" /\ table[f] # NoSocket
  <2> DEFINE left == [table[f] EXCEPT ![s] = @ \ {c}]
  <2>1. Executed(table, command) = [table EXCEPT ![f][s] = @ \ {c}]
    BY <1>8 DEF Executed
  <2>2. left \in [Slots -> SUBSET Channels]
    BY <1>1, <1>2, <1>8
  <2>3. Executed(table, command) = [table EXCEPT ![f] = left]
    BY <2>1
  <2> HIDE DEF left
  <2>4. Executed(table, command) \in Tables /\ Executed(table, command)[f] = left
    BY <1>1, <2>2, <2>3 DEF Tables
  <2>5. \A g \in FlowIds : g # f => Executed(table, command)[g] = table[g]
    BY <2>3 DEF Tables
  <2>6. QED
    BY <1>8, <2>4, <2>5 DEF left, Left
<1>9. QED
  BY <1>4, <1>5, <1>6, <1>7, <1>8, CommandIs

LEMMA ExecutedElsewhere ==
    ASSUME NEW table \in Tables, NEW command \in Commands
    PROVE  /\ Executed(table, command) \in Tables
           /\ \A f \in FlowIds : f # command.flow => Executed(table, command)[f] = table[f]
  BY ExecutedIs

LEMMA ExecutedConnect ==
    ASSUME NEW table \in Tables, NEW command \in Commands, command.op = "ConnectChannel",
           table[command.flow] # NoSocket
    PROVE  /\ Executed(table, command) \in Tables
           /\ \A f \in FlowIds : f # command.flow => Executed(table, command)[f] = table[f]
           /\ Executed(table, command)[command.flow] = Fed(table[command.flow], command)
  BY ExecutedIs

LEMMA ExecutedDisconnect ==
    ASSUME NEW table \in Tables, NEW command \in Commands, command.op = "DisconnectChannel",
           table[command.flow] # NoSocket
    PROVE  /\ Executed(table, command) \in Tables
           /\ \A f \in FlowIds : f # command.flow => Executed(table, command)[f] = table[f]
           /\ Executed(table, command)[command.flow] = Left(table[command.flow], command)
  BY ExecutedIs

LEMMA ExecutedThere ==
    ASSUME NEW table \in Tables, NEW other \in Tables, NEW command \in Commands,
           table[command.flow] = other[command.flow]
    PROVE  Executed(table, command)[command.flow] = Executed(other, command)[command.flow]
<1>1. command.op \in {"AddSocket", "RemoveSocket", "ConnectChannel", "DisconnectChannel"}
  BY CommandIs
<1>2. CASE command.op \in {"AddSocket", "RemoveSocket"}
  BY <1>2, ExecutedIs
<1>3. CASE command.op \in {"ConnectChannel", "DisconnectChannel"} /\ table[command.flow] = NoSocket
  BY <1>3, ExecutedIs
<1>4. CASE command.op = "ConnectChannel" /\ table[command.flow] # NoSocket
  BY <1>4, ExecutedIs
<1>5. CASE command.op = "DisconnectChannel" /\ table[command.flow] # NoSocket
  BY <1>5, ExecutedIs
<1>6. QED
  BY <1>1, <1>2, <1>3, <1>4, <1>5

LEMMA NothingLeads ==
    ASSUME NEW table \in Tables
    PROVE  Leads(<< >>, table, table)
<1> DEFINE tables == [k \in 1..Len(<< >>) + 1 |-> table]
<1>1. Len(<< >>) = 0
  OBVIOUS
<1>2. tables \in [1..Len(<< >>) + 1 -> Tables] /\ tables[1] = table /\ tables[Len(<< >>) + 1] = table
  BY <1>1
<1>3. \A k \in 1..Len(<< >>) : FALSE
  BY <1>1
<1> HIDE DEF tables
<1>4. QED
  BY <1>2, <1>3 DEF Leads, LeadsAlong

LEMMA OneLeads ==
    ASSUME NEW table \in Tables, NEW command, Fits(table, command)
    PROVE  Leads(<<command>>, table, Executed(table, command))
<1> DEFINE q == <<command>>
           tables == [k \in 1..Len(q) + 1 |-> IF k = 1 THEN table ELSE Executed(table, command)]
<1>1. Len(q) = 1 /\ q[1] = command
  OBVIOUS
<1> HIDE DEF q
<1>2. Executed(table, command) \in Tables
  BY ExecutedIs DEF Fits
<1>3. tables \in [1..Len(q) + 1 -> Tables]
  BY <1>2
<1>4. tables[1] = table /\ tables[Len(q) + 1] = Executed(table, command) /\ tables[1 + 1] = Executed(table, command)
  BY <1>1
<1> HIDE DEF tables
<1>5. \A k \in 1..Len(q) : Fits(tables[k], q[k]) /\ tables[k + 1] = Executed(tables[k], q[k])
  <2>1. \A k \in 1..Len(q) : k = 1
    BY <1>1
  <2>2. QED
    BY <1>1, <1>4, <2>1
<1>6. Leads(q, table, Executed(table, command))
  BY <1>3, <1>4, <1>5 DEF Leads, LeadsAlong
<1>7. QED
  BY <1>6 DEF q

\* One sequence of commands after another.
LEMMA LeadsOn ==
    ASSUME NEW q \in Seq(Commands), NEW r \in Seq(Commands),
           NEW before, NEW middle, NEW after,
           Leads(q, before, middle), Leads(r, middle, after)
    PROVE  Leads(q \o r, before, after)
<1>1. PICK t \in [1..Len(q) + 1 -> Tables] : LeadsAlong(q, t, before, middle)
  BY DEF Leads
<1>2. PICK u \in [1..Len(r) + 1 -> Tables] : LeadsAlong(r, u, middle, after)
  BY DEF Leads
<1> DEFINE m == Len(q)
           n == Len(r)
           tables == [k \in 1..Len(q \o r) + 1 |-> IF k <= m + 1 THEN t[k] ELSE u[k - m]]
<1>3. m \in Nat /\ n \in Nat /\ Len(q \o r) = m + n
  BY ConcatProperties
<1>4. \A k \in 1..m + n : (q \o r)[k] = IF k <= m THEN q[k] ELSE r[k - m]
  BY ConcatProperties
<1>5. /\ t[1] = before /\ t[m + 1] = middle
      /\ \A k \in 1..m : Fits(t[k], q[k]) /\ t[k + 1] = Executed(t[k], q[k])
      /\ u[1] = middle /\ u[n + 1] = after
      /\ \A k \in 1..n : Fits(u[k], r[k]) /\ u[k + 1] = Executed(u[k], r[k])
  BY <1>1, <1>2 DEF LeadsAlong
<1> HIDE DEF m, n
<1>6. \A k \in 1..m + n + 1 : k > m => tables[k] = u[k - m]
  <2> SUFFICES ASSUME NEW k \in 1..m + n + 1, k > m
               PROVE  tables[k] = u[k - m]
    OBVIOUS
  <2>1. CASE k = m + 1
    <3>1. k - m = 1 /\ tables[k] = t[m + 1]
      BY <1>3, <2>1
    <3>2. QED
      BY <1>5, <3>1
  <2>2. CASE k # m + 1
    BY <1>3, <2>2
  <2>3. QED
    BY <2>1, <2>2
<1>7. \A k \in 1..m + 1 : tables[k] = t[k]
  BY <1>3
<1>8. tables \in [1..Len(q \o r) + 1 -> Tables]
  <2>1. ASSUME NEW k \in 1..m + n + 1
        PROVE  (IF k <= m + 1 THEN t[k] ELSE u[k - m]) \in Tables
    <3>1. k <= m + 1 => k \in 1..m + 1
      BY <1>3
    <3>2. ~(k <= m + 1) => k - m \in 1..n + 1
      BY <1>3
    <3>3. QED
      BY <3>1, <3>2 DEF m, n
  <2>2. QED
    BY <1>3, <2>1
<1> HIDE DEF tables
<1>9. ASSUME NEW k \in 1..m + n
      PROVE  Fits(tables[k], (q \o r)[k]) /\ tables[k + 1] = Executed(tables[k], (q \o r)[k])
  <2>1. CASE k <= m
    <3>1. k \in 1..m /\ k \in 1..m + 1 /\ k + 1 \in 1..m + 1
      BY <1>3, <2>1
    <3>2. tables[k] = t[k] /\ tables[k + 1] = t[k + 1] /\ (q \o r)[k] = q[k]
      BY <1>4, <1>7, <2>1, <3>1
    <3>3. QED
      BY <1>5, <3>1, <3>2
  <2>2. CASE ~(k <= m)
    <3>1. k - m \in 1..n /\ k \in 1..m + n + 1 /\ k + 1 \in 1..m + n + 1 /\ k > m /\ k + 1 > m
          /\ (k + 1) - m = (k - m) + 1
      BY <1>3, <2>2
    <3>2. tables[k] = u[k - m] /\ tables[k + 1] = u[(k + 1) - m]
      BY <1>6, <3>1
    <3>4. (q \o r)[k] = r[k - m]
      BY <1>4, <2>2
    <3>3. QED
      BY <1>5, <3>1, <3>2, <3>4
  <2>3. QED
    BY <2>1, <2>2
<1>10. tables[1] = before /\ tables[m + n + 1] = after
  <2>1. 1 \in 1..m + 1 /\ m + n + 1 \in 1..m + n + 1 /\ m + n + 1 > m /\ (m + n + 1) - m = n + 1
    BY <1>3
  <2>2. QED
    BY <1>5, <1>6, <1>7, <2>1
<1>11. QED
  BY <1>3, <1>8, <1>9, <1>10 DEF Leads, LeadsAlong

\* The first command of a sequence fits, and the others lead on from there.
LEMMA FirstLeads ==
    ASSUME NEW q \in Seq(Commands), q # << >>, NEW before, NEW after, Leads(q, before, after)
    PROVE  /\ before \in Tables /\ Fits(before, Head(q))
           /\ Leads(Tail(q), Executed(before, Head(q)), after)
<1>1. PICK t \in [1..Len(q) + 1 -> Tables] : LeadsAlong(q, t, before, after)
  BY DEF Leads
<1> DEFINE rest == [k \in 1..Len(q) |-> t[k + 1]]
<1>2. Len(q) \in Nat \ {0} /\ Len(Tail(q)) = Len(q) - 1 /\ Head(q) = q[1]
  OBVIOUS
<1>3. 1 \in 1..Len(q) /\ 1 \in 1..Len(q) + 1
  BY <1>2
<1>4. before \in Tables /\ Fits(before, Head(q)) /\ t[1 + 1] = Executed(before, Head(q))
  BY <1>1, <1>2, <1>3 DEF LeadsAlong
<1>5. rest \in [1..Len(Tail(q)) + 1 -> Tables]
  BY <1>2
<1>6. rest[1] = t[1 + 1] /\ rest[Len(Tail(q)) + 1] = after
  BY <1>1, <1>2 DEF LeadsAlong
<1>7. ASSUME NEW k \in 1..Len(Tail(q))
      PROVE  Fits(rest[k], Tail(q)[k]) /\ rest[k + 1] = Executed(rest[k], Tail(q)[k])
  <2>1. Tail(q)[k] = q[k + 1] /\ rest[k] = t[k + 1] /\ rest[k + 1] = t[(k + 1) + 1]
    BY <1>2
  <2>2. k + 1 \in 1..Len(q)
    BY <1>2
  <2>3. QED
    BY <1>1, <2>1, <2>2 DEF LeadsAlong
<1> HIDE DEF rest
<1>8. Leads(Tail(q), t[1 + 1], after)
  BY <1>5, <1>6, <1>7 DEF Leads, LeadsAlong
<1>9. QED
  BY <1>4, <1>8

LEMMA SinksSame ==
    ASSUME NEW table, NEW other, NEW f, table[f] = other[f]
    PROVE  SinksOf(table, f) = SinksOf(other, f)
  BY DEF SinksOf

LEMMA NewSocketIsVacant ==
    ASSUME NEW table, NEW f, table[f] = NewSocket \/ table[f] = NoSocket
    PROVE  SinksOf(table, f) = {}
<1>1. CASE table[f] = NewSocket
  <2>1. \A s \in DOMAIN table[f] : table[f][s] = {}
    BY <1>1 DEF NewSocket
  <2>2. QED
    BY <2>1 DEF SinksOf
<1>2. CASE table[f] = NoSocket
  <2>1. DOMAIN table[f] = {}
    BY <1>2 DEF NoSocket
  <2>2. QED
    BY <2>1 DEF SinksOf
<1>3. QED
  BY <1>1, <1>2

\* Whether a command fits depends on its flow and on where the sinks are.
LEMMA FitsSame ==
    ASSUME NEW table \in Tables, NEW other \in Tables, NEW command, Fits(table, command),
           other[command.flow] = table[command.flow],
           \A g \in FlowIds : SinksOf(other, g) \subseteq SinksOf(table, g)
    PROVE  Fits(other, command)
<1>1. command \in Commands /\ Applicable(table, command)
      /\ (command.op # "AddSocket" => table[command.flow] # NoSocket)
  BY DEF Fits
<1>2. command.op \in {"AddSocket", "RemoveSocket", "ConnectChannel", "DisconnectChannel"}
      /\ command.flow \in FlowIds
  BY <1>1, CommandIs
<1>3. SinksOf(other, command.flow) = SinksOf(table, command.flow)
  BY SinksSame
<1>4. Applicable(other, command)
  <2>1. CASE command.op = "AddSocket"
    BY <1>1, <2>1 DEF Applicable
  <2>2. CASE command.op = "RemoveSocket"
    BY <1>1, <1>3, <2>2 DEF Applicable
  <2>3. CASE command.op = "ConnectChannel"
    <3>1. /\ table[command.flow] # NoSocket
          /\ \A g \in FlowIds : command.chan \notin SinksOf(table, g)
      BY <1>1, <2>3 DEF Applicable
    <3>2. QED
      BY <2>3, <3>1 DEF Applicable
  <2>4. CASE command.op = "DisconnectChannel"
    BY <2>4 DEF Applicable
  <2>5. QED
    BY <1>2, <2>1, <2>2, <2>3, <2>4
<1>5. QED
  BY <1>1, <1>4 DEF Fits

\* Commands that are not about the vacant index f lead on in the same way when
\* it has a new socket.
LEMMA LeadsBeside ==
    ASSUME NEW q \in Seq(Commands), NEW before \in Tables, NEW after \in Tables, Leads(q, before, after),
           NEW f \in FlowIds, before[f] = NoSocket, \A k \in 1..Len(q) : q[k].op # "AddSocket"
    PROVE  /\ after[f] = NoSocket
           /\ Leads(q, [before EXCEPT ![f] = NewSocket], [after EXCEPT ![f] = NewSocket])
<1> DEFINE n == Len(q)
<1>0. n \in Nat
  OBVIOUS
<1>1. PICK t \in [1..n + 1 -> Tables] : LeadsAlong(q, t, before, after)
  BY DEF Leads
<1>2. /\ t[1] = before /\ t[n + 1] = after
      /\ \A k \in 1..n : Fits(t[k], q[k]) /\ t[k + 1] = Executed(t[k], q[k])
  BY <1>1 DEF LeadsAlong
<1>3. \A k \in 1..n : q[k] \in Commands /\ q[k].op # "AddSocket"
  BY <1>0
<1> HIDE DEF n
<1> DEFINE S == {k \in Nat : k \in 0..n => t[k + 1][f] = NoSocket}
<1>4. ASSUME NEW k \in 1..n, t[k][f] = NoSocket
      PROVE  q[k].flow # f /\ t[k + 1][f] = NoSocket
  <2>1. q[k].flow # f
    BY <1>2, <1>3, <1>4 DEF Fits
  <2>2. t[k] \in Tables /\ t[k + 1] = Executed(t[k], q[k])
    <3>1. k \in 1..n + 1
      BY <1>0
    <3>2. QED
      BY <1>2, <3>1
  <2>3. QED
    BY <1>3, <1>4, <2>1, <2>2, ExecutedElsewhere
<1>5. Nat \subseteq S
  <2>1. 0 \in S
    BY <1>2
  <2>2. ASSUME NEW k \in Nat, k \in S
        PROVE  k + 1 \in S
    <3>1. CASE k + 1 \in 0..n
      <4>1. k + 1 \in 1..n /\ k \in 0..n
        BY <1>0, <3>1
      <4>2. t[k + 1][f] = NoSocket
        BY <2>2, <4>1
      <4>3. QED
        BY <1>4, <4>1, <4>2
    <3>2. QED
      BY <3>1
  <2> HIDE DEF S
  <2>3. QED
    BY <2>1, <2>2, EveryNumber
<1>6. \A k \in 1..n + 1 : t[k][f] = NoSocket
  <2> SUFFICES ASSUME NEW k \in 1..n + 1
               PROVE  t[k][f] = NoSocket
    OBVIOUS
  <2>1. k - 1 \in Nat /\ k - 1 \in 0..n /\ (k - 1) + 1 = k
    BY <1>0
  <2>2. QED
    BY <1>5, <2>1
<1> HIDE DEF S
<1> DEFINE with(table) == [table EXCEPT ![f] = NewSocket]
           u == [k \in 1..n + 1 |-> with(t[k])]
<1>7. \A table \in Tables : with(table) \in Tables
  BY DEF Tables, NewSocket
<1>8. u \in [1..n + 1 -> Tables]
  BY <1>7
<1>9. ASSUME NEW k \in 1..n
      PROVE  Fits(with(t[k]), q[k]) /\ with(t[k + 1]) = Executed(with(t[k]), q[k])
  <2>0. k \in 1..n + 1 /\ k + 1 \in 1..n + 1
    BY <1>0
  <2>1. t[k] \in Tables /\ t[k + 1] \in Tables /\ with(t[k]) \in Tables /\ with(t[k + 1]) \in Tables
    BY <1>7, <2>0
  <2>2. q[k].flow # f /\ q[k].flow \in FlowIds /\ q[k] \in Commands
    BY <1>3, <1>4, <1>6, <2>0, CommandIs
  <2>3. \A g \in FlowIds : g # f => with(t[k])[g] = t[k][g] /\ with(t[k + 1])[g] = t[k + 1][g]
    BY <2>1 DEF Tables
  <2>4. with(t[k])[f] = NewSocket /\ with(t[k + 1])[f] = NewSocket
    BY <2>1 DEF Tables
  <2> HIDE DEF with
  <2>5. \A g \in FlowIds : SinksOf(with(t[k]), g) \subseteq SinksOf(t[k], g)
    BY <2>3, <2>4, SinksSame, NewSocketIsVacant
  <2>6. Fits(t[k], q[k]) /\ t[k + 1] = Executed(t[k], q[k])
    BY <1>2
  <2>7. Fits(with(t[k]), q[k])
    BY <2>1, <2>2, <2>3, <2>5, <2>6, FitsSame
  <2>8. Executed(with(t[k]), q[k]) \in Tables
    BY <2>1, <2>2, ExecutedElsewhere
  <2>9. ASSUME NEW g \in FlowIds
        PROVE  Executed(with(t[k]), q[k])[g] = with(t[k + 1])[g]
    <3>1. CASE g # q[k].flow
      <4>1. Executed(with(t[k]), q[k])[g] = with(t[k])[g] /\ t[k + 1][g] = t[k][g]
        <5>1. Executed(with(t[k]), q[k])[g] = with(t[k])[g]
          BY <2>1, <2>2, <3>1, ExecutedElsewhere
        <5>2. Executed(t[k], q[k])[g] = t[k][g]
          BY <2>1, <2>2, <3>1, ExecutedElsewhere
        <5>3. QED
          BY <2>6, <5>1, <5>2
      <4>2. CASE g = f
        BY <2>4, <4>1, <4>2
      <4>3. CASE g # f
        BY <2>3, <4>1, <4>3
      <4>4. QED
        BY <4>2, <4>3
    <3>2. CASE g = q[k].flow
      <4>1. with(t[k])[g] = t[k][g] /\ with(t[k + 1])[g] = t[k + 1][g]
        BY <2>2, <2>3, <3>2
      <4>2. Executed(with(t[k]), q[k])[g] = Executed(t[k], q[k])[g]
        BY <2>1, <2>2, <3>2, <4>1, ExecutedThere
      <4>3. QED
        BY <2>6, <4>1, <4>2
    <3>3. QED
      BY <3>1, <3>2
  <2>10. with(t[k + 1]) = Executed(with(t[k]), q[k])
    BY <2>1, <2>8, <2>9 DEF Tables
  <2>11. QED
    BY <2>7, <2>10
<1> HIDE DEF with
<1>10. u[1] = with(before) /\ u[n + 1] = with(after)
  BY <1>0, <1>2
<1>11. \A k \in 1..n : Fits(u[k], q[k]) /\ u[k + 1] = Executed(u[k], q[k])
  <2> SUFFICES ASSUME NEW k \in 1..n
               PROVE  Fits(u[k], q[k]) /\ u[k + 1] = Executed(u[k], q[k])
    OBVIOUS
  <2>1. u[k] = with(t[k]) /\ u[k + 1] = with(t[k + 1])
    BY <1>0
  <2>2. QED
    BY <1>9, <2>1
<1> HIDE DEF u
<1>12. Leads(q, with(before), with(after))
  BY <1>8, <1>10, <1>11 DEF Leads, LeadsAlong, n
<1>13. after[f] = NoSocket
  BY <1>0, <1>2, <1>6
<1>14. QED
  BY <1>12, <1>13 DEF with

\* Sinks that are nowhere are connected, each to a socket that is there.
ConnectedSinks(table, q, n, f, s) ==
    table[f][s] \cup {q[k].chan : k \in {i \in 1..n : q[i].flow = f /\ q[i].slot = s}}
WithConnected(table, q, n) ==
    [f \in FlowIds |-> IF table[f] = NoSocket THEN NoSocket
                       ELSE [s \in Slots |-> ConnectedSinks(table, q, n, f, s)]]

LEMMA ConnectsLead ==
    ASSUME NEW table \in Tables, NEW q \in Seq(Commands),
           \A k \in 1..Len(q) : /\ q[k].op = "ConnectChannel"
                                /\ table[q[k].flow] # NoSocket
                                /\ \A g \in FlowIds : q[k].chan \notin SinksOf(table, g),
           \A k, m \in 1..Len(q) : q[k].chan = q[m].chan => k = m
    PROVE  Leads(q, table, WithConnected(table, q, Len(q)))
<1> DEFINE n == Len(q)
           mid(j) == WithConnected(table, q, j)
           t == [k \in 1..n + 1 |-> mid(k - 1)]
<1>0. n \in Nat /\ \A k \in 1..n : q[k] \in Commands
  OBVIOUS
<1>1. /\ \A k \in 1..n : /\ q[k].op = "ConnectChannel"
                         /\ table[q[k].flow] # NoSocket
                         /\ \A g \in FlowIds : q[k].chan \notin SinksOf(table, g)
      /\ \A k, m \in 1..n : q[k].chan = q[m].chan => k = m
  OBVIOUS
<1>2. \A k \in 1..n : q[k].flow \in FlowIds /\ q[k].slot \in Slots /\ q[k].chan \in Channels
  BY <1>0, <1>1, CommandIs
<1> HIDE DEF n
<1>3. \A f \in FlowIds : table[f] # NoSocket => table[f] \in [Slots -> SUBSET Channels]
  BY DEF Tables
<1>4. ASSUME NEW j \in 0..n
      PROVE  /\ mid(j) \in Tables
             /\ \A f \in FlowIds : (mid(j)[f] = NoSocket <=> table[f] = NoSocket)
             /\ \A f \in FlowIds : table[f] # NoSocket =>
                    mid(j)[f] = [s \in Slots |-> ConnectedSinks(table, q, j, f, s)]
  <2>1. ASSUME NEW f \in FlowIds, table[f] # NoSocket
        PROVE  [s \in Slots |-> ConnectedSinks(table, q, j, f, s)] \in [Slots -> SUBSET Channels]
    <3>1. ASSUME NEW s \in Slots
          PROVE  ConnectedSinks(table, q, j, f, s) \in SUBSET Channels
      <4>1. table[f][s] \in SUBSET Channels
        BY <1>3, <2>1
      <4>2. \A k \in 1..j : q[k].chan \in Channels
        BY <1>0, <1>2
      <4>3. QED
        BY <4>1, <4>2 DEF ConnectedSinks
    <3>2. QED
      BY <3>1
  <2>2. QED
    BY <2>1, NoSocketIsNone DEF WithConnected, Tables
<1>5. ASSUME NEW k \in 1..n
      PROVE  Fits(mid(k - 1), q[k]) /\ mid(k) = Executed(mid(k - 1), q[k])
  <2> DEFINE f == q[k].flow
             x == q[k].slot
             c == q[k].chan
  <2>0. f \in FlowIds /\ x \in Slots /\ c \in Channels /\ q[k] \in Commands /\ k - 1 \in 0..n /\ k \in 0..n
    BY <1>0, <1>2
  <2>1. mid(k - 1) \in Tables /\ mid(k) \in Tables
    BY <1>4, <2>0
  <2>2. mid(k - 1)[f] # NoSocket /\ mid(k)[f] # NoSocket
    BY <1>1, <1>4, <2>0
  <2>3. ASSUME NEW g \in FlowIds, c \in SinksOf(mid(k - 1), g)
        PROVE  FALSE
    <3>1. CASE table[g] = NoSocket
      <4>1. mid(k - 1)[g] = NoSocket
        BY <1>4, <2>0, <3>1
      <4>2. QED
        BY <2>3, <4>1, NewSocketIsVacant
    <3>2. CASE table[g] # NoSocket
      <4>1. mid(k - 1)[g] = [s \in Slots |-> ConnectedSinks(table, q, k - 1, g, s)]
        BY <1>4, <2>0, <3>2
      <4>2. PICK s \in Slots : c \in ConnectedSinks(table, q, k - 1, g, s)
        BY <2>3, <4>1 DEF SinksOf
      <4>3. CASE c \in table[g][s]
        <5>1. DOMAIN table[g] = Slots
          BY <1>3, <3>2
        <5>2. c \in SinksOf(table, g)
          BY <4>3, <5>1 DEF SinksOf
        <5>3. QED
          BY <1>1, <5>2
      <4>4. CASE c \notin table[g][s]
        <5>1. PICK i \in 1..(k - 1) : q[i].chan = c
          BY <4>2, <4>4 DEF ConnectedSinks
        <5>2. i \in 1..n /\ i # k
          BY <1>0, <5>1
        <5>3. QED
          BY <1>1, <5>1, <5>2
      <4>5. QED
        BY <4>3, <4>4
    <3>3. QED
      BY <3>1, <3>2
  <2>4. Fits(mid(k - 1), q[k])
    <3> HIDE DEF mid
    <3>1. QED
      BY <1>1, <2>0, <2>2, <2>3 DEF Fits, Applicable
  <2>5. /\ Executed(mid(k - 1), q[k]) \in Tables
        /\ \A g \in FlowIds : g # f => Executed(mid(k - 1), q[k])[g] = mid(k - 1)[g]
        /\ Executed(mid(k - 1), q[k])[f] = Fed(mid(k - 1)[f], q[k])
    <3> HIDE DEF mid
    <3>1. q[k].op = "ConnectChannel" /\ mid(k - 1)[q[k].flow] # NoSocket
      BY <1>1, <2>2
    <3>2. QED
      BY <2>0, <2>1, <3>1, ExecutedConnect
  <2>6. ASSUME NEW g \in FlowIds, NEW s \in Slots
        PROVE  ConnectedSinks(table, q, k, g, s)
                  = IF g = f /\ s = x THEN ConnectedSinks(table, q, k - 1, g, s) \cup {c}
                    ELSE ConnectedSinks(table, q, k - 1, g, s)
    <3>1. \A i : i \in 1..k <=> i \in 1..(k - 1) \/ i = k
      BY <1>0
    <3>2. QED
      BY <3>1 DEF ConnectedSinks
  <2>7. ASSUME NEW g \in FlowIds
        PROVE  Executed(mid(k - 1), q[k])[g] = mid(k)[g]
    <3>1. CASE table[g] = NoSocket
      <4>1. g # f /\ mid(k - 1)[g] = NoSocket /\ mid(k)[g] = NoSocket
        BY <1>1, <1>4, <2>0, <3>1
      <4>2. QED
        BY <2>5, <4>1
    <3>2. CASE table[g] # NoSocket
      <4>1. /\ mid(k - 1)[g] = [s \in Slots |-> ConnectedSinks(table, q, k - 1, g, s)]
            /\ mid(k)[g] = [s \in Slots |-> ConnectedSinks(table, q, k, g, s)]
        BY <1>4, <2>0, <3>2
      <4> HIDE DEF mid
      <4>2. CASE g # f
        <5>1. \A s \in Slots : ConnectedSinks(table, q, k, g, s) = ConnectedSinks(table, q, k - 1, g, s)
          BY <2>6, <4>2
        <5>2. mid(k)[g] = mid(k - 1)[g]
          BY <4>1, <5>1
        <5>3. QED
          BY <2>5, <4>2, <5>2
      <4>3. CASE g = f
        <5>1. Executed(mid(k - 1), q[k])[g] = Fed(mid(k - 1)[g], q[k])
          BY <2>5, <4>3
        <5>2. Fed(mid(k - 1)[g], q[k]) = [s \in Slots |-> ConnectedSinks(table, q, k, g, s)]
          <6> DEFINE A == [s \in Slots |-> ConnectedSinks(table, q, k - 1, g, s)]
          <6>1. Fed(A, q[k]) = [s \in Slots |-> IF s = x THEN A[s] \cup {c} ELSE A[s]]
            BY <2>0 DEF Fed
          <6>2. \A s \in Slots : (IF s = x THEN A[s] \cup {c} ELSE A[s]) = ConnectedSinks(table, q, k, g, s)
            BY <2>6, <4>3
          <6>3. mid(k - 1)[g] = A
            BY <4>1
          <6> HIDE DEF A
          <6>4. QED
            BY <6>1, <6>2, <6>3
        <5>3. QED
          BY <4>1, <5>1, <5>2
      <4>4. QED
        BY <4>2, <4>3
    <3>3. QED
      BY <3>1, <3>2
  <2> HIDE DEF mid
  <2>8. Executed(mid(k - 1), q[k]) = mid(k)
    BY <2>1, <2>5, <2>7 DEF Tables
  <2>9. QED
    BY <2>4, <2>8
<1>6. mid(0) = table
  <2>1. mid(0) \in Tables
    BY <1>0, <1>4
  <2>2. ASSUME NEW f \in FlowIds
        PROVE  mid(0)[f] = table[f]
    <3>1. CASE table[f] = NoSocket
      BY <3>1 DEF WithConnected
    <3>2. CASE table[f] # NoSocket
      <4>1. \A s \in Slots : ConnectedSinks(table, q, 0, f, s) = table[f][s]
        BY DEF ConnectedSinks
      <4>2. mid(0)[f] = [s \in Slots |-> table[f][s]]
        BY <3>2, <4>1 DEF WithConnected
      <4>3. QED
        BY <1>3, <3>2, <4>2
    <3>3. QED
      BY <3>1, <3>2
  <2> HIDE DEF mid
  <2>3. QED
    BY <2>1, <2>2 DEF Tables
<1>7. t \in [1..n + 1 -> Tables]
  <2>1. \A k \in 1..n + 1 : k - 1 \in 0..n
    BY <1>0
  <2> HIDE DEF mid
  <2>2. QED
    BY <1>4, <2>1
<1> HIDE DEF mid
<1>8. t[1] = table /\ t[n + 1] = mid(n)
  <2>1. 1 \in 1..n + 1 /\ n + 1 \in 1..n + 1 /\ 1 - 1 = 0 /\ (n + 1) - 1 = n
    BY <1>0
  <2>2. QED
    BY <1>6, <2>1
<1>9. ASSUME NEW k \in 1..n
      PROVE  Fits(t[k], q[k]) /\ t[k + 1] = Executed(t[k], q[k])
  <2>1. k \in 1..n + 1 /\ k + 1 \in 1..n + 1 /\ (k + 1) - 1 = k
    BY <1>0
  <2>2. t[k] = mid(k - 1) /\ t[k + 1] = mid(k)
    BY <2>1
  <2>3. QED
    BY <1>5, <2>2
<1> HIDE DEF t
<1>10. QED
  BY <1>7, <1>8, <1>9 DEF Leads, LeadsAlong, mid, n

\* Every sink of a socket is disconnected, and no other one.
LEMMA DisconnectsLead ==
    ASSUME NEW table \in Tables, NEW f \in FlowIds, table[f] # NoSocket, NEW q \in Seq(Commands),
           \A k \in 1..Len(q) : q[k].op = "DisconnectChannel" /\ q[k].flow = f,
           \A s \in Slots : \A c \in table[f][s] : \E k \in 1..Len(q) : q[k].slot = s /\ q[k].chan = c
    PROVE  Leads(q, table, [table EXCEPT ![f] = NewSocket])
<1> DEFINE n == Len(q)
           gone(j, s) == {q[k].chan : k \in {i \in 1..j : q[i].slot = s}}
           sinks(j) == [s \in Slots |-> table[f][s] \ gone(j, s)]
           mid(j) == [table EXCEPT ![f] = sinks(j)]
           t == [k \in 1..n + 1 |-> mid(k - 1)]
<1>0. n \in Nat /\ \A k \in 1..n : q[k] \in Commands
  OBVIOUS
<1>1. /\ \A k \in 1..n : q[k].op = "DisconnectChannel" /\ q[k].flow = f
      /\ \A s \in Slots : \A c \in table[f][s] : \E k \in 1..n : q[k].slot = s /\ q[k].chan = c
  OBVIOUS
<1>2. \A k \in 1..n : q[k].slot \in Slots /\ q[k].chan \in Channels
  BY <1>0, <1>1, CommandIs
<1>3. table[f] \in [Slots -> SUBSET Channels]
  BY DEF Tables
<1> HIDE DEF n
<1>4. ASSUME NEW j \in 0..n
      PROVE  /\ sinks(j) \in [Slots -> SUBSET Channels] /\ sinks(j) # NoSocket
             /\ mid(j) \in Tables /\ mid(j)[f] = sinks(j)
             /\ \A g \in FlowIds : g # f => mid(j)[g] = table[g]
  <2>1. sinks(j) \in [Slots -> SUBSET Channels]
    BY <1>3
  <2> HIDE DEF sinks
  <2>2. sinks(j) # NoSocket
    BY <2>1, NoSocketIsNone
  <2>3. QED
    BY <2>1, <2>2 DEF Tables
<1>5. ASSUME NEW k \in 1..n
      PROVE  Fits(mid(k - 1), q[k]) /\ mid(k) = Executed(mid(k - 1), q[k])
  <2>0. k - 1 \in 0..n /\ k \in 0..n /\ q[k] \in Commands /\ q[k].op = "DisconnectChannel" /\ q[k].flow = f
        /\ q[k].slot \in Slots
    BY <1>0, <1>1, <1>2
  <2>1. ASSUME NEW s \in Slots
        PROVE  gone(k, s) = IF s = q[k].slot THEN gone(k - 1, s) \cup {q[k].chan} ELSE gone(k - 1, s)
    <3>1. \A i : i \in 1..k <=> i \in 1..(k - 1) \/ i = k
      BY <1>0
    <3>2. QED
      BY <3>1
  <2> HIDE DEF gone
  <2>2. Left(sinks(k - 1), q[k]) = sinks(k)
    <3> DEFINE A == sinks(k - 1)
    <3>1. A = [s \in Slots |-> table[f][s] \ gone(k - 1, s)] /\ sinks(k) = [s \in Slots |-> table[f][s] \ gone(k, s)]
      OBVIOUS
    <3>2. \A s \in Slots : (IF s = q[k].slot THEN A[s] \ {q[k].chan} ELSE A[s]) = table[f][s] \ gone(k, s)
      BY <2>1, <3>1
    <3> HIDE DEF A, sinks
    <3>3. Left(A, q[k]) = [s \in Slots |-> IF s = q[k].slot THEN A[s] \ {q[k].chan} ELSE A[s]]
      BY <2>0, <3>1 DEF Left
    <3>4. Left(A, q[k]) = sinks(k)
      <4>1. Left(A, q[k]) = [s \in Slots |-> table[f][s] \ gone(k, s)]
        BY <3>2, <3>3
      <4>2. QED
        BY <3>1, <4>1
    <3>5. QED
      BY <3>4 DEF A
  <2> HIDE DEF mid, sinks
  <2>3. /\ mid(k - 1) \in Tables /\ mid(k) \in Tables /\ mid(k - 1)[f] = sinks(k - 1) /\ mid(k)[f] = sinks(k)
        /\ \A g \in FlowIds : g # f => mid(k - 1)[g] = table[g] /\ mid(k)[g] = table[g]
        /\ mid(k - 1)[f] # NoSocket
    BY <1>4, <2>0
  <2>4. Fits(mid(k - 1), q[k])
    BY <2>0, <2>3 DEF Fits, Applicable
  <2>5. /\ Executed(mid(k - 1), q[k]) \in Tables
        /\ \A g \in FlowIds : g # f => Executed(mid(k - 1), q[k])[g] = mid(k - 1)[g]
        /\ Executed(mid(k - 1), q[k])[f] = Left(mid(k - 1)[f], q[k])
    BY <2>0, <2>3, ExecutedDisconnect
  <2>6. \A g \in FlowIds : Executed(mid(k - 1), q[k])[g] = mid(k)[g]
    BY <2>2, <2>3, <2>5
  <2>7. QED
    BY <2>3, <2>4, <2>5, <2>6 DEF Tables
<1>6. sinks(0) = table[f]
  <2>1. \A s \in Slots : gone(0, s) = {}
    OBVIOUS
  <2> HIDE DEF gone
  <2>2. QED
    BY <1>3, <2>1
<1>7. sinks(n) = NewSocket
  <2>1. \A s \in Slots : table[f][s] \ gone(n, s) = {}
    BY <1>1
  <2>2. QED
    BY <2>1 DEF NewSocket
<1> HIDE DEF sinks
<1>8. mid(0) = table /\ mid(n) = [table EXCEPT ![f] = NewSocket]
  BY <1>6, <1>7 DEF Tables
<1>9. t \in [1..n + 1 -> Tables]
  <2>1. \A k \in 1..n + 1 : k - 1 \in 0..n
    BY <1>0
  <2> HIDE DEF mid
  <2>2. QED
    BY <1>4, <2>1
<1> HIDE DEF mid
<1>10. t[1] = table /\ t[n + 1] = mid(n)
  <2>1. 1 \in 1..n + 1 /\ n + 1 \in 1..n + 1 /\ 1 - 1 = 0 /\ (n + 1) - 1 = n
    BY <1>0
  <2>2. QED
    BY <1>8, <2>1
<1>11. ASSUME NEW k \in 1..n
       PROVE  Fits(t[k], q[k]) /\ t[k + 1] = Executed(t[k], q[k])
  <2>1. k \in 1..n + 1 /\ k + 1 \in 1..n + 1 /\ (k + 1) - 1 = k
    BY <1>0
  <2>2. t[k] = mid(k - 1) /\ t[k + 1] = mid(k)
    BY <2>1
  <2>3. QED
    BY <1>5, <2>2
<1> HIDE DEF t
<1>12. Leads(q, table, mid(n))
  BY <1>9, <1>10, <1>11 DEF Leads, LeadsAlong, n
<1>13. QED
  BY <1>8, <1>12

-----------------------------------------------------------------------------
(* The invariant *)

Subscriptions == [source : Sources, remote : {NoRemote} \cup [flow : FlowIds, slot : Slots]]
InfoRecord == [source : Sources, status : Status]
FlowRecord ==
    [origin : Origins, refcount : [Slots -> Int],
     tx : [Slots -> Sources \cup {NoSource}], heard : [Slots -> Sources \cup {NoSource}]]
UserCommands ==
    [op : {"Subscribe"}, chan : Channels, source : Sources]
        \cup [op : {"Unsubscribe"}, chan : Channels, source : {NoSource}]
AssignmentRecord == [chan : Channels, flow : FlowIds, slot : Slots, source : Sources]
RequestRecord ==
    [kind : {"update", "create", "join"}, flow : FlowIds, tx : [Slots -> Sources \cup {NoSource}],
     updates : SUBSET AssignmentRecord]
FrontRecord == [info : SUBSET FlowIds, commands : Seq(Commands), poisoned : BOOLEAN]

\* Everything has its type.
RxTypes ==
    /\ front \in FrontRecord /\ sockets \in Tables /\ silence \in SUBSET Channels
    /\ tasks \in Seq(Commands)
InfoTypes == info \in [Channels -> {NoInfo} \cup InfoRecord]
PlanTypes ==
    /\ queue \in Seq(UserCommands)
    /\ channels \in [Channels -> {NoSub} \cup Subscriptions]
    /\ flows \in [FlowIds -> {NoFlow} \cup FlowRecord]
    /\ results \in Seq(SUBSET AssignmentRecord)
    /\ requests \in [Origins -> Seq(RequestRecord)]
    /\ stops \in [Origins -> Seq(FlowIds)]
    /\ at \in {"idle", "batch", "decide", "query", "waiting", "results", "scan", "stop", "stopping"}

\* The requests still to be made, by their places.
Places == {p \in Origins \X Nat : p[2] \in 1..Len(requests[p[1]])}
Asked(p) == requests[p[1]][p[2]]

There(f) == flows[f] # NoFlow
\* A flow that is still to be requested or joined, and one still to be stopped.
Coming(f) == \E p \in Places : Asked(p).kind # "update" /\ Asked(p).flow = f
Leaving(f) == \E o \in Origins : \E k \in 1..Len(stops[o]) : stops[o][k] = f
Ready(f) == There(f) /\ ~Coming(f)

\* What the worker holds in each place it stands at.
PhaseInv ==
    /\ at = "batch" => queue # << >>
    /\ at \notin {"results", "waiting"} => Places = {} /\ results = << >>
    /\ at \notin {"stop", "stopping"} => \A o \in Origins : stops[o] = << >>
    /\ at = "query" => /\ reused = Reused
                       /\ queried = {x \in SourcesOf(Needed) : Peers(x) = {}}

\* A channel is connected to a flow that is there.
ConnectedInv == \A c \in Connected : Ready(channels[c].remote.flow)

\* Assignments that are made at one time: of channels that need them, one each.
ChansOf(batch) == {a.chan : a \in batch}
Sound(batch) ==
    /\ \A a \in batch : a.chan \in Needed /\ a.source = channels[a.chan].source
    /\ \A a, b \in batch : a.chan = b.chan => a = b

\* The results are of flows that are there, and of different channels.
ResultsInv ==
    /\ \A i \in 1..Len(results) : Sound(results[i]) /\ \A a \in results[i] : Ready(a.flow)
    /\ \A i, j \in 1..Len(results) : i # j => ChansOf(results[i]) \cap ChansOf(results[j]) = {}

\* The requests are of different flows and channels.
RequestsInv ==
    /\ \A p \in Places :
          /\ There(Asked(p).flow) /\ flows[Asked(p).flow].origin = p[1]
          /\ Sound(Asked(p).updates)
          /\ \A a \in Asked(p).updates : a.flow = Asked(p).flow
          /\ \A i \in 1..Len(results) : ChansOf(results[i]) \cap ChansOf(Asked(p).updates) = {}
    /\ \A p, r \in Places : p # r =>
          /\ ChansOf(Asked(p).updates) \cap ChansOf(Asked(r).updates) = {}
          /\ Asked(p).flow # Asked(r).flow

\* A flow is stopped once, after it was given up.
StopsInv ==
    /\ \A o \in Origins : \A k \in 1..Len(stops[o]) : ~There(stops[o][k])
    /\ \A o, u \in Origins : \A j \in 1..Len(stops[o]), k \in 1..Len(stops[u]) :
          stops[o][j] = stops[u][k] => o = u /\ j = k

CoreInv == ConnectedInv /\ ResultsInv /\ RequestsInv /\ StopsInv /\ RefcountsAreExact
PlanInv == PlanTypes /\ PhaseInv /\ CoreInv

\* A channel is listed while it is subscribed or about to be.
InfoInv ==
    /\ \A c \in Channels : channels[c] # NoSub => info[c] # NoInfo
    /\ \A i \in 1..Len(queue) : queue[i].op = "Subscribe" => info[queue[i].chan] # NoInfo
    /\ \A i, j \in 1..Len(queue) :
          i < j /\ queue[i].op = "Unsubscribe" /\ queue[j].op = "Subscribe" => queue[i].chan # queue[j].chan

\* Where the sinks will be once all commands are carried out.
SinksAt(f, s) == {c \in Connected : channels[c].remote = Remote(f, s)}
Open(f) == Ready(f) \/ Leaving(f)
Outcome ==
    [f \in FlowIds |-> IF Open(f) THEN [s \in Slots |-> SinksAt(f, s)] ELSE NoSocket]

\* The commands sent and the ones to be sent lead to that: the flows' infos
\* say which sockets there will be between the two.
CommandsInv ==
    /\ \E middle \in Tables :
          /\ Leads(front.commands, sockets, middle)
          /\ Leads(tasks, middle, Outcome)
          /\ \A f \in FlowIds : middle[f] # NoSocket <=> f \in front.info
    /\ \A k \in 1..Len(tasks) : tasks[k].op # "AddSocket"

-----------------------------------------------------------------------------
(* The records *)

LEMMA NoFlowIsNone == NoFlow \notin FlowRecord
<1>1. \A r \in FlowRecord : DOMAIN r = {"origin", "refcount", "tx", "heard"}
  BY DEF FlowRecord
<1>2. DOMAIN NoFlow = {"origin"}
  BY DEF NoFlow
<1>3. QED
  BY <1>1, <1>2

LEMMA NoInfoIsNone ==
    NoInfo \notin InfoRecord
  BY OriginsAssumption DEF NoInfo, InfoRecord

LEMMA NoSubIsNone ==
    /\ NoSub \notin Subscriptions
    /\ \A source \in Sources : Subscription(source, NoRemote) \in Subscriptions
  BY OriginsAssumption DEF NoSub, Subscription, Subscriptions

LEMMA NoRemoteIsNone ==
    /\ NoRemote \notin [flow : FlowIds, slot : Slots]
    /\ \A f \in FlowIds, s \in Slots : Remote(f, s) \in [flow : FlowIds, slot : Slots]
    /\ \A f \in FlowIds, s \in Slots : Remote(f, s) # NoRemote
  BY FlowIdsAssumption DEF NoRemote, Remote, NoSlot

LEMMA SubscriptionIs ==
    ASSUME PlanTypes, NEW c \in Channels
    PROVE  /\ c \in Subscribed => channels[c] \in Subscriptions /\ channels[c].source \in Sources
           /\ c \in Connected => /\ channels[c].remote \in [flow : FlowIds, slot : Slots]
                                 /\ channels[c].remote.flow \in FlowIds
                                 /\ channels[c].remote.slot \in Slots
                                 /\ channels[c].remote = Remote(channels[c].remote.flow, channels[c].remote.slot)
           /\ c \in Needed => channels[c] = Subscription(channels[c].source, NoRemote)
<1>1. channels[c] \in {NoSub} \cup Subscriptions
  BY DEF PlanTypes
<1>2. c \in Subscribed => channels[c] \in Subscriptions /\ channels[c].source \in Sources
  BY <1>1 DEF Subscribed, Subscriptions
<1>3. c \in Connected => channels[c].remote \in [flow : FlowIds, slot : Slots]
  BY <1>1 DEF Subscribed, Connected, Subscriptions
<1>4. \A r \in [flow : FlowIds, slot : Slots] : r.flow \in FlowIds /\ r.slot \in Slots /\ r = Remote(r.flow, r.slot)
  BY DEF Remote
<1>5. c \in Needed => channels[c] = Subscription(channels[c].source, NoRemote)
  BY <1>1 DEF Needed, Connected, Subscribed, Subscriptions, Subscription
<1>6. QED
  BY <1>2, <1>3, <1>4, <1>5

LEMMA ChannelSets == Connected \in SUBSET Channels /\ Needed \in SUBSET Channels /\ Subscribed \in SUBSET Channels
                     /\ Connected \cap Needed = {}
  BY DEF Connected, Needed, Subscribed

LEMMA FlowIs ==
    ASSUME PlanTypes, NEW f \in FlowIds, There(f)
    PROVE  /\ flows[f] \in FlowRecord /\ flows[f].origin \in Origins
           /\ flows[f].refcount \in [Slots -> Int]
           /\ flows[f].tx \in [Slots -> Sources \cup {NoSource}]
           /\ flows[f].heard \in [Slots -> Sources \cup {NoSource}]
  BY DEF PlanTypes, There, FlowRecord

LEMMA AssignmentIs ==
    ASSUME NEW a \in AssignmentRecord
    PROVE  a.chan \in Channels /\ a.flow \in FlowIds /\ a.slot \in Slots /\ a.source \in Sources
  BY DEF AssignmentRecord

LEMMA RequestIs ==
    ASSUME PlanTypes, NEW p \in Places
    PROVE  /\ p[1] \in Origins /\ p[2] \in Nat \ {0} /\ p = <<p[1], p[2]>>
           /\ Asked(p) \in RequestRecord /\ Asked(p).flow \in FlowIds
           /\ Asked(p).updates \in SUBSET AssignmentRecord
           /\ Asked(p).tx \in [Slots -> Sources \cup {NoSource}]
           /\ Asked(p).kind \in {"update", "create", "join"}
<1>1. p[1] \in Origins /\ p[2] \in Nat /\ p = <<p[1], p[2]>> /\ p[2] \in 1..Len(requests[p[1]])
  BY DEF Places
<1>2. requests[p[1]] \in Seq(RequestRecord)
  BY <1>1 DEF PlanTypes
<1>3. Asked(p) \in RequestRecord
  BY <1>1, <1>2, ElementOfSeq DEF Asked
<1>4. QED
  BY <1>1, <1>3 DEF RequestRecord

LEMMA ResultIs ==
    ASSUME PlanTypes, NEW i \in 1..Len(results)
    PROVE  results[i] \in SUBSET AssignmentRecord
  BY ElementOfSeq DEF PlanTypes

LEMMA OutcomeIs == PlanTypes => Outcome \in Tables
  BY ChannelSets DEF Outcome, SinksAt, Tables

-----------------------------------------------------------------------------
(* Steps that leave the plan as it is *)

planVars == <<channels, flows, requests, results, stops>>

LEMMA SetsSame ==
    ASSUME channels' = channels
    PROVE  /\ Subscribed' = Subscribed /\ Connected' = Connected /\ Needed' = Needed
           /\ Reused' = Reused
           /\ {x \in SourcesOf(Needed) : Peers(x) = {}}' = {x \in SourcesOf(Needed) : Peers(x) = {}}
           /\ \A f, s : SinksAt(f, s)' = SinksAt(f, s)
<1>1. Subscribed' = Subscribed
  BY DEF Subscribed
<1>2. Connected' = Connected
  BY <1>1 DEF Connected
<1>3. Needed' = Needed
  BY <1>1, <1>2 DEF Needed
<1>4. \A x : Peers(x)' = Peers(x)
  BY <1>2 DEF Peers
<1>5. \A c, f, s : Assignment(c, f, s)' = Assignment(c, f, s)
  BY DEF Assignment
<1>6. Reused' = Reused
  BY <1>3, <1>4, <1>5 DEF Reused
<1>7. {x \in SourcesOf(Needed) : Peers(x) = {}}' = {x \in SourcesOf(Needed) : Peers(x) = {}}
  BY <1>3, <1>4 DEF SourcesOf
<1>8. \A f, s : SinksAt(f, s)' = SinksAt(f, s)
  BY <1>2 DEF SinksAt
<1>9. QED
  BY <1>1, <1>2, <1>3, <1>6, <1>7, <1>8

LEMMA PlacesSame ==
    ASSUME requests' = requests, flows' = flows, stops' = stops
    PROVE  /\ Places' = Places /\ \A p : Asked(p)' = Asked(p)
           /\ \A f : There(f)' = There(f) /\ Coming(f)' = Coming(f)
                     /\ Ready(f)' = Ready(f) /\ Leaving(f)' = Leaving(f) /\ Open(f)' = Open(f)
<1>1. Places' = Places /\ \A p : Asked(p)' = Asked(p)
  BY DEF Places, Asked
<1>2. \A f : Coming(f)' = Coming(f)
  BY <1>1 DEF Coming
<1>3. \A f : There(f)' = There(f) /\ Ready(f)' = Ready(f)
  BY <1>2 DEF There, Ready
<1>4. \A f : Leaving(f)' = Leaving(f)
  BY DEF Leaving
<1>5. QED
  BY <1>1, <1>2, <1>3, <1>4 DEF Open

LEMMA CoreSame ==
    ASSUME UNCHANGED planVars
    PROVE  CoreInv => CoreInv'
<1>0. channels' = channels /\ flows' = flows /\ requests' = requests /\ results' = results /\ stops' = stops
  BY DEF planVars
<1>1. /\ Subscribed' = Subscribed /\ Connected' = Connected /\ Needed' = Needed
  BY <1>0, SetsSame
<1>2. /\ Places' = Places /\ \A p : Asked(p)' = Asked(p)
      /\ \A f : There(f)' = There(f) /\ Ready(f)' = Ready(f)
  BY <1>0, PlacesSame
<1>3. \A batch : Sound(batch)' <=> Sound(batch)
  BY <1>0, <1>1 DEF Sound
<1>4. ConnectedInv => ConnectedInv'
  BY <1>0, <1>1, <1>2 DEF ConnectedInv
<1>5. ResultsInv => ResultsInv'
  BY <1>0, <1>2, <1>3 DEF ResultsInv
<1>6. RequestsInv => RequestsInv'
  BY <1>0, <1>2, <1>3 DEF RequestsInv
<1>7. StopsInv => StopsInv'
  BY <1>0, <1>2 DEF StopsInv
<1>8. RefcountsAreExact => RefcountsAreExact'
  BY <1>0, <1>1 DEF RefcountsAreExact
<1>9. QED
  BY <1>4, <1>5, <1>6, <1>7, <1>8 DEF CoreInv

LEMMA NothingIsLeft ==
    ASSUME PlanTypes
    PROVE  /\ Outstanding(requests) = {} <=> Places = {}
           /\ requests = NothingPending <=> Places = {}
<1>1. requests \in [Origins -> Seq(RequestRecord)]
  BY DEF PlanTypes
<1>2. \A o \in Origins : requests[o] = << >> <=> Len(requests[o]) = 0
  BY <1>1
<1>3. \A o \in Origins : Len(requests[o]) \in Nat
  BY <1>1
<1>4. ASSUME NEW o \in Origins, requests[o] # << >>
      PROVE  <<o, 1>> \in Places
  BY <1>2, <1>3, <1>4 DEF Places
<1>5. ASSUME NEW p \in Places
      PROVE  requests[p[1]] # << >> /\ p[1] \in Origins
  BY <1>2, <1>5 DEF Places
<1>6. requests = NothingPending <=> \A o \in Origins : requests[o] = << >>
  BY <1>1 DEF NothingPending
<1>7. QED
  BY <1>4, <1>5, <1>6 DEF Outstanding

\* The worker may go on to a place where it holds the same.
LEMMA PhaseSame ==
    ASSUME PlanTypes, PhaseInv, UNCHANGED <<planVars, queried, reused>>, at' = "batch" => queue' # << >>,
           \/ at' = at
           \/ /\ at' # "query"
              /\ at' \notin {"results", "waiting"} => Places = {} /\ results = << >>
              /\ at' \notin {"stop", "stopping"} => \A o \in Origins : stops[o] = << >>
    PROVE  PhaseInv'
<1>0. channels' = channels /\ flows' = flows /\ requests' = requests /\ results' = results /\ stops' = stops
      /\ queried' = queried /\ reused' = reused
  BY DEF planVars
<1>1. Places' = Places /\ Reused' = Reused
      /\ {x \in SourcesOf(Needed) : Peers(x) = {}}' = {x \in SourcesOf(Needed) : Peers(x) = {}}
  BY <1>0, SetsSame, PlacesSame
<1>2. CASE at' = at
  BY <1>0, <1>1, <1>2 DEF PhaseInv
<1>3. CASE at' # at
  BY <1>0, <1>1, <1>3 DEF PhaseInv
<1>4. QED
  BY <1>2, <1>3

QuietStep ==
    \/ User \/ WakeUp \/ SkipResolve \/ ResolveEnds \/ RunTask \/ ClockReady \/ Thread
    \/ UNCHANGED vars

LEMMA QuietPlan ==
    ASSUME PlanInv, QuietStep
    PROVE  PlanInv'
<1> USE DEF PlanInv
<1>1. UNCHANGED <<planVars, queried, reused>>
  BY DEF QuietStep, User, UserSubscribe, UserUnsubscribe, WakeUp, SkipResolve, ResolveEnds, RunTask,
         ClockReady, Thread, subVars, vars, planVars
<1>2. queue' \in Seq(UserCommands)
  <2>1. queue \in Seq(UserCommands)
    BY DEF PlanTypes
  <2>2. CASE queue' = queue
    BY <2>1, <2>2
  <2>3. ASSUME NEW c \in Channels, NEW x \in Sources, UserSubscribe(c, x)
        PROVE  queue' \in Seq(UserCommands)
    <3>1. UserCommand("Subscribe", c, x) \in UserCommands
      BY DEF UserCommand, UserCommands
    <3>2. QED
      BY <2>1, <2>3, <3>1 DEF UserSubscribe
  <2>4. ASSUME NEW c \in Channels, UserUnsubscribe(c)
        PROVE  queue' \in Seq(UserCommands)
    <3>1. UserCommand("Unsubscribe", c, NoSource) \in UserCommands
      BY DEF UserCommand, UserCommands
    <3>2. QED
      BY <2>1, <2>4, <3>1 DEF UserUnsubscribe
  <2>5. User \/ queue' = queue
    BY DEF QuietStep, WakeUp, SkipResolve, ResolveEnds, RunTask, ClockReady, Thread, subVars, vars
  <2>6. QED
    BY <2>2, <2>3, <2>4, <2>5 DEF User
<1>3. at' = at \/ WakeUp \/ SkipResolve \/ ResolveEnds
  BY DEF QuietStep, User, UserSubscribe, UserUnsubscribe, RunTask, ClockReady, Thread, subVars, vars
<1>4. PlanTypes'
  <2>1. at' \in {"idle", "batch", "decide", "query", "waiting", "results", "scan", "stop", "stopping"}
    BY <1>3 DEF PlanTypes, WakeUp, SkipResolve, ResolveEnds
  <2>2. QED
    BY <1>1, <1>2, <2>1 DEF PlanTypes, planVars
<1>5. CoreInv'
  BY <1>1, CoreSame
<1>6. PhaseInv'
  <2>0. at' = "batch" => queue' # << >>
    <3>1. queue' = queue \/ \E command : queue' = Append(queue, command)
      BY DEF QuietStep, User, UserSubscribe, UserUnsubscribe, WakeUp, SkipResolve, ResolveEnds, RunTask,
             ClockReady, Thread, subVars, vars
    <3>2. queue # << >> => queue' # << >>
      <4>1. queue \in Seq(UserCommands)
        BY DEF PlanTypes
      <4>2. \A command : Len(Append(queue, command)) = Len(queue) + 1 /\ Len(queue) \in Nat
        BY <4>1
      <4>3. \A command : Append(queue, command) # << >>
        BY <4>2
      <4>4. QED
        BY <3>1, <4>3
    <3>3. CASE at' = at
      BY <3>2, <3>3 DEF PhaseInv
    <3>4. CASE at' # at
      <4>1. at' = "batch" => queue # << >>
        BY <1>3, <3>4 DEF WakeUp, SkipResolve, ResolveEnds
      <4>2. QED
        BY <3>2, <4>1
    <3>5. QED
      BY <3>3, <3>4
  <2>1. CASE at' = at
    BY <1>1, <2>0, <2>1, PhaseSame
  <2>2. CASE WakeUp \/ SkipResolve
    <3>1. at' # "query" /\ at \in {"idle", "decide"}
      BY <2>2 DEF WakeUp, SkipResolve
    <3>2. Places = {} /\ results = << >> /\ \A o \in Origins : stops[o] = << >>
      BY <3>1 DEF PhaseInv
    <3>3. QED
      BY <1>1, <2>0, <3>1, <3>2, PhaseSame
  <2>3. CASE ResolveEnds
    <3>1. at = "waiting" /\ at' = "scan" /\ results = << >> /\ Outstanding(requests) = {}
      BY <2>3 DEF ResolveEnds
    <3>2. Places = {} /\ \A o \in Origins : stops[o] = << >>
      BY <3>1, NothingIsLeft DEF PhaseInv
    <3>3. QED
      BY <1>1, <2>0, <3>1, <3>2, PhaseSame
  <2>4. QED
    BY <1>3, <2>1, <2>2, <2>3
<1>7. QED
  BY <1>4, <1>5, <1>6

-----------------------------------------------------------------------------
(* The steps of the plan *)

\* What is assigned beside a channel's peers is received.
LEMMA ReusedIs ==
    ASSUME PlanTypes, ConnectedInv
    PROVE  /\ Reused \in SUBSET AssignmentRecord /\ Sound(Reused)
           /\ \A a \in Reused : Ready(a.flow) /\ Peers(a.source) # {}
<1>1. ASSUME NEW c \in Needed, Peers(channels[c].source) # {}
      PROVE  LET remote == channels[Min(Peers(channels[c].source))].remote
                 a == Assignment(c, remote.flow, remote.slot)
             IN  /\ a \in AssignmentRecord /\ a.chan = c /\ a.source = channels[c].source
                 /\ Ready(a.flow)
  <2> DEFINE d == Min(Peers(channels[c].source))
  <2>1. Peers(channels[c].source) \in SUBSET Nat
    BY ChannelsAssumption, ChannelSets DEF Peers
  <2>2. d \in Peers(channels[c].source)
    BY <1>1, <2>1, MinOf
  <2>3. d \in Connected /\ d \in Channels /\ c \in Channels /\ c \in Subscribed
    BY <2>2, ChannelSets DEF Peers, Needed
  <2> HIDE DEF d
  <2>4. channels[d].remote.flow \in FlowIds /\ channels[d].remote.slot \in Slots /\ channels[c].source \in Sources
    BY <2>3, SubscriptionIs
  <2>5. Ready(channels[d].remote.flow)
    BY <2>3 DEF ConnectedInv
  <2>6. Assignment(c, channels[d].remote.flow, channels[d].remote.slot) \in AssignmentRecord
    BY <2>3, <2>4 DEF Assignment, AssignmentRecord
  <2>7. QED
    BY <2>5, <2>6 DEF Assignment, d
<1>2. ASSUME NEW a \in Reused
      PROVE  \E c \in Needed :
                /\ Peers(channels[c].source) # {}
                /\ a = Assignment(c, channels[Min(Peers(channels[c].source))].remote.flow,
                                  channels[Min(Peers(channels[c].source))].remote.slot)
  BY <1>2 DEF Reused
<1>3. \A a \in Reused : /\ a \in AssignmentRecord /\ a.chan \in Needed /\ a.source = channels[a.chan].source
                        /\ Ready(a.flow) /\ Peers(a.source) # {}
  BY <1>1, <1>2
<1>4. \A a, b \in Reused : a.chan = b.chan => a = b
  <2> SUFFICES ASSUME NEW a \in Reused, NEW b \in Reused, a.chan = b.chan
               PROVE  a = b
    OBVIOUS
  <2>1. PICK c \in Needed :
            a = Assignment(c, channels[Min(Peers(channels[c].source))].remote.flow,
                           channels[Min(Peers(channels[c].source))].remote.slot)
    BY <1>2
  <2>2. PICK d \in Needed :
            b = Assignment(d, channels[Min(Peers(channels[d].source))].remote.flow,
                           channels[Min(Peers(channels[d].source))].remote.slot)
    BY <1>2
  <2>3. a.chan = c /\ b.chan = d
    BY <2>1, <2>2 DEF Assignment
  <2>4. QED
    BY <2>1, <2>2, <2>3
<1>5. QED
  BY <1>3, <1>4 DEF Sound

LEMMA SoundSame ==
    ASSUME channels' = channels
    PROVE  \A batch : Sound(batch)' <=> Sound(batch)
  BY SetsSame DEF Sound

LEMMA NoPlaces ==
    ASSUME Places = {}
    PROVE  RequestsInv /\ \A f : Ready(f) <=> There(f)
  BY DEF RequestsInv, Ready, Coming

LEMMA ResolvePlan ==
    ASSUME PlanInv, Resolve
    PROVE  PlanInv'
<1> USE DEF PlanInv
<1>1. channels' = channels /\ flows' = flows /\ requests' = requests /\ stops' = stops /\ queue' = queue
  BY DEF Resolve
<1>2. at = "decide" /\ Places = {} /\ results = << >> /\ \A o \in Origins : stops[o] = << >>
  BY DEF Resolve, PhaseInv
<1>3. \/ at' = "results" /\ results' = <<Reused>>
      \/ /\ at' = "query" /\ results' = results /\ reused' = Reused
         /\ queried' = {x \in SourcesOf(Needed) : Peers(x) = {}}
  BY DEF Resolve
<1>4. Reused \in SUBSET AssignmentRecord /\ Sound(Reused) /\ \A a \in Reused : Ready(a.flow)
  BY ReusedIs DEF CoreInv
<1>5. /\ Subscribed' = Subscribed /\ Connected' = Connected /\ Needed' = Needed /\ Reused' = Reused
      /\ {x \in SourcesOf(Needed) : Peers(x) = {}}' = {x \in SourcesOf(Needed) : Peers(x) = {}}
      /\ Places' = Places /\ \A f : There(f)' = There(f) /\ Ready(f)' = Ready(f)
  BY <1>1, SetsSame, PlacesSame
<1>6. results' \in Seq(SUBSET AssignmentRecord)
  <2>1. results \in Seq(SUBSET AssignmentRecord)
    BY DEF PlanTypes
  <2>2. <<Reused>> \in Seq(SUBSET AssignmentRecord)
    BY <1>4
  <2>3. QED
    BY <1>3, <2>1, <2>2
<1>7. PlanTypes'
  <2>1. at' \in {"idle", "batch", "decide", "query", "waiting", "results", "scan", "stop", "stopping"}
    BY <1>3
  <2>2. QED
    BY <1>1, <1>6, <2>1 DEF PlanTypes
<1>8. PhaseInv'
  BY <1>1, <1>2, <1>3, <1>5 DEF PhaseInv
<1>9. CoreInv'
  <2>1. CASE results' = results
    BY <1>1, <2>1, CoreSame DEF planVars
  <2>2. CASE results' = <<Reused>>
    <3>1. ConnectedInv'
      BY <1>1, <1>5 DEF CoreInv, ConnectedInv
    <3>2. ResultsInv'
      <4>1. Len(results') = 1 /\ results'[1] = Reused
        BY <2>2
      <4>2. Sound(Reused)'
        BY <1>1, <1>4, <1>5, SoundSame
      <4>3. \A i \in 1..Len(results') : i = 1
        BY <4>1
      <4>4. \A i \in 1..Len(results') : results'[i] = Reused
        BY <4>1, <4>3
      <4>5. \A a \in Reused : Ready(a.flow)'
        BY <1>4, <1>5
      <4> HIDE DEF PlanInv
      <4>6. \A i \in 1..Len(results') : Sound(results[i])' /\ \A a \in results'[i] : Ready(a.flow)'
        BY <4>2, <4>4, <4>5, <2>2, <1>5 
      <4>7. QED
        BY <4>3, <4>6 DEF ResultsInv
    <3>3. RequestsInv'
      BY <1>2, <1>5 DEF RequestsInv
    <3>4. StopsInv'
      BY <1>1, <1>5 DEF CoreInv, StopsInv
    <3>5. RefcountsAreExact'
      BY <1>1, <1>5 DEF CoreInv, RefcountsAreExact
    <3>6. QED
      BY <3>1, <3>2, <3>3, <3>4, <3>5 DEF CoreInv
  <2>3. QED
    BY <1>3, <2>1, <2>2
<1>10. QED
  BY <1>7, <1>8, <1>9

\* What StopFlows and StopReply leave of the flows to be stopped.
LEMMA StopPlan ==
    ASSUME PlanInv, (\E unreachable \in SUBSET Origins : StopFlows(unreachable)) \/ \E o \in Origins : StopReply(o)
    PROVE  PlanInv'
<1> USE DEF PlanInv
<1>1. /\ channels' = channels /\ flows' = flows /\ requests' = requests /\ results' = results
      /\ queue' = queue /\ queried' = queried /\ reused' = reused
  BY DEF StopFlows, StopReply, environment
<1>2. stops \in [Origins -> Seq(FlowIds)]
  BY DEF PlanTypes
<1>3. /\ stops' \in [Origins -> Seq(FlowIds)]
      /\ \A o \in Origins : \/ stops'[o] = << >>
                            \/ stops'[o] = stops[o]
                            \/ stops[o] # << >> /\ stops'[o] = Tail(stops[o])
  <2>1. CASE \E unreachable \in SUBSET Origins : StopFlows(unreachable)
    <3>1. PICK unreachable \in SUBSET Origins : StopFlows(unreachable)
      BY <2>1
    <3>2. stops' = [o \in Origins |-> IF o \in unreachable THEN << >> ELSE stops[o]]
      BY <3>1 DEF StopFlows
    <3>3. QED
      BY <1>2, <3>2
  <2>2. CASE \E o \in Origins : StopReply(o)
    <3>1. PICK o \in Origins : StopReply(o)
      BY <2>2
    <3>2. stops[o] # << >> /\ stops' = [stops EXCEPT ![o] = Tail(@)]
      BY <3>1 DEF StopReply
    <3>3. Tail(stops[o]) \in Seq(FlowIds)
      BY <1>2, <3>2
    <3>4. QED
      BY <1>2, <3>2, <3>3
  <2>3. QED
    BY <2>1, <2>2
<1>4. at \in {"stop", "stopping"} /\ (at' = "stopping" \/ (at' = Pause /\ stops' = NothingPending))
  BY DEF StopFlows, StopReply
<1>5. at' \in {"stopping", "idle", "batch"} /\ (at' # "stopping" => \A o \in Origins : stops'[o] = << >>)
      /\ (at' = "batch" => queue' # << >>)
  BY <1>1, <1>4 DEF Pause, NothingPending
<1>6. Places = {} /\ results = << >> /\ Places' = Places
  BY <1>1, <1>4 DEF PhaseInv, Places
<1>7. Subscribed' = Subscribed /\ Connected' = Connected /\ Needed' = Needed
  BY <1>1, SetsSame
<1>8. PlanTypes'
  BY <1>1, <1>3, <1>5 DEF PlanTypes
<1>9. PhaseInv'
  BY <1>1, <1>5, <1>6 DEF PhaseInv
<1>10. ConnectedInv'
  BY <1>1, <1>6, <1>7 DEF CoreInv, ConnectedInv, Ready, There, Coming
<1>11. ResultsInv'
  BY <1>1, <1>6 DEF ResultsInv
<1>12. RequestsInv'
  BY <1>6 DEF RequestsInv
<1>13. RefcountsAreExact'
  BY <1>1, <1>7 DEF CoreInv, RefcountsAreExact
<1>14. StopsInv'
  <2>1. ASSUME NEW o \in Origins, NEW k \in 1..Len(stops'[o])
        PROVE  \E d \in {0, 1} : /\ k + d \in 1..Len(stops[o]) /\ stops'[o][k] = stops[o][k + d]
                                 /\ d = IF stops'[o] = stops[o] THEN 0 ELSE 1
    <3>1. CASE stops'[o] = stops[o]
      BY <3>1
    <3>2. CASE stops'[o] = << >>
      BY <3>2
    <3>3. CASE stops[o] # << >> /\ stops'[o] = Tail(stops[o])
      <4>1. stops[o] \in Seq(FlowIds) /\ Len(Tail(stops[o])) = Len(stops[o]) - 1 /\ Len(stops[o]) \in Nat
        BY <1>2, <3>3
      <4>2. stops'[o] # stops[o]
        <5>1. Len(stops'[o]) # Len(stops[o])
          BY <3>3, <4>1
        <5>2. QED
          BY <5>1
      <4>3. k \in 1..Len(stops[o]) - 1
        BY <3>3, <4>1
      <4>4. k + 1 \in 1..Len(stops[o]) /\ Tail(stops[o])[k] = stops[o][k + 1]
        BY <4>1, <4>3
      <4>5. QED
        BY <3>3, <4>2, <4>4
    <3>4. QED
      BY <1>3, <3>1, <3>2, <3>3
  <2>2. \A o \in Origins : \A k \in 1..Len(stops'[o]) : ~There(stops[o][k])'
    <3> SUFFICES ASSUME NEW o \in Origins, NEW k \in 1..Len(stops'[o])
                 PROVE  ~There(stops[o][k])'
      OBVIOUS
    <3>1. PICK d \in {0, 1} : k + d \in 1..Len(stops[o]) /\ stops'[o][k] = stops[o][k + d]
      BY <2>1
    <3>2. ~There(stops[o][k + d])
      BY <3>1 DEF CoreInv, StopsInv
    <3>3. QED
      BY <1>1, <3>1, <3>2 DEF There
  <2>3. ASSUME NEW o \in Origins, NEW u \in Origins,
               NEW j \in 1..Len(stops'[o]), NEW k \in 1..Len(stops'[u]), stops'[o][j] = stops'[u][k]
        PROVE  o = u /\ j = k
    <3>1. PICK d \in {0, 1} : /\ j + d \in 1..Len(stops[o]) /\ stops'[o][j] = stops[o][j + d]
                              /\ d = IF stops'[o] = stops[o] THEN 0 ELSE 1
      BY <2>1
    <3>2. PICK e \in {0, 1} : /\ k + e \in 1..Len(stops[u]) /\ stops'[u][k] = stops[u][k + e]
                              /\ e = IF stops'[u] = stops[u] THEN 0 ELSE 1
      BY <2>1
    <3>3. o = u /\ j + d = k + e
      <4>1. stops[o][j + d] = stops[u][k + e]
        BY <2>3, <3>1, <3>2
      <4>2. QED
        BY <3>1, <3>2, <4>1 DEF CoreInv, StopsInv
    <3>4. d = e
      BY <3>1, <3>2, <3>3
    <3>5. j \in Int /\ k \in Int /\ d \in Int /\ e \in Int
      OBVIOUS
    <3>6. QED
      BY <3>3, <3>4, <3>5
  <2>4. QED
    BY <2>2, <2>3 DEF StopsInv
<1>15. QED
  BY <1>8, <1>9, <1>10, <1>11, <1>12, <1>13, <1>14 DEF CoreInv

-----------------------------------------------------------------------------
(* Answers *)

\* Where the request at place p was before the first one of o was answered.
Behind(o, p) == IF p[1] = o THEN <<o, p[2] + 1>> ELSE p

LEMMA AnsweredPlaces ==
    ASSUME PlanTypes, NEW o \in Origins, requests[o] # << >>, Answered(o)
    PROVE  /\ requests' \in [Origins -> Seq(RequestRecord)]
           /\ <<o, 1>> \in Places /\ Asked(<<o, 1>>) = Head(requests[o])
           /\ \A p \in Places' : /\ Behind(o, p) \in Places /\ Behind(o, p) # <<o, 1>>
                                 /\ Behind(o, p)[1] = p[1]
                                 /\ Asked(p)' = Asked(Behind(o, p))
           /\ \A p \in Places : p # <<o, 1>> => \E r \in Places' : Behind(o, r) = p
           /\ \A p, r \in Places' : Behind(o, p) = Behind(o, r) => p = r
<1>1. requests \in [Origins -> Seq(RequestRecord)]
  BY DEF PlanTypes
<1>2. requests[o] \in Seq(RequestRecord) /\ Len(requests[o]) \in Nat /\ Len(requests[o]) >= 1
      /\ Len(Tail(requests[o])) = Len(requests[o]) - 1
      /\ \A k \in 1..Len(requests[o]) - 1 : Tail(requests[o])[k] = requests[o][k + 1]
      /\ Tail(requests[o]) \in Seq(RequestRecord) /\ Head(requests[o]) = requests[o][1]
  BY <1>1
<1>3. requests' = [requests EXCEPT ![o] = Tail(@)]
  BY DEF Answered
<1>4. requests' \in [Origins -> Seq(RequestRecord)] /\ requests'[o] = Tail(requests[o])
      /\ \A u \in Origins : u # o => requests'[u] = requests[u]
  BY <1>1, <1>2, <1>3
<1>5. <<o, 1>> \in Places /\ Asked(<<o, 1>>) = Head(requests[o])
  BY <1>2 DEF Places, Asked
<1>6. ASSUME NEW p \in Places'
      PROVE  /\ p[1] \in Origins /\ p[2] \in Nat /\ p = <<p[1], p[2]>> /\ p[2] \in 1..Len(requests'[p[1]])
             /\ Behind(o, p) \in Places /\ Behind(o, p) # <<o, 1>> /\ Behind(o, p)[1] = p[1]
             /\ Asked(p)' = Asked(Behind(o, p))
  <2>1. p[1] \in Origins /\ p[2] \in Nat /\ p = <<p[1], p[2]>> /\ p[2] \in 1..Len(requests'[p[1]])
    BY <1>6 DEF Places
  <2>2. CASE p[1] = o
    <3>1. Behind(o, p) = <<o, p[2] + 1>> /\ p[2] + 1 \in 1..Len(requests[o]) /\ p[2] \in 1..Len(requests[o]) - 1
      BY <1>2, <1>4, <2>1, <2>2 DEF Behind
    <3>2. <<o, p[2] + 1>> \in Places /\ <<o, p[2] + 1>> # <<o, 1>>
      BY <2>1, <3>1 DEF Places
    <3>3. Asked(p)' = requests[o][p[2] + 1]
      BY <1>2, <1>4, <2>2, <3>1 DEF Asked
    <3>4. QED
      BY <2>1, <2>2, <3>1, <3>2, <3>3 DEF Asked
  <2>3. CASE p[1] # o
    <3>1. Behind(o, p) = p /\ requests'[p[1]] = requests[p[1]]
      BY <1>4, <2>1, <2>3 DEF Behind
    <3>2. p \in Places /\ p # <<o, 1>>
      BY <2>1, <2>3, <3>1 DEF Places
    <3>3. QED
      BY <2>1, <3>1, <3>2 DEF Asked
  <2>4. QED
    BY <2>2, <2>3
<1>7. ASSUME NEW p \in Places, p # <<o, 1>>
      PROVE  \E r \in Places' : Behind(o, r) = p
  <2>1. p[1] \in Origins /\ p[2] \in Nat /\ p = <<p[1], p[2]>> /\ p[2] \in 1..Len(requests[p[1]])
    BY DEF Places
  <2>2. CASE p[1] = o
    <3>1. p[2] # 1 /\ p[2] - 1 \in Nat /\ (p[2] - 1) + 1 = p[2] /\ p[2] - 1 \in 1..Len(requests'[o])
      BY <1>2, <1>4, <1>7, <2>1, <2>2
    <3>2. <<o, p[2] - 1>> \in Places'
      BY <3>1 DEF Places
    <3>3. Behind(o, <<o, p[2] - 1>>) = <<o, p[2]>>
      BY <3>1 DEF Behind
    <3>4. QED
      BY <2>1, <2>2, <3>2, <3>3
  <2>3. CASE p[1] # o
    <3>1. p \in Places' /\ Behind(o, p) = p
      BY <1>4, <2>1, <2>3 DEF Places, Behind
    <3>2. QED
      BY <3>1
  <2>4. QED
    BY <2>2, <2>3
<1>8. ASSUME NEW p \in Places', NEW r \in Places', Behind(o, p) = Behind(o, r)
      PROVE  p = r
  <2>1. p[1] = r[1] /\ p = <<p[1], p[2]>> /\ r = <<r[1], r[2]>> /\ p[2] \in Nat /\ r[2] \in Nat
    BY <1>6, <1>8
  <2>2. CASE p[1] = o
    <3>1. Behind(o, p)[2] = p[2] + 1 /\ Behind(o, r)[2] = r[2] + 1
      BY <2>1, <2>2 DEF Behind
    <3>2. p[2] + 1 = r[2] + 1
      BY <1>8, <3>1
    <3>3. p[2] = r[2]
      BY <2>1, <3>2
    <3>4. QED
      BY <2>1, <3>3
  <2>3. CASE p[1] # o
    BY <1>8, <2>1, <2>3 DEF Behind
  <2>4. QED
    BY <2>2, <2>3
<1>9. QED
  BY <1>4, <1>5, <1>6, <1>7, <1>8

\* The request that is answered first goes into the results, or is given up.
LEMMA AnswerPlan ==
    ASSUME PlanInv, NEW o \in Origins, Asking(o), Answered(o),
           NEW f, f = Head(requests[o]).flow,
           UNCHANGED <<channels, stops, queue, queried, reused, at>>,
           flows' \in [FlowIds -> {NoFlow} \cup FlowRecord],
           \A g \in FlowIds : g # f => flows'[g] = flows[g],
           \/ /\ There(f)' /\ flows'[f].origin = flows[f].origin /\ flows'[f].refcount = flows[f].refcount
              /\ results' = results \/ results' = Append(results, Head(requests[o]).updates)
           \/ /\ Head(requests[o]).kind # "update"
              /\ ~There(f)' /\ results' = results
    PROVE  /\ PlanInv' /\ There(f) /\ f \in FlowIds
           /\ \A g \in FlowIds : g # f => (Ready(g)' <=> Ready(g))
           /\ Ready(f)' <=> There(f)'
           /\ Ready(f) <=> Head(requests[o]).kind = "update"
<1> USE DEF PlanInv
<1> DEFINE first == <<o, 1>>
           r == Asked(first)
<1>1. at = "waiting" /\ requests[o] # << >>
  BY DEF Asking
<1>2. /\ requests' \in [Origins -> Seq(RequestRecord)]
      /\ first \in Places /\ r = Head(requests[o])
  BY <1>1, AnsweredPlaces
<1>3. \A p \in Places' : /\ Behind(o, p) \in Places /\ Behind(o, p) # first
                         /\ Behind(o, p)[1] = p[1]
                         /\ Asked(p)' = Asked(Behind(o, p))
  BY <1>1, AnsweredPlaces
<1>4. \A p \in Places : p # first => \E q \in Places' : Behind(o, q) = p
  BY <1>1, AnsweredPlaces
<1>5. \A p, q \in Places' : Behind(o, p) = Behind(o, q) => p = q
  BY <1>1, AnsweredPlaces
<1>6. r.flow = f /\ f \in FlowIds /\ r.updates \in SUBSET AssignmentRecord /\ first[1] = o
  BY <1>2, RequestIs
<1> HIDE DEF first, r
<1>7. /\ There(f) /\ flows[f].origin = o /\ Sound(r.updates) /\ \A a \in r.updates : a.flow = f
      /\ \A i \in 1..Len(results) : ChansOf(results[i]) \cap ChansOf(r.updates) = {}
  BY <1>2, <1>6 DEF CoreInv, RequestsInv, r
<1>9. \A p \in Places' : /\ Asked(Behind(o, p)).flow # f /\ Asked(Behind(o, p)).flow \in FlowIds
                         /\ ChansOf(Asked(Behind(o, p)).updates) \cap ChansOf(r.updates) = {}
  <2> SUFFICES ASSUME NEW p \in Places'
               PROVE  /\ Asked(Behind(o, p)).flow # f /\ Asked(Behind(o, p)).flow \in FlowIds
                      /\ ChansOf(Asked(Behind(o, p)).updates) \cap ChansOf(r.updates) = {}
    OBVIOUS
  <2>1. Behind(o, p) \in Places /\ Behind(o, p) # first
    BY <1>3
  <2> DEFINE b == Behind(o, p)
  <2>2. b \in Places /\ b # first
    BY <2>1
  <2> HIDE DEF b
  <2>3. Asked(b).flow # Asked(first).flow /\ ChansOf(Asked(b).updates) \cap ChansOf(Asked(first).updates) = {}
    BY <1>2, <2>2 DEF CoreInv, RequestsInv
  <2>4. Asked(b).flow \in FlowIds
    BY <2>2, RequestIs
  <2>5. QED
    BY <1>6, <2>3, <2>4 DEF b, r
<1>10. \A g \in FlowIds : g # f => (Coming(g)' <=> Coming(g))
  <2> SUFFICES ASSUME NEW g \in FlowIds, g # f
               PROVE  Coming(g)' <=> Coming(g)
    OBVIOUS
  <2>1. ASSUME Coming(g)
        PROVE  Coming(g)'
    <3>1. PICK p \in Places : Asked(p).kind # "update" /\ Asked(p).flow = g
      BY <2>1 DEF Coming
    <3>2. p # first
      BY <1>6, <3>1 DEF r
    <3>3. PICK q \in Places' : Behind(o, q) = p
      BY <1>4, <3>2
    <3>4. Asked(q)' = Asked(p)
      BY <1>3, <3>3
    <3>5. QED
      BY <3>1, <3>4 DEF Coming
  <2>2. ASSUME Coming(g)'
        PROVE  Coming(g)
    <3>1. PICK p \in Places' : Asked(p)'.kind # "update" /\ Asked(p)'.flow = g
      BY <2>2 DEF Coming
    <3>2. QED
      BY <1>3, <3>1 DEF Coming
  <2>3. QED
    BY <2>1, <2>2
<1>11. ~Coming(f)'
  <2> SUFFICES ASSUME Coming(f)'
               PROVE  FALSE
    OBVIOUS
  <2>1. PICK p \in Places' : Asked(p)'.flow = f
    BY DEF Coming
  <2>2. QED
    BY <1>3, <1>9, <2>1
<1>12. Coming(f) <=> r.kind # "update"
  <2>1. r.kind # "update" => Coming(f)
    BY <1>2, <1>6 DEF Coming, r
  <2>2. ASSUME Coming(f)
        PROVE  r.kind # "update"
    <3>1. PICK p \in Places : Asked(p).kind # "update" /\ Asked(p).flow = f
      BY <2>2 DEF Coming
    <3>2. p = first
      BY <1>2, <1>6, <3>1 DEF CoreInv, RequestsInv, r
    <3>3. QED
      BY <3>1, <3>2 DEF r
  <2>3. QED
    BY <2>1, <2>2
<1>13. \A g \in FlowIds : g # f => (There(g)' <=> There(g)) /\ (Ready(g)' <=> Ready(g))
  BY <1>10 DEF There, Ready
<1>14. Ready(f)' <=> There(f)'
  BY <1>11 DEF Ready
<1>15. Ready(f) <=> r.kind = "update"
  BY <1>7, <1>12 DEF Ready
<1>16. \A g \in FlowIds : Ready(g) => Ready(g)'
  BY <1>13, <1>14, <1>15, <1>2
<1>17. channels' = channels /\ stops' = stops /\ queue' = queue /\ queried' = queried /\ reused' = reused /\ at' = at
  OBVIOUS
<1>18. Connected' = Connected
  BY <1>17, SetsSame
<1>19. \A batch : Sound(batch)' <=> Sound(batch)
  BY <1>17, SoundSame
<1>20. results \in Seq(SUBSET AssignmentRecord)
  BY DEF PlanTypes
<1>21. PlanTypes'
  <2>1. results' \in Seq(SUBSET AssignmentRecord)
    <3>1. results' = results \/ results' = Append(results, r.updates)
      BY <1>2
    <3>2. QED
      BY <1>6, <1>20, <3>1
  <2>2. QED
    BY <1>2, <1>17, <2>1 DEF PlanTypes
<1>22. PhaseInv'
  BY <1>1, <1>17 DEF PhaseInv
<1>23. ConnectedInv'
  <2> SUFFICES ASSUME NEW c \in Connected
               PROVE  Ready(channels[c].remote.flow)'
    BY <1>17, <1>18 DEF ConnectedInv
  <2>1. Ready(channels[c].remote.flow) /\ channels[c].remote.flow \in FlowIds
    BY ChannelSets, SubscriptionIs DEF CoreInv, ConnectedInv
  <2>2. QED
    BY <1>16, <1>17, <2>1
<1>24. /\ \A i \in 1..Len(results') :
             \/ /\ i \in 1..Len(results) /\ results'[i] = results[i]
             \/ /\ results' = Append(results, r.updates) /\ i = Len(results) + 1 /\ results'[i] = r.updates
                /\ There(f)'
  <2>1. results' = results \/ (results' = Append(results, r.updates) /\ There(f)')
    BY <1>2
  <2>2. CASE results' = results
    BY <2>2
  <2>3. CASE results' = Append(results, r.updates) /\ There(f)'
    <3>1. /\ Len(results) \in Nat /\ Len(results') = Len(results) + 1
          /\ results'[Len(results) + 1] = r.updates
          /\ \A i \in 1..Len(results) : results'[i] = results[i]
      BY <1>20, <2>3
    <3>2. \A i \in 1..Len(results') : i \in 1..Len(results) \/ i = Len(results) + 1
      BY <3>1
    <3>3. QED
      BY <2>3, <3>1, <3>2
  <2>4. QED
    BY <2>1, <2>2, <2>3
<1>25. ResultsInv'
  <2>1. ASSUME NEW i \in 1..Len(results')
        PROVE  Sound(results[i])' /\ \A a \in results'[i] : Ready(a.flow)'
    <3>1. CASE i \in 1..Len(results) /\ results'[i] = results[i]
      <4>1. Sound(results[i]) /\ \A a \in results[i] : Ready(a.flow)
        BY <3>1 DEF CoreInv, ResultsInv
      <4>2. \A a \in results[i] : a.flow \in FlowIds
        <5>1. results[i] \in SUBSET AssignmentRecord
          BY <3>1, ResultIs
        <5>2. QED
          BY <5>1, AssignmentIs
      <4>3. QED
        BY <1>16, <1>19, <3>1, <4>1, <4>2
    <3>2. CASE results'[i] = r.updates /\ There(f)'
      <4>1. \A batch : batch = r.updates => Sound(batch)'
        BY <1>7, <1>19
      <4>2. Sound(results[i])'
        BY <3>2, <4>1
      <4>3. \A a \in results'[i] : a.flow = f
        BY <1>7, <3>2
      <4>4. Ready(f)'
        BY <1>14, <3>2
      <4>5. \A a \in results'[i] : Ready(a.flow)'
        BY <4>3, <4>4
      <4>6. QED
        BY <4>2, <4>5
    <3>3. QED
      BY <1>24, <3>1, <3>2
  <2>2. ASSUME NEW i \in 1..Len(results'), NEW j \in 1..Len(results'), i # j
        PROVE  ChansOf(results[i])' \cap ChansOf(results[j])' = {}
    <3>1. CASE i \in 1..Len(results) /\ results'[i] = results[i] /\ j \in 1..Len(results) /\ results'[j] = results[j]
      BY <2>2, <3>1 DEF CoreInv, ResultsInv, ChansOf
    <3>2. CASE i \in 1..Len(results) /\ results'[i] = results[i] /\ results'[j] = r.updates
      BY <1>7, <3>2 DEF ChansOf
    <3>3. CASE j \in 1..Len(results) /\ results'[j] = results[j] /\ results'[i] = r.updates
      BY <1>7, <3>3 DEF ChansOf
    <3>4. QED
      BY <1>24, <2>2, <3>1, <3>2, <3>3
  <2>3. QED
    BY <2>1, <2>2 DEF ResultsInv
<1>26. RequestsInv'
  <2>1. ASSUME NEW p \in Places'
        PROVE  /\ There(Asked(p).flow)' /\ flows'[Asked(p)'.flow].origin = p[1]
               /\ Sound(Asked(p).updates)'
               /\ \A a \in Asked(p)'.updates : a.flow = Asked(p)'.flow
               /\ \A i \in 1..Len(results') : ChansOf(results[i])' \cap ChansOf(Asked(p).updates)' = {}
    <3> DEFINE b == Behind(o, p)
    <3>1. b \in Places /\ b # first /\ b[1] = p[1] /\ Asked(p)' = Asked(b)
      BY <1>3
    <3>2. Asked(b).flow # f /\ Asked(b).flow \in FlowIds /\ ChansOf(Asked(b).updates) \cap ChansOf(r.updates) = {}
      BY <1>9
    <3> HIDE DEF b
    <3>3. /\ There(Asked(b).flow) /\ flows[Asked(b).flow].origin = p[1]
          /\ Sound(Asked(b).updates)
          /\ \A a \in Asked(b).updates : a.flow = Asked(b).flow
          /\ \A i \in 1..Len(results) : ChansOf(results[i]) \cap ChansOf(Asked(b).updates) = {}
      BY <3>1 DEF CoreInv, RequestsInv
    <3>4. There(Asked(p).flow)' /\ flows'[Asked(b).flow] = flows[Asked(b).flow]
      <4>1. \A g \in FlowIds : g # f => flows'[g] = flows[g]
        OBVIOUS
      <4>2. flows'[Asked(b).flow] = flows[Asked(b).flow]
        BY <3>2, <4>1
      <4>3. There(Asked(p).flow)'
        BY <3>1, <3>3, <4>2 DEF There
      <4>4. QED
        BY <4>2, <4>3
    <3>5. Sound(Asked(p).updates)'
      BY <1>19, <3>1, <3>3
    <3>6. \A i \in 1..Len(results') : ChansOf(results[i])' \cap ChansOf(Asked(b).updates) = {}
      BY <1>24, <3>2, <3>3 DEF ChansOf
    <3>7. QED
      BY <3>1, <3>3, <3>4, <3>5, <3>6 DEF ChansOf, There
  <2>2. ASSUME NEW p \in Places', NEW q \in Places', p # q
        PROVE  /\ ChansOf(Asked(p).updates)' \cap ChansOf(Asked(q).updates)' = {}
               /\ Asked(p)'.flow # Asked(q)'.flow
    <3> DEFINE b == Behind(o, p)
               d == Behind(o, q)
    <3>1. b \in Places /\ d \in Places /\ b # d /\ Asked(p)' = Asked(b) /\ Asked(q)' = Asked(d)
      BY <1>3, <1>5, <2>2
    <3> HIDE DEF b, d
    <3>2. ChansOf(Asked(b).updates) \cap ChansOf(Asked(d).updates) = {} /\ Asked(b).flow # Asked(d).flow
      BY <3>1 DEF CoreInv, RequestsInv
    <3>3. QED
      BY <3>1, <3>2 DEF ChansOf
  <2>3. QED
    BY <2>1, <2>2 DEF RequestsInv
<1>27. StopsInv'
  <2> SUFFICES ASSUME NEW u \in Origins, NEW k \in 1..Len(stops[u])
               PROVE  ~There(stops[u][k])'
    BY <1>17 DEF CoreInv, StopsInv
  <2>1. ~There(stops[u][k]) /\ stops[u][k] \in FlowIds
    <3>1. stops[u] \in Seq(FlowIds)
      BY DEF PlanTypes
    <3>2. QED
      BY <3>1, ElementOfSeq DEF CoreInv, StopsInv
  <2>2. stops[u][k] # f
    BY <1>7, <2>1
  <2>3. QED
    BY <1>13, <1>17, <2>1, <2>2 DEF There
<1>28. RefcountsAreExact'
  <2>0. SUFFICES ASSUME NEW g \in FlowIds, NEW s \in Slots
                 PROVE  IF flows'[g] = NoFlow THEN SinksAt(g, s) = {} ELSE flows'[g].refcount[s] = Cardinality(SinksAt(g, s))
    <3>1. \A g, s : SinksAt(g, s) = {c \in Connected' : channels'[c].remote = Remote(g, s)}
      BY <1>17, <1>18 DEF SinksAt
    <3>2. QED
      BY <3>1 DEF RefcountsAreExact
  <2>1. IF flows[g] = NoFlow THEN SinksAt(g, s) = {} ELSE flows[g].refcount[s] = Cardinality(SinksAt(g, s))
    BY DEF CoreInv, RefcountsAreExact, SinksAt
  <2>2. CASE g # f
    BY <2>1, <2>2
  <2>3. CASE g = f /\ There(f)'
    BY <1>7, <2>1, <2>3 DEF There
  <2>4. CASE g = f /\ ~There(f)'
    <3>1. ~Ready(f)
      BY <1>2, <1>14, <1>15, <2>4
    <3>2. \A c \in Connected : channels[c].remote # Remote(f, s)
      BY <3>1 DEF CoreInv, ConnectedInv, Remote
    <3>3. SinksAt(g, s) = {}
      BY <2>4, <3>2 DEF SinksAt
    <3>4. QED
      BY <2>4, <3>3 DEF There
  <2>5. QED
    BY <2>2, <2>3, <2>4
<1>29. QED
  BY <1>2, <1>6, <1>7, <1>13, <1>14, <1>15, <1>21, <1>22, <1>23, <1>25, <1>26, <1>27, <1>28 DEF CoreInv

LEMMA HeardIs ==
    ASSUME PlanTypes, NEW f \in FlowIds, There(f), NEW tx \in [Slots -> Sources \cup {NoSource}]
    PROVE  LET next == [flows EXCEPT ![f].heard = tx]
           IN  /\ next \in [FlowIds -> {NoFlow} \cup FlowRecord]
               /\ \A g \in FlowIds : g # f => next[g] = flows[g]
               /\ next[f] # NoFlow /\ next[f].origin = flows[f].origin
               /\ next[f].refcount = flows[f].refcount /\ next[f].tx = flows[f].tx /\ next[f].heard = tx
<1> DEFINE flow == [flows[f] EXCEPT !.heard = tx]
           next == [flows EXCEPT ![f].heard = tx]
<1>1. flows \in [FlowIds -> {NoFlow} \cup FlowRecord] /\ flows[f] \in FlowRecord
  BY FlowIs DEF PlanTypes
<1>2. /\ flow \in FlowRecord /\ flow.origin = flows[f].origin /\ flow.refcount = flows[f].refcount
      /\ flow.tx = flows[f].tx /\ flow.heard = tx
  BY <1>1 DEF FlowRecord
<1>3. next = [flows EXCEPT ![f] = flow]
  BY <1>1
<1> HIDE DEF flow, next
<1>4. flow # NoFlow
  BY <1>2, NoFlowIsNone
<1>5. next \in [FlowIds -> {NoFlow} \cup FlowRecord] /\ next[f] = flow
      /\ \A g \in FlowIds : g # f => next[g] = flows[g]
  BY <1>1, <1>2, <1>3
<1>6. QED
  BY <1>2, <1>4, <1>5 DEF next

\* What an answer makes of the flow that was requested.
LEMMA AnswerIs ==
    ASSUME PlanInv, NEW o \in Origins, RequestUpdate(o) \/ RequestCreate(o) \/ RequestJoin(o),
           NEW request, request = Head(requests[o]), NEW f, f = request.flow
    PROVE  /\ Asking(o) /\ Answered(o)
           /\ UNCHANGED <<channels, stops, queue, queried, reused, at, tasks, sockets, silence>>
           /\ flows' \in [FlowIds -> {NoFlow} \cup FlowRecord]
           /\ \A g \in FlowIds : g # f => flows'[g] = flows[g]
           /\ \/ /\ There(f)' /\ flows'[f].origin = flows[f].origin /\ flows'[f].refcount = flows[f].refcount
                 /\ results' = results \/ results' = Append(results, request.updates)
              \/ /\ request.kind # "update"
                 /\ ~There(f)' /\ results' = results
           /\ \/ request.kind = "update" /\ front' = front /\ There(f)'
              \/ request.kind # "update" /\ front' = AddSocket(front, f) /\ There(f)'
              \/ request.kind # "update" /\ front' = front /\ ~There(f)'
<1> USE DEF PlanInv
<1>1. Asking(o) /\ Answered(o) /\ UNCHANGED <<channels, stops, queue, queried, reused, at, tasks, sockets, silence>>
  BY DEF RequestUpdate, RequestCreate, RequestJoin, rxVars, environment
<1>2. <<o, 1>> \in Places /\ Asked(<<o, 1>>) = request
  BY <1>1, AnsweredPlaces DEF Asking
<1>3. f \in FlowIds /\ request.tx \in [Slots -> Sources \cup {NoSource}]
  BY <1>2, RequestIs
<1>4. There(f)
  BY <1>2 DEF CoreInv, RequestsInv
<1>5. flows \in [FlowIds -> {NoFlow} \cup FlowRecord]
  BY DEF PlanTypes
<1> HIDE DEF PlanInv
<1> DEFINE heard(tx) == [flows EXCEPT ![f].heard = tx]
<1>6. \A tx \in [Slots -> Sources \cup {NoSource}] :
         /\ heard(tx) \in [FlowIds -> {NoFlow} \cup FlowRecord]
         /\ \A g \in FlowIds : g # f => heard(tx)[g] = flows[g]
         /\ heard(tx)[f] # NoFlow /\ heard(tx)[f].origin = flows[f].origin
         /\ heard(tx)[f].refcount = flows[f].refcount
  BY <1>3, <1>4, HeardIs DEF PlanInv
<1>7. CASE RequestUpdate(o)
  <2>1. request.kind = "update" /\ (flows' = heard(request.tx) \/ flows' = flows)
        /\ (results' = results \/ results' = Append(results, request.updates)) /\ front' = front
    BY <1>7 DEF RequestUpdate, rxVars
  <2> HIDE DEF heard
  <2>2. There(f)' /\ flows'[f].origin = flows[f].origin /\ flows'[f].refcount = flows[f].refcount
        /\ flows' \in [FlowIds -> {NoFlow} \cup FlowRecord]
        /\ \A g \in FlowIds : g # f => flows'[g] = flows[g]
    <3>1. CASE flows' = flows
      BY <1>4, <1>5, <3>1 DEF There
    <3>2. CASE flows' = heard(request.tx)
      <4>1. flows'[f] # NoFlow
        BY <1>3, <1>6, <3>2
      <4>2. QED
        BY <1>3, <1>6, <3>2, <4>1 DEF There
    <3>3. QED
      BY <2>1, <3>1, <3>2
  <2>3. QED
    BY <1>1, <2>1, <2>2
<1>8. CASE RequestCreate(o)
  <2>1. /\ request.kind # "update"
        /\ \/ flows' = heard(request.tx) /\ front' = AddSocket(front, f) /\ results' = Append(results, request.updates)
           \/ flows' = [flows EXCEPT ![f] = NoFlow] /\ front' = front /\ results' = results
    BY <1>8 DEF RequestCreate
  <2> HIDE DEF heard
  <2>2. CASE flows' = heard(request.tx) /\ front' = AddSocket(front, f) /\ results' = Append(results, request.updates)
    <3>1. flows'[f] # NoFlow
      BY <1>3, <1>6, <2>2
    <3>2. QED
      BY <1>1, <1>3, <1>6, <2>1, <2>2, <3>1 DEF There
  <2>3. CASE flows' = [flows EXCEPT ![f] = NoFlow] /\ front' = front /\ results' = results
    <3>1. flows'[f] = NoFlow /\ flows' \in [FlowIds -> {NoFlow} \cup FlowRecord]
          /\ \A g \in FlowIds : g # f => flows'[g] = flows[g]
      BY <1>3, <1>5, <2>3
    <3>2. QED
      BY <1>1, <2>1, <2>3, <3>1 DEF There
  <2>4. QED
    BY <2>1, <2>2, <2>3
<1>9. CASE RequestJoin(o)
  <2> DEFINE tx == [s \in Slots |->
           IF \E x \in Sources : Origin[x] = o /\ SlotInBundle[x] = s
           THEN CHOOSE x \in Sources : Origin[x] = o /\ SlotInBundle[x] = s ELSE NoSource]
  <2>1. request.kind # "update" /\ flows' = heard(tx) /\ front' = AddSocket(front, f)
        /\ results' = Append(results, request.updates)
    BY <1>9 DEF RequestJoin
  <2>2. tx \in [Slots -> Sources \cup {NoSource}]
    <3>1. \A s \in Slots : (IF \E x \in Sources : Origin[x] = o /\ SlotInBundle[x] = s
           THEN CHOOSE x \in Sources : Origin[x] = o /\ SlotInBundle[x] = s ELSE NoSource) \in Sources \cup {NoSource}
      OBVIOUS
    <3>2. QED
      BY <3>1
  <2> HIDE DEF heard, tx
  <2>3. flows'[f] # NoFlow
    BY <1>6, <2>1, <2>2
  <2>4. QED
    BY <1>1, <1>6, <2>1, <2>2, <2>3 DEF There
<1>10. QED
  BY <1>7, <1>8, <1>9

LEMMA RequestPlan ==
    ASSUME PlanInv, NEW o \in Origins, RequestUpdate(o) \/ RequestCreate(o) \/ RequestJoin(o),
           NEW f, f = Head(requests[o]).flow
    PROVE  /\ PlanInv' /\ There(f) /\ f \in FlowIds
           /\ \A g \in FlowIds : g # f => (Ready(g)' <=> Ready(g))
           /\ Ready(f)' <=> There(f)'
           /\ Ready(f) <=> Head(requests[o]).kind = "update"
<1> DEFINE request == Head(requests[o])
<1>1. PICK r : r = request
  OBVIOUS
<1>2. /\ Asking(o) /\ Answered(o)
      /\ UNCHANGED <<channels, stops, queue, queried, reused, at>>
      /\ flows' \in [FlowIds -> {NoFlow} \cup FlowRecord]
      /\ \A g \in FlowIds : g # f => flows'[g] = flows[g]
      /\ \/ /\ There(f)' /\ flows'[f].origin = flows[f].origin /\ flows'[f].refcount = flows[f].refcount
            /\ results' = results \/ results' = Append(results, r.updates)
         \/ /\ r.kind # "update"
            /\ ~There(f)' /\ results' = results
  BY <1>1, AnswerIs
<1>3. QED
  BY <1>1, <1>2, AnswerPlan

-----------------------------------------------------------------------------
(* The user's commands *)

LEMMA CommandTypes ==
    ASSUME NEW command \in UserCommands
    PROVE  /\ command.chan \in Channels /\ command.op \in {"Subscribe", "Unsubscribe"}
           /\ command.op = "Subscribe" => command.source \in Sources
  BY DEF UserCommands

\* A command takes its channel from where it is connected.
LEMMA HandleIs ==
    ASSUME PlanTypes, PhaseInv, HandleCommand, NEW c, c = Head(queue).chan
    PROVE  /\ c \in Channels /\ at = "batch" /\ queue # << >>
           /\ channels' \in [Channels -> {NoSub} \cup Subscriptions]
           /\ \A d \in Channels : d # c => channels'[d] = channels[d]
           /\ Connected' = Connected \ {c}
           /\ \A f, s : SinksAt(f, s)' = SinksAt(f, s) \ {c}
           /\ tasks' = IF c \in Connected THEN Append(tasks, Disconnect(c, channels[c].remote)) ELSE tasks
           /\ flows' = [f \in FlowIds |->
                  IF c \in Connected /\ channels[c].remote.flow = f
                  THEN [flows[f] EXCEPT !.refcount[channels[c].remote.slot] = @ - 1] ELSE flows[f]]
           /\ queue' = Tail(queue) /\ at' \in {"batch", "decide"} /\ (at' = "batch" => queue' # << >>)
           /\ UNCHANGED <<requests, results, stops, queried, reused, rxVars>>
<1> DEFINE command == Head(queue)
           sub == IF command.op = "Subscribe" THEN Subscription(command.source, NoRemote) ELSE NoSub
<1>1. queue \in Seq(UserCommands) /\ channels \in [Channels -> {NoSub} \cup Subscriptions]
      /\ flows \in [FlowIds -> {NoFlow} \cup FlowRecord]
  BY DEF PlanTypes
<1>2. at = "batch" /\ queue # << >>
  BY DEF HandleCommand, PhaseInv
<1>3. command \in UserCommands
  BY <1>1, <1>2
<1>4. c \in Channels /\ (command.op = "Subscribe" => command.source \in Sources)
  BY <1>3, CommandTypes
<1>5. channels' = [channels EXCEPT ![c] = sub]
  BY DEF HandleCommand
<1>6. sub \in {NoSub} \cup Subscriptions
  BY <1>4, NoSubIsNone
<1>7. sub = NoSub \/ sub.remote = NoRemote
  BY DEF Subscription
<1> HIDE DEF sub
<1>8. channels' \in [Channels -> {NoSub} \cup Subscriptions] /\ channels'[c] = sub
      /\ \A d \in Channels : d # c => channels'[d] = channels[d]
  BY <1>1, <1>4, <1>5, <1>6
<1>9. Connected' = Connected \ {c}
  BY <1>4, <1>7, <1>8 DEF Connected, Subscribed
<1>10. \A f, s : SinksAt(f, s)' = SinksAt(f, s) \ {c}
  <2>1. \A d \in Connected \ {c} : channels'[d] = channels[d]
    BY <1>8, ChannelSets
  <2>2. QED
    BY <1>9, <2>1 DEF SinksAt
<1>11. Released(command) = {c} \cap Connected
  BY DEF Released
<1>12. flows' = [f \in FlowIds |->
                  IF c \in Connected /\ channels[c].remote.flow = f
                  THEN [flows[f] EXCEPT !.refcount[channels[c].remote.slot] = @ - 1] ELSE flows[f]]
  <2>1. flows' = [f \in FlowIds |->
           IF \E d \in Released(command) : channels[d].remote.flow = f
           THEN [flows[f] EXCEPT !.refcount[channels[c].remote.slot] = @ - 1] ELSE flows[f]]
    BY DEF HandleCommand
  <2>2. \A f \in FlowIds : (\E d \in Released(command) : channels[d].remote.flow = f)
                           <=> (c \in Connected /\ channels[c].remote.flow = f)
    BY <1>11
  <2>3. QED
    BY <2>1, <2>2
<1>13. tasks' = IF c \in Connected THEN Append(tasks, Disconnect(c, channels[c].remote)) ELSE tasks
  <2>1. tasks' = IF Released(command) = {} THEN tasks ELSE Append(tasks, Disconnect(c, channels[c].remote))
    BY DEF HandleCommand
  <2>2. Released(command) = {} <=> c \notin Connected
    BY <1>11
  <2>3. QED
    BY <2>1, <2>2
<1>14. queue' = Tail(queue) /\ at' \in {"batch", "decide"} /\ (at' = "batch" => queue' # << >>)
       /\ UNCHANGED <<requests, results, stops, queried, reused, rxVars>>
  BY <1>2 DEF HandleCommand
<1>15. QED
  BY <1>2, <1>4, <1>8, <1>9, <1>10, <1>12, <1>13, <1>14

LEMMA HandlePlan ==
    ASSUME PlanInv, HandleCommand, NEW c, c = Head(queue).chan
    PROVE  PlanInv' /\ \A f \in FlowIds : (Ready(f)' <=> Ready(f)) /\ (There(f)' <=> There(f))
<1> USE DEF PlanInv
<1>1. /\ c \in Channels /\ at = "batch" /\ queue # << >>
      /\ channels' \in [Channels -> {NoSub} \cup Subscriptions]
      /\ \A d \in Channels : d # c => channels'[d] = channels[d]
      /\ Connected' = Connected \ {c}
      /\ \A f, s : SinksAt(f, s)' = SinksAt(f, s) \ {c}
      /\ queue' = Tail(queue) /\ at' \in {"batch", "decide"} /\ (at' = "batch" => queue' # << >>)
      /\ UNCHANGED <<requests, results, stops, queried, reused>>
  BY HandleIs
<1>2. flows' = [f \in FlowIds |->
                  IF c \in Connected /\ channels[c].remote.flow = f
                  THEN [flows[f] EXCEPT !.refcount[channels[c].remote.slot] = @ - 1] ELSE flows[f]]
  BY HandleIs
<1>3. Places = {} /\ results = << >> /\ \A o \in Origins : stops[o] = << >>
  BY <1>1 DEF PhaseInv
<1>4. Places' = {}
  BY <1>1, <1>3 DEF Places
<1>5. flows \in [FlowIds -> {NoFlow} \cup FlowRecord]
  BY DEF PlanTypes
<1>6. ASSUME NEW f \in FlowIds
      PROVE  /\ flows'[f] \in {NoFlow} \cup FlowRecord
             /\ There(f)' <=> There(f)
             /\ There(f) => \A s \in Slots : flows'[f].refcount[s] =
                    IF c \in Connected /\ channels[c].remote = Remote(f, s) THEN flows[f].refcount[s] - 1
                    ELSE flows[f].refcount[s]
  <2>1. CASE c \in Connected /\ channels[c].remote.flow = f
    <3> DEFINE x == channels[c].remote.slot
               flow == [flows[f] EXCEPT !.refcount[x] = @ - 1]
    <3>1. There(f) /\ x \in Slots /\ channels[c].remote = Remote(f, x)
      BY <1>1, <2>1, SubscriptionIs DEF CoreInv, ConnectedInv, Ready
    <3>2. flows[f] \in FlowRecord /\ flows[f].refcount \in [Slots -> Int]
      BY <3>1, FlowIs
    <3> HIDE DEF x
    <3>3. flow \in FlowRecord /\ flow.refcount = [flows[f].refcount EXCEPT ![x] = @ - 1]
      BY <3>1, <3>2 DEF FlowRecord
    <3>4. flows'[f] = flow
      BY <1>2, <2>1 DEF x
    <3> HIDE DEF flow
    <3>5. There(f)'
      BY <3>3, <3>4, NoFlowIsNone DEF There
    <3>6. \A s \in Slots : Remote(f, x) = Remote(f, s) <=> x = s
      BY DEF Remote
    <3>7. \A s \in Slots : flows'[f].refcount[s] = IF x = s THEN flows[f].refcount[s] - 1 ELSE flows[f].refcount[s]
      BY <3>1, <3>2, <3>3, <3>4
    <3>8. QED
      BY <2>1, <3>1, <3>3, <3>4, <3>5, <3>6, <3>7
  <2>2. CASE ~(c \in Connected /\ channels[c].remote.flow = f)
    <3>1. flows'[f] = flows[f]
      BY <1>2, <2>2
    <3>2. \A s \in Slots : ~(c \in Connected /\ channels[c].remote = Remote(f, s))
      BY <2>2 DEF Remote
    <3>3. QED
      BY <1>5, <3>1, <3>2 DEF There
  <2>3. QED
    BY <2>1, <2>2
<1>7. flows' \in [FlowIds -> {NoFlow} \cup FlowRecord]
  BY <1>2, <1>6
<1>8. queue' \in Seq(UserCommands)
  BY <1>1 DEF PlanTypes
<1>9. PlanTypes'
  BY <1>1, <1>7, <1>8 DEF PlanTypes
<1>10. PhaseInv'
  BY <1>1, <1>3, <1>4 DEF PhaseInv
<1>11. \A f \in FlowIds : (Ready(f)' <=> There(f)) /\ (Ready(f) <=> There(f)) /\ (There(f)' <=> There(f))
  BY <1>3, <1>4, <1>6 DEF Ready, Coming
<1>12. ConnectedInv'
  <2> SUFFICES ASSUME NEW d \in Connected \ {c}
               PROVE  Ready(channels[d].remote.flow)'
    BY <1>1 DEF ConnectedInv
  <2>1. d \in Channels /\ channels'[d] = channels[d] /\ channels[d].remote.flow \in FlowIds
        /\ Ready(channels[d].remote.flow)
    BY <1>1, ChannelSets, SubscriptionIs DEF CoreInv, ConnectedInv
  <2>2. QED
    BY <1>11, <2>1
<1>13. ResultsInv'
  BY <1>1, <1>3 DEF ResultsInv
<1>14. RequestsInv'
  BY <1>4 DEF RequestsInv
<1>15. StopsInv'
  BY <1>1, <1>3 DEF StopsInv
<1>16. RefcountsAreExact'
  <2>0. SUFFICES ASSUME NEW f \in FlowIds, NEW s \in Slots
                 PROVE  IF There(f) THEN flows'[f].refcount[s] = Cardinality(SinksAt(f, s) \ {c})
                        ELSE SinksAt(f, s) \ {c} = {}
    <3>1. \A g, s : {d \in Connected' : channels'[d].remote = Remote(g, s)} = SinksAt(g, s) \ {c}
      BY <1>1 DEF SinksAt
    <3>2. \A g \in FlowIds : There(g) <=> flows'[g] # NoFlow
      BY <1>6 DEF There
    <3> DEFINE sinks(g, s) == {d \in Connected' : channels'[d].remote = Remote(g, s)}
    <3>3. SUFFICES ASSUME NEW g \in FlowIds, NEW s \in Slots
                   PROVE  IF flows'[g] = NoFlow THEN sinks(g, s) = {}
                          ELSE flows'[g].refcount[s] = Cardinality(sinks(g, s))
      BY DEF RefcountsAreExact
    <3>4. sinks(g, s) = SinksAt(g, s) \ {c}
      BY <3>1
    <3> HIDE DEF sinks
    <3>5. QED
      BY <2>0, <3>2, <3>4
  <2>1. IF There(f) THEN flows[f].refcount[s] = Cardinality(SinksAt(f, s)) ELSE SinksAt(f, s) = {}
    BY DEF CoreInv, RefcountsAreExact, SinksAt, There
  <2>2. IsFiniteSet(SinksAt(f, s)) /\ (c \in SinksAt(f, s) <=> c \in Connected /\ channels[c].remote = Remote(f, s))
    BY ChannelsAssumption, ChannelSets, FS_Subset DEF SinksAt
  <2>3. CASE There(f) /\ c \in SinksAt(f, s)
    <3>1. Cardinality(SinksAt(f, s) \ {c}) = Cardinality(SinksAt(f, s)) - 1
      BY <2>2, <2>3, FS_RemoveElement
    <3>2. QED
      BY <1>6, <2>1, <2>2, <2>3, <3>1
  <2>4. CASE There(f) /\ c \notin SinksAt(f, s)
    <3>1. SinksAt(f, s) \ {c} = SinksAt(f, s)
      BY <2>4
    <3>2. QED
      BY <1>6, <2>1, <2>2, <2>4, <3>1
  <2>5. QED
    BY <2>1, <2>3, <2>4
<1>17. QED
  BY <1>9, <1>10, <1>11, <1>12, <1>13, <1>14, <1>15, <1>16 DEF CoreInv

-----------------------------------------------------------------------------
(* The results *)

\* The channels that assignments connect to a place.
Newcomers(batch, f, s) == {a.chan : a \in {b \in batch : b.flow = f /\ b.slot = s}}

\* In a sound batch a channel has one assignment, and a place as many as channels.
LEMMA AssignedIs ==
    ASSUME PlanTypes, NEW batch \in SUBSET AssignmentRecord, Sound(batch)
    PROVE  /\ DOMAIN AssignedIn(batch) = ChansOf(batch) /\ ChansOf(batch) \in SUBSET Needed
           /\ IsFiniteSet(ChansOf(batch))
           /\ \A a \in batch : AssignedIn(batch)[a.chan] = a
           /\ \A c \in ChansOf(batch) : AssignedIn(batch)[c] \in batch /\ AssignedIn(batch)[c].chan = c
           /\ \A f, s : /\ Counted(batch, f, s) = Cardinality(Newcomers(batch, f, s))
                        /\ Counted(batch, f, s) \in Nat
                        /\ Counted(batch, f, s) = 0 <=> \A a \in batch : ~(a.flow = f /\ a.slot = s)
<1> DEFINE of == AssignedIn(batch)
<1>1. of = [c \in ChansOf(batch) |-> CHOOSE a \in batch : a.chan = c]
  BY DEF AssignedIn, ChansOf
<1>2. \A a \in batch : a.chan \in ChansOf(batch) /\ a.chan \in Needed
  BY DEF ChansOf, Sound
<1> HIDE DEF of
<1>3. \A a \in batch : of[a.chan] = a
  <2> SUFFICES ASSUME NEW a \in batch
               PROVE  of[a.chan] = a
    OBVIOUS
  <2>1. of[a.chan] = CHOOSE b \in batch : b.chan = a.chan
    BY <1>1, <1>2
  <2>2. of[a.chan] \in batch /\ of[a.chan].chan = a.chan
    BY <2>1
  <2>3. QED
    BY <2>2 DEF Sound
<1>4. \A c \in ChansOf(batch) : \E a \in batch : a.chan = c
  BY DEF ChansOf
<1>5. \A c \in ChansOf(batch) : of[c] \in batch /\ of[c].chan = c
  BY <1>3, <1>4
<1>6. DOMAIN of = ChansOf(batch) /\ ChansOf(batch) \in SUBSET Needed
  BY <1>1, <1>2, <1>4
<1>7. IsFiniteSet(ChansOf(batch))
  BY <1>6, ChannelsAssumption, ChannelSets, FS_Subset
<1>8. ASSUME NEW f, NEW s
      PROVE  /\ Counted(batch, f, s) = Cardinality(Newcomers(batch, f, s))
             /\ Counted(batch, f, s) \in Nat
             /\ Counted(batch, f, s) = 0 <=> \A a \in batch : ~(a.flow = f /\ a.slot = s)
  <2> DEFINE there == {b \in batch : b.flow = f /\ b.slot = s}
             new == Newcomers(batch, f, s)
             to == [c \in new |-> of[c]]
  <2>1. new = {a.chan : a \in there}
    BY DEF Newcomers
  <2>2. new \in SUBSET ChansOf(batch) /\ IsFiniteSet(new)
    BY <1>2, <1>7, <2>1, FS_Subset
  <2>3. \A c \in new : of[c] \in there /\ of[c].chan = c
    <3>1. \A c \in new : \E a \in there : a.chan = c
      BY <2>1
    <3>2. QED
      BY <1>3, <3>1
  <2>4. \A a \in there : a.chan \in new /\ of[a.chan] = a
    BY <1>3, <2>1
  <2> HIDE DEF there, new
  <2>5. to \in Bijection(new, there)
    <3>1. to \in [new -> there]
      BY <2>3
    <3>2. \A c, d \in new : to[c] = to[d] => c = d
      BY <2>3
    <3>3. \A a \in there : \E c \in new : to[c] = a
      BY <2>4
    <3>4. QED
      BY <3>1, <3>2, <3>3 DEF Bijection, Injection, Surjection, IsInjective
  <2>6. IsFiniteSet(there) /\ Cardinality(there) = Cardinality(new)
    BY <2>2, <2>5, FS_Bijection DEF ExistsBijection
  <2>7. Cardinality(there) \in Nat /\ (Cardinality(there) = 0 <=> there = {})
    BY <2>6, FS_CardinalityType, FS_EmptySet
  <2>8. Counted(batch, f, s) = Cardinality(there)
    BY DEF Counted, there
  <2>9. QED
    BY <2>6, <2>7, <2>8 DEF there, new
<1>9. QED
  BY <1>3, <1>5, <1>6, <1>7, <1>8 DEF of

\* The result that is taken, and what it makes of channels and flows.
LEMMA TakeIs ==
    ASSUME PlanInv, TakeResult, NEW batch, batch = IF clockReady THEN Head(results) ELSE {}
    PROVE  /\ results # << >> /\ results' = Tail(results) /\ at \in {"results", "waiting"}
           /\ batch \in SUBSET AssignmentRecord /\ Sound(batch)
           /\ \A a \in batch : Ready(a.flow)
           /\ \A i \in 1..Len(results') : /\ results'[i] = results[i + 1] /\ i + 1 \in 1..Len(results)
                                          /\ ChansOf(results[i + 1]) \cap ChansOf(batch) = {}
           /\ \A p \in Places : ChansOf(Asked(p).updates) \cap ChansOf(batch) = {}
           /\ \A c \in Channels : channels'[c] =
                  IF c \in ChansOf(batch)
                  THEN Subscription(channels[c].source, Remote(AssignedIn(batch)[c].flow, AssignedIn(batch)[c].slot))
                  ELSE channels[c]
           /\ channels' \in [Channels -> {NoSub} \cup Subscriptions]
           /\ Connected' = Connected \cup ChansOf(batch) /\ Needed' = Needed \ ChansOf(batch)
           /\ \A c \in Channels : channels'[c].source = channels[c].source
           /\ \A f, s : SinksAt(f, s)' = SinksAt(f, s) \cup Newcomers(batch, f, s)
<1> USE DEF PlanInv
<1>1. results # << >> /\ results' = Tail(results) /\ at \in {"results", "waiting"}
  BY DEF TakeResult
<1>2. results \in Seq(SUBSET AssignmentRecord) /\ channels \in [Channels -> {NoSub} \cup Subscriptions]
  BY DEF PlanTypes
<1>3. 1 \in 1..Len(results) /\ Head(results) = results[1]
  BY <1>1, <1>2
<1>4. batch = results[1] \/ batch = {}
  BY <1>3
<1>5. /\ batch \in SUBSET AssignmentRecord /\ Sound(batch)
      /\ \A a \in batch : Ready(a.flow)
  <2>1. CASE batch = results[1]
    BY <1>3, <2>1, ResultIs DEF CoreInv, ResultsInv
  <2>2. CASE batch = {}
    BY <2>2 DEF Sound
  <2>3. QED
    BY <1>4, <2>1, <2>2
<1>6. ASSUME NEW i \in 1..Len(results')
      PROVE  /\ results'[i] = results[i + 1] /\ i + 1 \in 1..Len(results)
             /\ ChansOf(results[i + 1]) \cap ChansOf(batch) = {}
  <2>1. Len(results) \in Nat /\ Len(results') = Len(results) - 1
    BY <1>1, <1>2
  <2>2. i \in 1..Len(results) - 1
    BY <2>1
  <2>3. results'[i] = results[i + 1] /\ i + 1 \in 1..Len(results) /\ i + 1 # 1
    BY <1>1, <1>2, <2>1, <2>2
  <2>4. ChansOf(results[i + 1]) \cap ChansOf(results[1]) = {}
    BY <1>3, <2>3 DEF CoreInv, ResultsInv
  <2>5. ChansOf(results[i + 1]) \cap ChansOf(batch) = {}
    BY <1>4, <2>4 DEF ChansOf
  <2>6. QED
    BY <2>3, <2>5
<1>7. ASSUME NEW p \in Places
      PROVE  ChansOf(Asked(p).updates) \cap ChansOf(batch) = {}
  <2>1. ChansOf(results[1]) \cap ChansOf(Asked(p).updates) = {}
    BY <1>3 DEF CoreInv, RequestsInv
  <2>2. QED
    BY <1>4, <2>1 DEF ChansOf
<1> DEFINE of == AssignedIn(batch)
<1>8. /\ DOMAIN of = ChansOf(batch) /\ ChansOf(batch) \in SUBSET Needed
      /\ \A a \in batch : of[a.chan] = a
      /\ \A c \in ChansOf(batch) : of[c] \in batch /\ of[c].chan = c
  BY <1>5, AssignedIs
<1>9. ASSUME NEW c \in ChansOf(batch)
      PROVE  /\ of[c].source = channels[c].source /\ of[c].source \in Sources
             /\ of[c].flow \in FlowIds /\ of[c].slot \in Slots
  BY <1>5, <1>8, AssignmentIs DEF Sound
<1>10. channels' = [c \in Channels |->
           IF c \in DOMAIN of THEN Subscription(of[c].source, Remote(of[c].flow, of[c].slot))
           ELSE channels[c]]
  BY DEF TakeResult
<1> HIDE DEF of, PlanInv
<1>11. \A c \in Channels : channels'[c] =
                  IF c \in ChansOf(batch)
                  THEN Subscription(channels[c].source, Remote(of[c].flow, of[c].slot))
                  ELSE channels[c]
  BY <1>8, <1>9, <1>10
<1>12. \A c \in ChansOf(batch) :
          /\ Subscription(channels[c].source, Remote(of[c].flow, of[c].slot)) \in Subscriptions
          /\ Subscription(channels[c].source, Remote(of[c].flow, of[c].slot)) # NoSub
          /\ Remote(of[c].flow, of[c].slot) # NoRemote
  <2> SUFFICES ASSUME NEW c \in ChansOf(batch)
               PROVE  /\ Subscription(channels[c].source, Remote(of[c].flow, of[c].slot)) \in Subscriptions
                      /\ Subscription(channels[c].source, Remote(of[c].flow, of[c].slot)) # NoSub
                      /\ Remote(of[c].flow, of[c].slot) # NoRemote
    OBVIOUS
  <2>1. /\ channels[c].source \in Sources
        /\ Remote(of[c].flow, of[c].slot) \in [flow : FlowIds, slot : Slots]
        /\ Remote(of[c].flow, of[c].slot) # NoRemote
    BY <1>9, NoRemoteIsNone
  <2>2. Subscription(channels[c].source, Remote(of[c].flow, of[c].slot)) \in Subscriptions
    BY <2>1 DEF Subscription, Subscriptions
  <2>3. QED
    BY <2>1, <2>2, NoSubIsNone
<1>13. channels' \in [Channels -> {NoSub} \cup Subscriptions]
  <2>1. \A c \in Channels : channels'[c] \in {NoSub} \cup Subscriptions
    BY <1>2, <1>11, <1>12
  <2>2. channels' \in [Channels -> {channels'[c] : c \in Channels}]
    BY <1>10
  <2>3. QED
    BY <2>1, <2>2
<1>14. \A c \in Channels : /\ channels'[c].source = channels[c].source
                           /\ c \in ChansOf(batch) => /\ channels'[c] # NoSub
                                                      /\ channels'[c].remote = Remote(of[c].flow, of[c].slot)
                                                      /\ channels'[c].remote # NoRemote
  <2>1. \A c \in Channels : c \in ChansOf(batch) =>
            channels'[c] = Subscription(channels[c].source, Remote(of[c].flow, of[c].slot))
    BY <1>11
  <2>2. \A c \in Channels : c \notin ChansOf(batch) => channels'[c] = channels[c]
    BY <1>11
  <2>3. \A x, r : Subscription(x, r).source = x /\ Subscription(x, r).remote = r
    BY DEF Subscription
  <2>4. \A c \in Channels : c \in ChansOf(batch) =>
            channels'[c].source = channels[c].source /\ channels'[c].remote = Remote(of[c].flow, of[c].slot)
    BY <2>1, <2>3
  <2>5. \A c \in Channels : c \in ChansOf(batch) => channels'[c] # NoSub /\ channels'[c].remote # NoRemote
    BY <1>12, <2>1, <2>4
  <2>6. QED
    BY <2>2, <2>4, <2>5
<1>15. Connected' = Connected \cup ChansOf(batch) /\ Needed' = Needed \ ChansOf(batch)
  <2>1. ChansOf(batch) \subseteq Subscribed /\ ChansOf(batch) \subseteq Channels
    BY <1>8, ChannelSets DEF Needed
  <2>2. \A c \in Channels : c \notin ChansOf(batch) => channels'[c] = channels[c]
    BY <1>11
  <2>3. Subscribed' = Subscribed
    BY <1>14, <2>1, <2>2 DEF Subscribed
  <2>4. Connected' = Connected \cup ChansOf(batch)
    BY <1>14, <2>1, <2>2, <2>3, ChannelSets DEF Connected
  <2>5. QED
    BY <2>3, <2>4 DEF Needed
<1>16. ASSUME NEW f, NEW s
       PROVE  SinksAt(f, s)' = SinksAt(f, s) \cup Newcomers(batch, f, s)
  <2>1. SinksAt(f, s)' = {c \in Connected \cup ChansOf(batch) : channels'[c].remote = Remote(f, s)}
    BY <1>15 DEF SinksAt
  <2>2. \A c \in Connected : c \notin ChansOf(batch) /\ channels'[c] = channels[c]
    BY <1>8, <1>11, ChannelSets
  <2>3. \A g, t : Remote(g, t) = Remote(f, s) <=> g = f /\ t = s
    BY DEF Remote
  <2>4. \A c \in ChansOf(batch) : channels'[c].remote = Remote(f, s) <=> c \in Newcomers(batch, f, s)
    <3> SUFFICES ASSUME NEW c \in ChansOf(batch)
                 PROVE  channels'[c].remote = Remote(f, s) <=> c \in Newcomers(batch, f, s)
      OBVIOUS
    <3>1. channels'[c].remote = Remote(of[c].flow, of[c].slot)
      BY <1>8, <1>14, ChannelSets
    <3>2. c \in Newcomers(batch, f, s) <=> of[c].flow = f /\ of[c].slot = s
      <4>1. \A a \in batch : a.chan = c <=> a = of[c]
        BY <1>8
      <4>2. of[c] \in batch
        BY <1>8
      <4>3. QED
        BY <4>1, <4>2 DEF Newcomers
    <3>3. QED
      BY <2>3, <3>1, <3>2
  <2>5. Newcomers(batch, f, s) \subseteq ChansOf(batch)
    BY DEF Newcomers, ChansOf
  <2>6. QED
    BY <2>1, <2>2, <2>4, <2>5 DEF SinksAt
<1>17. QED
  BY <1>1, <1>5, <1>6, <1>7, <1>11, <1>13, <1>14, <1>15, <1>16 DEF of

LEMMA TakePlan ==
    ASSUME PlanInv, TakeResult
    PROVE  PlanInv' /\ \A f \in FlowIds : (Ready(f)' <=> Ready(f)) /\ (Leaving(f)' <=> Leaving(f))
<1> USE DEF PlanInv
<1>1. PICK batch : batch = IF clockReady THEN Head(results) ELSE {}
  OBVIOUS
<1>2. /\ results # << >> /\ results' = Tail(results) /\ at \in {"results", "waiting"}
      /\ batch \in SUBSET AssignmentRecord /\ Sound(batch)
      /\ \A a \in batch : Ready(a.flow)
      /\ channels' \in [Channels -> {NoSub} \cup Subscriptions]
      /\ Connected' = Connected \cup ChansOf(batch) /\ Needed' = Needed \ ChansOf(batch)
      /\ \A c \in Channels : channels'[c].source = channels[c].source
  BY <1>1, TakeIs
<1>3. /\ \A i \in 1..Len(results') : /\ results'[i] = results[i + 1] /\ i + 1 \in 1..Len(results)
                                     /\ ChansOf(results[i + 1]) \cap ChansOf(batch) = {}
      /\ \A p \in Places : ChansOf(Asked(p).updates) \cap ChansOf(batch) = {}
  BY <1>1, TakeIs
<1>4. /\ \A c \in Channels : channels'[c] =
                  IF c \in ChansOf(batch)
                  THEN Subscription(channels[c].source, Remote(AssignedIn(batch)[c].flow, AssignedIn(batch)[c].slot))
                  ELSE channels[c]
      /\ \A f, s : SinksAt(f, s)' = SinksAt(f, s) \cup Newcomers(batch, f, s)
  BY <1>1, TakeIs
<1>5. /\ requests' = requests /\ stops' = stops /\ queue' = queue
      /\ queried' = queried /\ reused' = reused
      /\ at' = IF results' # << >> THEN "results" ELSE IF Outstanding(requests) # {} THEN "waiting" ELSE "scan"
  BY DEF TakeResult
<1>6. flows' = [f \in FlowIds |->
           IF flows[f] = NoFlow THEN NoFlow
           ELSE [flows[f] EXCEPT
                    !.refcount = [s \in Slots |-> @[s] + Counted(batch, f, s)],
                    !.tx = [s \in Slots |-> IF Counted(batch, f, s) = 0 THEN @[s]
                                ELSE (CHOOSE a \in batch : a.flow = f /\ a.slot = s).source]]]
  <2> DEFINE F(b) == [f \in FlowIds |->
           IF flows[f] = NoFlow THEN NoFlow
           ELSE [flows[f] EXCEPT
                    !.refcount = [s \in Slots |-> @[s] + Counted(b, f, s)],
                    !.tx = [s \in Slots |-> IF Counted(b, f, s) = 0 THEN @[s]
                                ELSE (CHOOSE a \in b : a.flow = f /\ a.slot = s).source]]]
  <2>1. flows' = F(IF clockReady THEN Head(results) ELSE {})
    BY DEF TakeResult
  <2> HIDE DEF F
  <2>2. flows' = F(batch)
    BY <1>1, <2>1
  <2>3. QED
    BY <2>2 DEF F
<1>7. /\ DOMAIN AssignedIn(batch) = ChansOf(batch) /\ ChansOf(batch) \in SUBSET Needed
      /\ IsFiniteSet(ChansOf(batch))
      /\ \A c \in ChansOf(batch) : AssignedIn(batch)[c] \in batch /\ AssignedIn(batch)[c].chan = c
      /\ \A f, s : /\ Counted(batch, f, s) = Cardinality(Newcomers(batch, f, s))
                   /\ Counted(batch, f, s) \in Nat
                   /\ Counted(batch, f, s) = 0 <=> \A a \in batch : ~(a.flow = f /\ a.slot = s)
  BY <1>2, AssignedIs
<1>8. flows \in [FlowIds -> {NoFlow} \cup FlowRecord] /\ requests \in [Origins -> Seq(RequestRecord)]
      /\ results \in Seq(SUBSET AssignmentRecord)
  BY DEF PlanTypes
<1>9. ASSUME NEW f \in FlowIds
      PROVE  /\ flows'[f] \in {NoFlow} \cup FlowRecord
             /\ There(f)' <=> There(f)
             /\ There(f) => /\ flows'[f].origin = flows[f].origin
                            /\ \A s \in Slots : flows'[f].refcount[s] = flows[f].refcount[s] + Counted(batch, f, s)
  <2>1. CASE ~There(f)
    BY <1>6, <2>1 DEF There
  <2>2. CASE There(f)
    <3> DEFINE count == [s \in Slots |-> flows[f].refcount[s] + Counted(batch, f, s)]
               tx == [s \in Slots |-> IF Counted(batch, f, s) = 0 THEN flows[f].tx[s]
                                      ELSE (CHOOSE a \in batch : a.flow = f /\ a.slot = s).source]
               flow == [flows[f] EXCEPT !.refcount = count, !.tx = tx]
    <3>1. flows'[f] = flow
      <4>1. flows'[f] = [flows[f] EXCEPT
                    !.refcount = [s \in Slots |-> @[s] + Counted(batch, f, s)],
                    !.tx = [s \in Slots |-> IF Counted(batch, f, s) = 0 THEN @[s]
                                ELSE (CHOOSE a \in batch : a.flow = f /\ a.slot = s).source]]
        BY <1>6, <2>2 DEF There
      <4>2. QED
        BY <4>1
    <3>2. /\ flows[f] \in FlowRecord
          /\ flows[f].refcount \in [Slots -> Int]
          /\ flows[f].tx \in [Slots -> Sources \cup {NoSource}]
      BY <2>2, FlowIs
    <3>3. count \in [Slots -> Int]
      BY <1>7, <3>2
    <3>4. tx \in [Slots -> Sources \cup {NoSource}]
      <4>1. ASSUME NEW s \in Slots
            PROVE  (IF Counted(batch, f, s) = 0 THEN flows[f].tx[s]
                    ELSE (CHOOSE a \in batch : a.flow = f /\ a.slot = s).source) \in Sources \cup {NoSource}
        <5>1. CASE Counted(batch, f, s) = 0
          BY <3>2, <5>1
        <5>2. CASE Counted(batch, f, s) # 0
          <6> DEFINE b == CHOOSE a \in batch : a.flow = f /\ a.slot = s
          <6>1. \E a \in batch : a.flow = f /\ a.slot = s
            BY <1>7, <5>2
          <6>2. b \in batch
            BY <6>1
          <6>3. b.source \in Sources
            BY <1>2, <6>2, AssignmentIs
          <6>4. QED
            BY <5>2, <6>3
        <5>3. QED
          BY <5>1, <5>2
      <4>2. QED
        BY <4>1
    <3>5. \A s \in Slots : count[s] = flows[f].refcount[s] + Counted(batch, f, s)
      OBVIOUS
    <3> HIDE DEF count, tx
    <3>6. flow \in FlowRecord /\ flow.refcount = count /\ flow.origin = flows[f].origin
      BY <3>2, <3>3, <3>4 DEF FlowRecord
    <3> HIDE DEF flow
    <3>7. flow # NoFlow
      BY <3>6, NoFlowIsNone
    <3>8. There(f)'
      BY <3>1, <3>7 DEF There
    <3>9. QED
      BY <2>2, <3>1, <3>5, <3>6, <3>8
  <2>3. QED
    BY <2>1, <2>2
<1>10. flows' \in [FlowIds -> {NoFlow} \cup FlowRecord]
  <2>1. flows' \in [FlowIds -> {flows'[f] : f \in FlowIds}]
    BY <1>6
  <2>2. QED
    BY <1>9, <2>1
<1> HIDE DEF PlanInv
<1>11. /\ Places' = Places /\ (\A p : Asked(p)' = Asked(p))
       /\ \A f : (Coming(f)' <=> Coming(f)) /\ (Leaving(f)' <=> Leaving(f))
  <2>1. Places' = Places /\ \A p : Asked(p)' = Asked(p)
    BY <1>5 DEF Places, Asked
  <2>2. QED
    BY <1>5, <2>1 DEF Coming, Leaving
<1>12. \A f \in FlowIds : Ready(f)' <=> Ready(f)
  BY <1>9, <1>11 DEF Ready
<1>13. results' \in Seq(SUBSET AssignmentRecord)
  BY <1>2, <1>8
<1>14. PlanTypes'
  <2>1. at' \in {"idle", "batch", "decide", "query", "waiting", "results", "scan", "stop", "stopping"}
    BY <1>5
  <2>2. QED
    BY <1>2, <1>5, <1>10, <1>13, <2>1 DEF PlanInv, PlanTypes
<1>15. PhaseInv'
  <2>1. \A o \in Origins : stops[o] = << >>
    BY <1>2 DEF PlanInv, PhaseInv
  <2>2. at' \in {"results", "waiting"} \/ (at' = "scan" /\ results' = << >> /\ Places = {})
    BY <1>5, NothingIsLeft DEF PlanInv
  <2>3. at' \notin {"batch", "query", "stop", "stopping"}
    BY <1>5
  <2>4. QED
    BY <1>5, <1>11, <2>1, <2>2, <2>3 DEF PhaseInv
<1>16. ConnectedInv'
  <2> SUFFICES ASSUME NEW c \in Connected \cup ChansOf(batch)
               PROVE  Ready(channels[c].remote.flow)'
    BY <1>2 DEF ConnectedInv
  <2>1. CASE c \in ChansOf(batch)
    <3>1. c \in Channels /\ AssignedIn(batch)[c] \in batch
      BY <1>7, <2>1, ChannelSets
    <3>2. channels'[c].remote.flow = AssignedIn(batch)[c].flow
      <4>1. channels'[c] = Subscription(channels[c].source, Remote(AssignedIn(batch)[c].flow, AssignedIn(batch)[c].slot))
        BY <1>4, <2>1, <3>1
      <4>2. QED
        BY <4>1 DEF Subscription, Remote
    <3>3. Ready(AssignedIn(batch)[c].flow) /\ AssignedIn(batch)[c].flow \in FlowIds
      BY <1>2, <3>1, AssignmentIs
    <3>4. \A f \in FlowIds : f = AssignedIn(batch)[c].flow => Ready(f)'
      BY <1>12, <3>3
    <3>5. QED
      BY <3>2, <3>3, <3>4
  <2>2. CASE c \notin ChansOf(batch)
    <3>1. c \in Connected /\ c \in Channels
      BY <2>2, ChannelSets
    <3>2. channels'[c] = channels[c]
      BY <1>4, <2>2, <3>1
    <3>3. Ready(channels[c].remote.flow) /\ channels[c].remote.flow \in FlowIds
      BY <3>1, SubscriptionIs DEF PlanInv, CoreInv, ConnectedInv
    <3>4. \A f \in FlowIds : f = channels[c].remote.flow => Ready(f)'
      BY <1>12, <3>3
    <3>5. QED
      BY <3>2, <3>3, <3>4
  <2>3. QED
    BY <2>1, <2>2
<1>17. ASSUME NEW b \in SUBSET AssignmentRecord, Sound(b), ChansOf(b) \cap ChansOf(batch) = {}
       PROVE  Sound(b)'
  <2>1. \A a \in b : a.chan \in ChansOf(b)
    BY DEF ChansOf
  <2>2. \A a \in b : a.chan \in Needed' /\ a.source = channels[a.chan].source /\ a.chan \in Channels
    BY <1>2, <1>17, <2>1, ChannelSets DEF Sound
  <2>3. \A a \in b : a.source = channels'[a.chan].source
    BY <1>2, <2>2
  <2>4. QED
    BY <1>17, <2>2, <2>3 DEF Sound
<1>18. ResultsInv'
  <2>1. ASSUME NEW i \in 1..Len(results')
        PROVE  Sound(results[i])' /\ \A a \in results'[i] : Ready(a.flow)'
    <3>1. results'[i] = results[i + 1] /\ i + 1 \in 1..Len(results) /\ ChansOf(results[i + 1]) \cap ChansOf(batch) = {}
      BY <1>3
    <3>2. results[i + 1] \in SUBSET AssignmentRecord /\ Sound(results[i + 1])
          /\ \A a \in results[i + 1] : Ready(a.flow)
      BY <3>1, ResultIs DEF PlanInv, CoreInv, ResultsInv
    <3>3. PICK b : b = results[i + 1]
      OBVIOUS
    <3>4. Sound(b)'
      BY <1>17, <3>1, <3>2, <3>3
    <3>5. \A a \in b : Ready(a.flow)'
      <4> SUFFICES ASSUME NEW a \in b
                   PROVE  Ready(a.flow)'
        OBVIOUS
      <4>1. a.flow \in FlowIds /\ Ready(a.flow)
        BY <3>2, <3>3, AssignmentIs
      <4>2. QED
        BY <1>12, <4>1
    <3>6. results'[i] = b
      BY <3>1, <3>3
    <3>7. QED
      BY <3>4, <3>5, <3>6
  <2>2. ASSUME NEW i \in 1..Len(results'), NEW j \in 1..Len(results'), i # j
        PROVE  ChansOf(results[i])' \cap ChansOf(results[j])' = {}
    <3>1. /\ results'[i] = results[i + 1] /\ i + 1 \in 1..Len(results)
          /\ results'[j] = results[j + 1] /\ j + 1 \in 1..Len(results)
      BY <1>3
    <3>2. i + 1 # j + 1
      BY <2>2
    <3>3. ChansOf(results[i + 1]) \cap ChansOf(results[j + 1]) = {}
      BY <3>1, <3>2 DEF PlanInv, CoreInv, ResultsInv
    <3>4. QED
      BY <3>1, <3>3 DEF ChansOf
  <2>3. QED
    BY <2>1, <2>2 DEF ResultsInv
<1>19. RequestsInv'
  <2>1. ASSUME NEW p \in Places
        PROVE  /\ There(Asked(p).flow)' /\ flows'[Asked(p).flow].origin = p[1]
               /\ Sound(Asked(p).updates)'
               /\ \A a \in Asked(p).updates : a.flow = Asked(p).flow
               /\ \A i \in 1..Len(results') : ChansOf(results[i])' \cap ChansOf(Asked(p).updates) = {}
    <3>1. PICK r : r = Asked(p)
      OBVIOUS
    <3>2. r.updates \in SUBSET AssignmentRecord /\ r.flow \in FlowIds /\ Asked(p)' = r
      BY <1>8, <1>11, <3>1, RequestIs DEF PlanInv
    <3>3. /\ There(r.flow) /\ flows[r.flow].origin = p[1] /\ Sound(r.updates)
          /\ \A a \in r.updates : a.flow = r.flow
          /\ \A i \in 1..Len(results) : ChansOf(results[i]) \cap ChansOf(r.updates) = {}
      BY <3>1 DEF PlanInv, CoreInv, RequestsInv
    <3>4. ChansOf(r.updates) \cap ChansOf(batch) = {}
      BY <1>3, <3>1
    <3>5. Sound(r.updates)'
      BY <1>17, <3>2, <3>3, <3>4
    <3>6. There(r.flow)' /\ flows'[r.flow].origin = p[1]
      BY <1>9, <3>2, <3>3
    <3>7. \A i \in 1..Len(results') : ChansOf(results[i])' \cap ChansOf(r.updates) = {}
      BY <1>3, <3>3 DEF ChansOf
    <3>8. QED
      BY <3>1, <3>2, <3>3, <3>5, <3>6, <3>7
  <2>2. ASSUME NEW p \in Places, NEW q \in Places, p # q
        PROVE  ChansOf(Asked(p).updates) \cap ChansOf(Asked(q).updates) = {} /\ Asked(p).flow # Asked(q).flow
    BY <2>2 DEF PlanInv, CoreInv, RequestsInv
  <2>3. QED
    BY <1>11, <2>1, <2>2 DEF RequestsInv, ChansOf
<1>20. StopsInv'
  <2>1. \A o \in Origins : stops[o] = << >>
    BY <1>2 DEF PlanInv, PhaseInv
  <2>2. QED
    BY <1>5, <2>1 DEF StopsInv
<1>21. RefcountsAreExact'
  <2>1. ASSUME NEW f \in FlowIds, NEW s \in Slots
        PROVE  IF flows'[f] = NoFlow THEN SinksAt(f, s) \cup Newcomers(batch, f, s) = {}
               ELSE flows'[f].refcount[s] = Cardinality(SinksAt(f, s) \cup Newcomers(batch, f, s))
    <3>1. IF flows[f] = NoFlow THEN SinksAt(f, s) = {} ELSE flows[f].refcount[s] = Cardinality(SinksAt(f, s))
      BY DEF PlanInv, CoreInv, RefcountsAreExact, SinksAt
    <3>2. CASE ~There(f)
      <4>1. Newcomers(batch, f, s) = {}
        BY <1>2, <3>2 DEF Newcomers, Ready
      <4>2. QED
        BY <1>9, <3>1, <3>2, <4>1 DEF There
    <3>3. CASE There(f)
      <4>1. SinksAt(f, s) \in SUBSET Connected /\ Newcomers(batch, f, s) \in SUBSET ChansOf(batch)
        BY DEF SinksAt, Newcomers, ChansOf
      <4>2. SinksAt(f, s) \cap Newcomers(batch, f, s) = {}
        BY <1>7, <4>1, ChannelSets
      <4>3. IsFiniteSet(SinksAt(f, s)) /\ IsFiniteSet(Newcomers(batch, f, s))
        BY <1>7, <4>1, ChannelsAssumption, ChannelSets, FS_Subset
      <4>4. Cardinality(SinksAt(f, s) \cup Newcomers(batch, f, s))
                = Cardinality(SinksAt(f, s)) + Cardinality(Newcomers(batch, f, s)) - Cardinality({})
        BY <4>2, <4>3, FS_Union
      <4>5. Cardinality({}) = 0 /\ Cardinality(SinksAt(f, s)) \in Nat /\ Cardinality(Newcomers(batch, f, s)) \in Nat
        BY <4>3, FS_EmptySet, FS_CardinalityType
      <4>6. Cardinality(SinksAt(f, s) \cup Newcomers(batch, f, s))
                = Cardinality(SinksAt(f, s)) + Cardinality(Newcomers(batch, f, s))
        BY <4>4, <4>5
      <4>7. flows'[f].refcount[s] = flows[f].refcount[s] + Cardinality(Newcomers(batch, f, s))
        BY <1>7, <1>9, <3>3
      <4>8. QED
        BY <1>9, <3>1, <3>3, <4>6, <4>7 DEF There
    <3>4. QED
      BY <3>2, <3>3
  <2>2. \A f, s : {c \in Connected' : channels'[c].remote = Remote(f, s)} = SinksAt(f, s) \cup Newcomers(batch, f, s)
    BY <1>4 DEF SinksAt
  <2> DEFINE sinks(g, s) == {d \in Connected' : channels'[d].remote = Remote(g, s)}
  <2>3. SUFFICES ASSUME NEW g \in FlowIds, NEW s \in Slots
                 PROVE  IF flows'[g] = NoFlow THEN sinks(g, s) = {}
                        ELSE flows'[g].refcount[s] = Cardinality(sinks(g, s))
    BY DEF RefcountsAreExact
  <2>4. sinks(g, s) = SinksAt(g, s) \cup Newcomers(batch, g, s)
    BY <2>2
  <2> HIDE DEF sinks
  <2>5. QED
    BY <2>1, <2>4
<1>22. QED
  BY <1>11, <1>12, <1>14, <1>15, <1>16, <1>18, <1>19, <1>20, <1>21 DEF PlanInv, CoreInv

-----------------------------------------------------------------------------
(* scan_flows *)

Gone(silent) == silent \cup {f \in FlowIds : There(f) /\ ~IsUsed(f)}
GoneBundles(silent) == {f \in Gone(silent) : IsBundle(f)}
Orphans(silent) == {c \in Connected : channels[c].remote.flow \in silent}

LEMMA EmptyList ==
    ASSUME NEW q, Lists(q, {})
    PROVE  q = << >>
<1>1. q \in Seq({}) /\ Len(q) \in Nat
  BY DEF Lists
<1>2. Len(q) = 0
  <2>1. CASE Len(q) # 0
    <3>1. 1 \in 1..Len(q)
      BY <1>1, <2>1
    <3>2. q[1] \in {}
      BY <1>1, <3>1, ElementOfSeq
    <3>3. QED
      BY <3>2
  <2>2. QED
    BY <2>1
<1>3. QED
  BY <1>1, <1>2

LEMMA AscendingFlows ==
    ASSUME NEW S \in SUBSET FlowIds
    PROVE  Lists(Ascending(S), S) /\ Ascending(S) \in Seq(FlowIds) /\ (S = {} => Ascending(S) = << >>)
<1>1. S \in SUBSET Int /\ IsFiniteSet(S)
  <2>1. FlowIds \subseteq Int /\ IsFiniteSet(FlowIds)
    BY FlowIdsAssumption
  <2>2. IsFiniteSet(S)
    BY <2>1, FS_Subset
  <2>3. QED
    BY <2>1, <2>2
<1>2. Lists(Ascending(S), S)
  BY <1>1, AscendingLists
<1>3. Ascending(S) \in Seq(FlowIds)
  BY <1>2 DEF Lists
<1>4. S = {} => Ascending(S) = << >>
  BY <1>2, EmptyList
<1>5. QED
  BY <1>2, <1>3, <1>4

LEMMA UnusedIsUnheard ==
    ASSUME PlanTypes, CoreInv, NEW f \in FlowIds, There(f), ~IsUsed(f), NEW s \in Slots
    PROVE  SinksAt(f, s) = {}
<1>1. flows[f].refcount[s] = Cardinality(SinksAt(f, s)) /\ ~(flows[f].refcount[s] > 0)
  BY DEF CoreInv, RefcountsAreExact, SinksAt, There, IsUsed
<1>2. IsFiniteSet(SinksAt(f, s))
  BY ChannelsAssumption, ChannelSets, FS_Subset DEF SinksAt
<1>3. Cardinality(SinksAt(f, s)) = 0
  BY <1>1, <1>2, FS_CardinalityType
<1>4. QED
  BY <1>2, <1>3, FS_EmptySet

\* Silent and unused flows are given up, with the channels connected to them.
LEMMA ScanIs ==
    ASSUME PlanInv, NEW silent \in SUBSET FlowIds, NEW receiving \in SUBSET FlowIds, Scan(silent, receiving),
           NEW gone, gone = Gone(silent), NEW bundles, bundles = GoneBundles(silent)
    PROVE  /\ at = "scan" /\ gone \in SUBSET FlowIds /\ silent \subseteq gone
           /\ \A f \in gone : There(f)
           /\ channels' \in [Channels -> {NoSub} \cup Subscriptions]
           /\ Connected' = Connected \ Orphans(silent)
           /\ \A c \in Connected' : channels'[c] = channels[c] /\ channels[c].remote.flow \notin gone
           /\ \A f \in FlowIds, s \in Slots : SinksAt(f, s)' = IF f \in gone THEN {} ELSE SinksAt(f, s)
           /\ flows' = [f \in FlowIds |-> IF f \in gone THEN NoFlow ELSE flows[f]]
           /\ stops' = [o \in Origins |-> Ascending({f \in gone \ bundles : flows[f].origin = o})]
           /\ at' = (IF gone \subseteq bundles THEN Pause ELSE "stop") /\ queue' = queue
           /\ requests' = requests /\ results' = results /\ queried' = queried /\ reused' = reused
<1> USE DEF PlanInv
<1>1. channels \in [Channels -> {NoSub} \cup Subscriptions]
  BY DEF PlanTypes
<1>2. /\ at = "scan" /\ silent \subseteq {f \in FlowIds : flows[f] # NoFlow}
      /\ requests' = requests /\ results' = results /\ queue' = queue /\ queried' = queried /\ reused' = reused
  BY DEF Scan
<1>3. gone = silent \cup {f \in {f \in FlowIds : flows[f] # NoFlow} : ~IsUsed(f)}
  BY DEF Gone, There
<1>4. gone \in SUBSET FlowIds /\ silent \subseteq gone /\ \A f \in gone : There(f)
  BY <1>2, <1>3 DEF There
<1>5. /\ flows' = [f \in FlowIds |-> IF f \in gone THEN NoFlow ELSE flows[f]]
      /\ stops' = [o \in Origins |-> Ascending({f \in gone \ bundles : flows[f].origin = o})]
      /\ at' = IF gone \subseteq bundles THEN Pause ELSE "stop"
  <2> DEFINE G == silent \cup {f \in {f \in FlowIds : flows[f] # NoFlow} : ~IsUsed(f)}
             F(g) == [f \in FlowIds |-> IF f \in g THEN NoFlow ELSE flows[f]]
             H(g, b) == [o \in Origins |-> Ascending({f \in g \ b : flows[f].origin = o})]
  <2>1. flows' = F(G) /\ stops' = H(G, {f \in G : IsBundle(f)})
        /\ at' = IF G \subseteq {f \in G : IsBundle(f)} THEN Pause ELSE "stop"
    BY DEF Scan
  <2>2. G = gone /\ {f \in G : IsBundle(f)} = bundles
    BY <1>3 DEF GoneBundles
  <2> HIDE DEF F, G, H
  <2>3. flows' = F(gone) /\ stops' = H(gone, bundles) /\ at' = IF gone \subseteq bundles THEN Pause ELSE "stop"
    BY <2>1, <2>2
  <2>4. QED
    BY <2>3 DEF F, H
<1> DEFINE orphans == Orphans(silent)
<1>6. channels' = [c \in Channels |-> IF c \in orphans THEN [channels[c] EXCEPT !.remote = NoRemote] ELSE channels[c]]
  BY DEF Scan, Orphans
<1>7. orphans \in SUBSET Connected
  BY DEF Orphans
<1>8. \A c \in Channels : c \in orphans =>
         /\ [channels[c] EXCEPT !.remote = NoRemote] \in Subscriptions
         /\ [channels[c] EXCEPT !.remote = NoRemote].remote = NoRemote
         /\ [channels[c] EXCEPT !.remote = NoRemote].source = channels[c].source
  <2> SUFFICES ASSUME NEW c \in Channels, c \in orphans
               PROVE  /\ [channels[c] EXCEPT !.remote = NoRemote] \in Subscriptions
                      /\ [channels[c] EXCEPT !.remote = NoRemote].remote = NoRemote
                      /\ [channels[c] EXCEPT !.remote = NoRemote].source = channels[c].source
    OBVIOUS
  <2>1. channels[c] \in Subscriptions
    BY <1>7, SubscriptionIs DEF Connected
  <2>2. QED
    BY <2>1 DEF Subscriptions
<1> HIDE DEF orphans
<1>9. \A c \in Channels : c \notin orphans => channels'[c] = channels[c]
  BY <1>6
<1>10. \A c \in Channels : c \in orphans => channels'[c] \in Subscriptions /\ channels'[c].remote = NoRemote
  BY <1>6, <1>8
<1>11. channels' \in [Channels -> {NoSub} \cup Subscriptions]
  <2>1. channels' \in [Channels -> {channels'[c] : c \in Channels}]
    BY <1>6
  <2>2. \A c \in Channels : channels'[c] \in {NoSub} \cup Subscriptions
    BY <1>1, <1>9, <1>10
  <2>3. QED
    BY <2>1, <2>2
<1>12. Connected' = Connected \ orphans
  <2>1. ASSUME NEW c \in Channels
        PROVE  c \in Connected' <=> c \in Connected /\ c \notin orphans
    <3>1. c \in Connected' <=> channels'[c] # NoSub /\ channels'[c].remote # NoRemote
      BY DEF Connected, Subscribed
    <3>2. c \in Connected <=> channels[c] # NoSub /\ channels[c].remote # NoRemote
      BY DEF Connected, Subscribed
    <3>3. QED
      BY <1>9, <1>10, <3>1, <3>2
  <2>2. Connected' \subseteq Channels /\ Connected \subseteq Channels
    BY DEF Connected, Subscribed
  <2>3. QED
    BY <2>1, <2>2
<1>13. \A c \in Connected' : /\ channels'[c] = channels[c] /\ channels[c].remote.flow \notin gone
  <2> SUFFICES ASSUME NEW c \in Connected \ orphans
               PROVE  channels'[c] = channels[c] /\ channels[c].remote.flow \notin gone
    BY <1>12
  <2>1. c \in Channels /\ channels'[c] = channels[c]
    BY <1>9, ChannelSets
  <2> DEFINE f == channels[c].remote.flow
             s == channels[c].remote.slot
  <2>2. f \in FlowIds /\ s \in Slots /\ channels[c].remote = Remote(f, s) /\ There(f)
    BY <2>1, SubscriptionIs DEF CoreInv, ConnectedInv, Ready
  <2>3. f \notin silent
    BY DEF Orphans, orphans
  <2>4. c \in SinksAt(f, s)
    BY <2>2 DEF SinksAt
  <2>5. IsUsed(f)
    BY <2>2, <2>4, UnusedIsUnheard
  <2>6. QED
    BY <1>3, <2>1, <2>3, <2>5
<1>14. ASSUME NEW f \in FlowIds, NEW s \in Slots
       PROVE  SinksAt(f, s)' = IF f \in gone THEN {} ELSE SinksAt(f, s)
  <2>1. SinksAt(f, s)' = {c \in Connected' : channels'[c].remote = Remote(f, s)}
    BY DEF SinksAt
  <2>2. CASE f \in gone
    <3>1. \A c \in Connected' : channels'[c].remote # Remote(f, s)
      BY <1>13, <2>2 DEF Remote
    <3>2. QED
      BY <2>1, <2>2, <3>1
  <2>3. CASE f \notin gone
    <3>1. \A c \in Connected : channels[c].remote = Remote(f, s) => c \in Connected'
      BY <1>4, <1>12, <2>3 DEF Orphans, orphans, Remote
    <3>2. Connected' \subseteq Connected
      BY <1>12
    <3>3. QED
      BY <1>13, <2>1, <2>3, <3>1, <3>2 DEF SinksAt
  <2>4. QED
    BY <2>2, <2>3
<1>15. QED
  BY <1>2, <1>4, <1>5, <1>11, <1>12, <1>13, <1>14 DEF orphans

LEMMA ScanPlan ==
    ASSUME PlanInv, NEW silent \in SUBSET FlowIds, NEW receiving \in SUBSET FlowIds, Scan(silent, receiving),
           NEW gone, gone = Gone(silent), NEW bundles, bundles = GoneBundles(silent)
    PROVE  /\ PlanInv'
           /\ \A f \in FlowIds : /\ Ready(f)' <=> Ready(f) /\ f \notin gone
                                 /\ Leaving(f)' <=> f \in gone \ bundles
                                 /\ ~Leaving(f) /\ (Ready(f) <=> There(f))
<1> USE DEF PlanInv
<1>1. /\ at = "scan" /\ gone \in SUBSET FlowIds
      /\ \A f \in gone : There(f)
      /\ channels' \in [Channels -> {NoSub} \cup Subscriptions]
      /\ \A c \in Connected' : channels'[c] = channels[c] /\ channels[c].remote.flow \notin gone
      /\ requests' = requests /\ results' = results /\ queried' = queried /\ reused' = reused /\ queue' = queue
      /\ Connected' = Connected \ Orphans(silent)
  BY ScanIs
<1>2. \A f \in FlowIds, s \in Slots : SinksAt(f, s)' = IF f \in gone THEN {} ELSE SinksAt(f, s)
  BY ScanIs
<1>3. /\ flows' = [f \in FlowIds |-> IF f \in gone THEN NoFlow ELSE flows[f]]
      /\ stops' = [o \in Origins |-> Ascending({f \in gone \ bundles : flows[f].origin = o})]
      /\ at' = (IF gone \subseteq bundles THEN Pause ELSE "stop")
  BY ScanIs
<1>4. Places = {} /\ results = << >> /\ \A o \in Origins : stops[o] = << >>
  BY <1>1 DEF PhaseInv
<1>5. Places' = {}
  BY <1>1, <1>4 DEF Places
<1>6. flows \in [FlowIds -> {NoFlow} \cup FlowRecord]
  BY DEF PlanTypes
<1>7. \A f \in FlowIds : There(f)' <=> There(f) /\ f \notin gone
  BY <1>3 DEF There
<1>8. \A f \in FlowIds : (Ready(f)' <=> Ready(f) /\ f \notin gone) /\ (Ready(f) <=> There(f))
  BY <1>4, <1>5, <1>7 DEF Ready, Coming
<1> DEFINE left(o) == {f \in gone \ bundles : flows[f].origin = o}
<1>9. \A o \in Origins : Lists(stops'[o], left(o)) /\ stops'[o] \in Seq(FlowIds) /\ (left(o) = {} => stops'[o] = << >>)
  <2>1. \A o \in Origins : left(o) \in SUBSET FlowIds /\ stops'[o] = Ascending(left(o))
    BY <1>1, <1>3
  <2> HIDE DEF left
  <2>2. QED
    BY <2>1, AscendingFlows
<1>10. stops' \in [Origins -> Seq(FlowIds)]
  BY <1>3, <1>9
<1>11. \A o \in Origins : \A k \in 1..Len(stops'[o]) : stops'[o][k] \in left(o)
  <2> SUFFICES ASSUME NEW o \in Origins, NEW k \in 1..Len(stops'[o])
               PROVE  stops'[o][k] \in left(o)
    OBVIOUS
  <2> HIDE DEF left
  <2>1. stops'[o] \in Seq(left(o))
    BY <1>9 DEF Lists
  <2>2. QED
    BY <2>1, ElementOfSeq
<1>12. PlanTypes'
  <2>1. at' \in {"idle", "batch", "decide", "query", "waiting", "results", "scan", "stop", "stopping"}
    BY <1>3 DEF Pause
  <2>2. flows' \in [FlowIds -> {NoFlow} \cup FlowRecord]
    BY <1>3, <1>6
  <2>3. QED
    BY <1>1, <1>10, <2>1, <2>2 DEF PlanTypes
<1>13. PhaseInv'
  <2>1. at' \in {"idle", "batch", "stop"} /\ (at' = "batch" => queue' # << >>)
    BY <1>1, <1>3 DEF Pause
  <2>2. ASSUME at' # "stop", NEW o \in Origins
        PROVE  stops'[o] = << >>
    <3>1. gone \subseteq bundles
      BY <1>3, <2>2
    <3>2. left(o) = {}
      BY <3>1
    <3>3. QED
      BY <1>9, <3>2
  <2>3. QED
    BY <1>1, <1>4, <1>5, <2>1, <2>2 DEF PhaseInv
<1>14. ConnectedInv'
  <2> SUFFICES ASSUME NEW c \in Connected'
               PROVE  Ready(channels[c].remote.flow)'
    BY DEF ConnectedInv
  <2>1. c \in Connected /\ c \in Channels /\ channels'[c] = channels[c] /\ channels[c].remote.flow \notin gone
    BY <1>1, ChannelSets
  <2>2. channels[c].remote.flow \in FlowIds /\ Ready(channels[c].remote.flow)
    BY <2>1, SubscriptionIs DEF CoreInv, ConnectedInv
  <2>3. \A f \in FlowIds : f = channels[c].remote.flow => Ready(f)'
    BY <1>8, <2>1, <2>2
  <2>4. QED
    BY <2>1, <2>2, <2>3
<1>15. ResultsInv'
  BY <1>1, <1>4 DEF ResultsInv
<1>16. RequestsInv'
  BY <1>5 DEF RequestsInv
<1>17. StopsInv'
  <2>1. \A o \in Origins : \A k \in 1..Len(stops'[o]) : ~There(stops[o][k])'
    <3> SUFFICES ASSUME NEW o \in Origins, NEW k \in 1..Len(stops'[o])
                 PROVE  ~There(stops[o][k])'
      OBVIOUS
    <3>1. stops'[o][k] \in gone /\ stops'[o][k] \in FlowIds
      BY <1>1, <1>11
    <3>2. QED
      BY <1>3, <3>1 DEF There
  <2>2. ASSUME NEW o \in Origins, NEW u \in Origins,
               NEW j \in 1..Len(stops'[o]), NEW k \in 1..Len(stops'[u]), stops'[o][j] = stops'[u][k]
        PROVE  o = u /\ j = k
    <3>1. stops'[o][j] \in left(o) /\ stops'[u][k] \in left(u)
      BY <1>11
    <3>2. o = u
      BY <2>2, <3>1
    <3> HIDE DEF left
    <3>3. Lists(stops'[o], left(o))
      BY <1>9
    <3>4. QED
      BY <2>2, <3>2, <3>3 DEF Lists
  <2>3. QED
    BY <2>1, <2>2 DEF StopsInv
<1>18. RefcountsAreExact'
  <2>1. ASSUME NEW f \in FlowIds, NEW s \in Slots
        PROVE  IF flows'[f] = NoFlow THEN SinksAt(f, s)' = {} ELSE flows'[f].refcount[s] = Cardinality(SinksAt(f, s)')
    <3>1. IF flows[f] = NoFlow THEN SinksAt(f, s) = {} ELSE flows[f].refcount[s] = Cardinality(SinksAt(f, s))
      BY DEF CoreInv, RefcountsAreExact, SinksAt
    <3>2. CASE f \in gone
      BY <1>2, <1>3, <3>2
    <3>3. CASE f \notin gone
      <4>1. flows'[f] = flows[f] /\ SinksAt(f, s)' = SinksAt(f, s)
        BY <1>2, <1>3, <3>3
      <4>2. QED
        BY <3>1, <4>1
    <3>4. QED
      BY <3>2, <3>3
  <2>2. QED
    BY <2>1 DEF RefcountsAreExact, SinksAt
<1>19. \A f \in FlowIds : ~Leaving(f) /\ (Leaving(f)' <=> f \in gone \ bundles)
  <2> SUFFICES ASSUME NEW f \in FlowIds
               PROVE  ~Leaving(f) /\ (Leaving(f)' <=> f \in gone \ bundles)
    OBVIOUS
  <2>1. ~Leaving(f)
    BY <1>4 DEF Leaving
  <2>2. Leaving(f)' => f \in gone \ bundles
    BY <1>11 DEF Leaving
  <2>3. ASSUME f \in gone \ bundles
        PROVE  Leaving(f)'
    <3> DEFINE o == flows[f].origin
    <3>1. o \in Origins /\ f \in left(o)
      BY <1>1, <2>3, FlowIs
    <3>2. PICK u : u = o
      OBVIOUS
    <3>3. u \in Origins /\ f \in left(u)
      BY <3>1, <3>2
    <3> HIDE DEF left
    <3>4. \E k \in 1..Len(stops'[u]) : stops'[u][k] = f
      BY <1>9, <3>3 DEF Lists
    <3>5. QED
      BY <3>3, <3>4 DEF Leaving
  <2>4. QED
    BY <2>1, <2>2, <2>3
<1>20. QED
  BY <1>8, <1>12, <1>13, <1>14, <1>15, <1>16, <1>17, <1>18, <1>19 DEF CoreInv

-----------------------------------------------------------------------------
(* The orders of a plan *)

LEMMA SlotsAre ==
    /\ Slots \subseteq Nat /\ FlowIds \subseteq Nat
    /\ Cardinality(Slots) \in Nat \ {0}
    /\ \A i \in 1..Cardinality(Slots) : i - 1 \in Slots
<1> DEFINE n == Cardinality(Slots)
<1>1. n \in Nat /\ n # 0
  BY SlotsAssumption, FS_CardinalityType, FS_EmptySet
<1>2. \A x : x \in Slots <=> x \in 0..(n - 1)
  BY SlotsAssumption
<1> HIDE DEF n
<1>3. Slots \subseteq Nat /\ \A i \in 1..n : i - 1 \in Slots
  BY <1>1, <1>2
<1>4. QED
  BY <1>1, <1>3, FlowIdsAssumption DEF n

\* The free slots are given away one by one.
LEMMA PlacesList ==
    ASSUME NEW S \in SUBSET (FlowIds \X Slots)
    PROVE  Lists(InOrder(S, Before), S) /\ IsFiniteSet(S)
<1> DEFINE R == {p \in S \X S : Before(p[1], p[2])}
<1>0. IsFiniteSet(S)
  <2>1. IsFiniteSet(FlowIds \X Slots)
    BY FlowIdsAssumption, SlotsAssumption, FS_Product
  <2>2. QED
    BY <2>1, FS_Subset
<1>1. \A x, y \in S : <<x, y>> \in R <=> Before(x, y)
  OBVIOUS
<1> HIDE DEF R
<1>2. StrictOrder(S, R)
  <2>0. FlowIds \subseteq Int /\ Slots \subseteq Int
    BY SlotsAre
  <2>6. \A x \in S : x[1] \in FlowIds /\ x[2] \in Slots /\ x = <<x[1], x[2]>>
    OBVIOUS
  <2>1. \A x \in S : x[1] \in Int /\ x[2] \in Int /\ x = <<x[1], x[2]>>
    BY <2>0, <2>6
  <2>2. \A x \in S : ~Before(x, x)
    BY <2>1 DEF Before
  <2>3. \A x, y, z \in S : Before(x, y) /\ Before(y, z) => Before(x, z)
    BY <2>1 DEF Before
  <2>4. \A x, y \in S : x = y \/ Before(x, y) \/ Before(y, x)
    BY <2>1 DEF Before
  <2>5. QED
    BY <1>1, <2>2, <2>3, <2>4 DEF StrictOrder
<1>3. \A x \in S : Below(S, R, x) = {y \in S : Before(y, x)}
  <2> SUFFICES ASSUME NEW x \in S
               PROVE  Below(S, R, x) = {y \in S : Before(y, x)}
    OBVIOUS
  <2>1. \A y \in S : <<y, x>> \in R <=> Before(y, x)
    BY <1>1
  <2>2. QED
    BY <2>1 DEF Below
<1> DEFINE q == InOrder(S, Before)
           n == Cardinality(S)
<1>4. q = [i \in 1..n |-> CHOOSE x \in S : Cardinality({y \in S : Before(y, x)}) = i - 1]
  BY DEF InOrder
<1> HIDE DEF q, n
<1> DEFINE e(i) == CHOOSE x \in S : Cardinality({y \in S : Before(y, x)}) = i - 1
<1>5. q \in [1..n -> {e(i) : i \in 1..n}]
  <2>1. q = [i \in 1..n |-> e(i)]
    BY <1>4
  <2> HIDE DEF e
  <2>2. QED
    BY <2>1
<1>6. ASSUME NEW i \in 1..n, NEW z \in S, Cardinality(Below(S, R, z)) = i - 1
      PROVE  q[i] \in S /\ Cardinality(Below(S, R, q[i])) = i - 1
  <2>1. Cardinality({y \in S : Before(y, z)}) = i - 1
    BY <1>3, <1>6
  <2>2. q[i] = CHOOSE x \in S : Cardinality({y \in S : Before(y, x)}) = i - 1
    BY <1>4
  <2>3. q[i] \in S /\ Cardinality({y \in S : Before(y, q[i])}) = i - 1
    BY <2>1, <2>2
  <2>4. QED
    BY <1>3, <2>3
<1> HIDE DEF e
<1>7. QED
  BY <1>0, <1>2, <1>5, <1>6, NumberedLists DEF n, q

\* What a source is needed for: channels of its own.
LEMMA NeededAre ==
    ASSUME PlanTypes, NEW x \in SourcesOf(Needed)
    PROVE  /\ x \in Sources /\ NeededAs(x) # {} /\ NeededAs(x) \in SUBSET Needed
           /\ NeededAs(x) \in SUBSET Nat /\ Min(NeededAs(x)) \in NeededAs(x)
           /\ \A c \in NeededAs(x) : c \in Channels /\ channels[c].source = x
<1>1. PICK c \in Needed : channels[c].source = x
  BY DEF SourcesOf
<1>2. c \in Channels /\ c \in Subscribed
  BY ChannelSets, <1>1 DEF Needed
<1>3. x \in Sources
  BY <1>1, <1>2, SubscriptionIs
<1>4. NeededAs(x) # {} /\ NeededAs(x) \in SUBSET Needed /\ \A d \in NeededAs(x) : channels[d].source = x
  BY <1>1 DEF NeededAs
<1>5. NeededAs(x) \in SUBSET Nat /\ \A d \in NeededAs(x) : d \in Channels
  BY <1>4, ChannelSets, ChannelsAssumption
<1>6. Min(NeededAs(x)) \in NeededAs(x)
  BY <1>4, <1>5, MinOf
<1>7. QED
  BY <1>3, <1>4, <1>5, <1>6

Rest(o, found) == {x \in found \ Flowing(found) : Origin[x] = o}

\* The other sources of an origin, one by one.
LEMMA RemainingList ==
    ASSUME PlanTypes, NEW found \in SUBSET SourcesOf(Needed), NEW o
    PROVE  Lists(Remaining(o, found), Rest(o, found))
<1> DEFINE S == Rest(o, found)
           m(x) == Min(NeededAs(x))
           R == {p \in S \X S : m(p[1]) < m(p[2])}
<1>0. S \subseteq SourcesOf(Needed)
  BY DEF Rest
<1>10. IsFiniteSet(S)
  <2>1. IsFiniteSet(Needed)
    BY ChannelsAssumption, ChannelSets, FS_Subset
  <2> DEFINE src == [c \in Needed |-> channels[c].source]
  <2>2. src \in Surjection(Needed, SourcesOf(Needed))
    BY DEF Surjection, SourcesOf
  <2> HIDE DEF src
  <2>3. IsFiniteSet(SourcesOf(Needed))
    BY <2>1, <2>2, FS_Surjection
  <2>4. QED
    BY <1>0, <2>3, FS_Subset
<1>11. \A x \in S : m(x) \in Nat
  BY <1>0, NeededAre
<1>12. \A x, y \in S : m(x) = m(y) => x = y
  <2> SUFFICES ASSUME NEW x \in S, NEW y \in S, m(x) = m(y)
               PROVE  x = y
    OBVIOUS
  <2>1. m(x) \in NeededAs(x) /\ m(y) \in NeededAs(y)
    BY <1>0, NeededAre
  <2>2. QED
    BY <2>1 DEF NeededAs
<1>4. Remaining(o, found) = [i \in 1..Cardinality(S) |-> CHOOSE x \in S : Cardinality({y \in S : m(y) < m(x)}) = i - 1]
  BY DEF Remaining, InOrder, Rest
<1> HIDE DEF m, S
<1>1. \A x, y \in S : <<x, y>> \in R <=> m(x) < m(y)
  OBVIOUS
<1> HIDE DEF R
<1>2. StrictOrder(S, R)
  <2>2. \A x \in S : ~(m(x) < m(x))
    BY <1>11
  <2>3. \A x, y, z \in S : m(x) < m(y) /\ m(y) < m(z) => m(x) < m(z)
    BY <1>11
  <2>4. \A x, y \in S : x = y \/ m(x) < m(y) \/ m(y) < m(x)
    BY <1>11, <1>12
  <2>5. QED
    BY <1>1, <2>2, <2>3, <2>4 DEF StrictOrder
<1>3. \A x \in S : Below(S, R, x) = {y \in S : m(y) < m(x)}
  <2> SUFFICES ASSUME NEW x \in S
               PROVE  Below(S, R, x) = {y \in S : m(y) < m(x)}
    OBVIOUS
  <2>1. \A y \in S : <<y, x>> \in R <=> m(y) < m(x)
    BY <1>1
  <2>2. QED
    BY <2>1 DEF Below
<1> DEFINE q == Remaining(o, found)
           n == Cardinality(S)
<1>13. q = [i \in 1..n |-> CHOOSE x \in S : Cardinality({y \in S : m(y) < m(x)}) = i - 1]
  BY <1>4
<1> HIDE DEF q, n
<1> DEFINE e(i) == CHOOSE x \in S : Cardinality({y \in S : m(y) < m(x)}) = i - 1
<1>5. q \in [1..n -> {e(i) : i \in 1..n}]
  <2>1. q = [i \in 1..n |-> e(i)]
    BY <1>13
  <2> HIDE DEF e
  <2>2. QED
    BY <2>1
<1>6. ASSUME NEW i \in 1..n, NEW z \in S, Cardinality(Below(S, R, z)) = i - 1
      PROVE  q[i] \in S /\ Cardinality(Below(S, R, q[i])) = i - 1
  <2>1. Cardinality({y \in S : m(y) < m(z)}) = i - 1
    BY <1>3, <1>6
  <2>2. q[i] = CHOOSE x \in S : Cardinality({y \in S : m(y) < m(x)}) = i - 1
    BY <1>13
  <2>3. q[i] \in S /\ Cardinality({y \in S : m(y) < m(q[i])}) = i - 1
    BY <2>1, <2>2
  <2>4. QED
    BY <1>3, <2>3
<1> HIDE DEF e
<1>7. Lists(q, S)
  BY <1>10, <1>2, <1>5, <1>6, NumberedLists DEF n
<1>8. QED
  BY <1>7 DEF q, S

-----------------------------------------------------------------------------
(* One sequence after another *)

\* The sequences up to the i-th one, joined.
Joins(g, seqs) == g[0] = << >> /\ \A i \in 1..Len(seqs) : g[i] = g[i - 1] \o seqs[i]

LEMMA FlattenIs ==
    ASSUME NEW T, NEW seqs \in Seq(Seq(T))
    PROVE  \E g \in [0..Len(seqs) -> Seq(T)] : Joins(g, seqs) /\ FlattenSeq(seqs) = g[Len(seqs)]
<1> DEFINE n == Len(seqs)
           Flat(g, m) == /\ g \in [1..m -> Seq(T)]
                         /\ \A i \in 1..m : g[i] = IF i = 1 THEN seqs[i] ELSE g[i - 1] \o seqs[i]
           Good(m) == m <= n => \E g : Flat(g, m)
<1>1. n \in Nat /\ \A i \in 1..n : seqs[i] \in Seq(T)
  <2>1. n \in Nat
    OBVIOUS
  <2>2. \A i \in 1..n : seqs[i] \in Seq(T)
    BY ElementOfSeq
  <2>3. QED
    BY <2>1, <2>2
<1> HIDE DEF n
<1>2. Good(0)
  <2>1. Flat([i \in 1..0 |-> << >>], 0)
    OBVIOUS
  <2>2. QED
    BY <2>1
<1>3. ASSUME NEW m \in Nat, Good(m)
      PROVE  Good(m + 1)
  <2> SUFFICES ASSUME m + 1 <= n
               PROVE  \E g : Flat(g, m + 1)
    OBVIOUS
  <2>1. PICK g : Flat(g, m)
    BY <1>1, <1>3
  <2> DEFINE last == IF m = 0 THEN seqs[1] ELSE g[m] \o seqs[m + 1]
             h == [i \in 1..m + 1 |-> IF i = m + 1 THEN last ELSE g[i]]
  <2>2. last \in Seq(T)
    <3>1. seqs[m + 1] \in Seq(T)
      BY <1>1
    <3>2. CASE m = 0
      BY <3>1, <3>2
    <3>3. CASE m # 0
      <4>1. g[m] \in Seq(T)
        BY <2>1, <3>3
      <4>2. QED
        BY <3>1, <3>3, <4>1, ConcatProperties
    <3>4. QED
      BY <3>2, <3>3
  <2>3. h \in [1..m + 1 -> Seq(T)]
    <3>1. ASSUME NEW i \in 1..m + 1, i # m + 1
          PROVE  g[i] \in Seq(T)
      <4>1. i \in 1..m
        BY <3>1
      <4>2. QED
        BY <2>1, <4>1
    <3> HIDE DEF last
    <3>2. QED
      BY <2>2, <3>1
  <2> HIDE DEF Flat
  <2>6. /\ g \in [1..m -> Seq(T)]
        /\ \A i \in 1..m : g[i] = IF i = 1 THEN seqs[i] ELSE g[i - 1] \o seqs[i]
    BY <2>1 DEF Flat
  <2> HIDE DEF last
  <2>7. m = 0 => last = seqs[1]
    BY DEF last
  <2>8. m # 0 => last = g[m] \o seqs[m + 1]
    BY DEF last
  <2>4. ASSUME NEW i \in 1..m + 1
        PROVE  h[i] = IF i = 1 THEN seqs[i] ELSE h[i - 1] \o seqs[i]
    <3>1. CASE i = m + 1
      <4>1. h[i] = last
        BY <3>1
      <4>2. CASE m = 0
        BY <2>7, <3>1, <4>1, <4>2
      <4>3. CASE m # 0
        <5>1. h[i - 1] = g[m] /\ i # 1
          BY <3>1, <4>3
        <5>2. h[i] = h[i - 1] \o seqs[i]
          BY <2>8, <3>1, <4>1, <4>3, <5>1
        <5>3. QED
          BY <5>1, <5>2
      <4>4. QED
        BY <4>2, <4>3
    <3>2. CASE i # m + 1
      <4>1. i \in 1..m /\ h[i] = g[i]
        BY <3>2
      <4>2. i # 1 => i - 1 \in 1..m /\ h[i - 1] = g[i - 1]
        BY <4>1
      <4>3. g[i] = IF i = 1 THEN seqs[i] ELSE g[i - 1] \o seqs[i]
        BY <2>6, <4>1
      <4> HIDE DEF h
      <4>4. QED
        BY <4>1, <4>2, <4>3
    <3>3. QED
      BY <3>1, <3>2
  <2> HIDE DEF h
  <2>5. Flat(h, m + 1)
    BY <2>3, <2>4 DEF Flat
  <2>9. QED
    BY <2>5
<1>4. PICK g : Flat(g, n)
  <2> DEFINE All == {m \in Nat : Good(m)}
  <2> HIDE DEF Good
  <2>1. 0 \in All /\ \A m \in Nat : m \in All => m + 1 \in All
    BY <1>2, <1>3
  <2> HIDE DEF All
  <2>2. n \in All
    BY <1>1, <2>1, EveryNumber
  <2>3. Good(n)
    BY <2>2 DEF All
  <2> HIDE DEF Flat
  <2>4. n <= n
    BY <1>1
  <2>5. QED
    BY <2>3, <2>4 DEF Good
<1>5. CASE n = 0
  <2>1. seqs = << >>
    BY <1>5 DEF n
  <2>2. FlattenSeq(seqs) = << >>
    BY <1>5, <2>1 DEF FlattenSeq, n
  <2> DEFINE h == [i \in 0..n |-> << >>]
  <2>3. h \in [0..n -> Seq(T)] /\ Joins(h, seqs) /\ FlattenSeq(seqs) = h[n]
    BY <1>5, <2>2 DEF Joins, n
  <2>4. QED
    BY <2>3 DEF n
<1>6. CASE n # 0
  <2> DEFINE flatten == CHOOSE f : f = [i \in 1..n |-> IF i = 1 THEN seqs[i] ELSE f[i - 1] \o seqs[i]]
  <2>1. FlattenSeq(seqs) = flatten[n]
    BY <1>6 DEF FlattenSeq, n
  <2>2. g = [i \in 1..n |-> IF i = 1 THEN seqs[i] ELSE g[i - 1] \o seqs[i]]
    BY <1>4
  <2>3. flatten = [i \in 1..n |-> IF i = 1 THEN seqs[i] ELSE flatten[i - 1] \o seqs[i]]
    BY <2>2
  <2> HIDE DEF flatten
  <2> DEFINE same == {m \in Nat : m \in 1..n => flatten[m] = g[m]}
  <2>4. 0 \in same
    OBVIOUS
  <2>5. \A m \in Nat : m \in same => m + 1 \in same
    <3> SUFFICES ASSUME NEW m \in Nat, m \in same, m + 1 \in 1..n
                 PROVE  flatten[m + 1] = g[m + 1]
      OBVIOUS
    <3>1. flatten[m + 1] = IF m + 1 = 1 THEN seqs[m + 1] ELSE flatten[(m + 1) - 1] \o seqs[m + 1]
      BY <2>3
    <3>2. g[m + 1] = IF m + 1 = 1 THEN seqs[m + 1] ELSE g[(m + 1) - 1] \o seqs[m + 1]
      BY <1>4
    <3>3. m # 0 => flatten[m] = g[m]
      BY <1>1
    <3>4. (m + 1) - 1 = m /\ (m + 1 = 1 <=> m = 0)
      OBVIOUS
    <3>5. QED
      BY <3>1, <3>2, <3>3, <3>4
  <2>6. flatten[n] = g[n]
    <3> HIDE DEF same
    <3>1. n \in same
      BY <1>1, <2>4, <2>5, EveryNumber
    <3>2. QED
      BY <1>1, <1>6, <3>1 DEF same
  <2> DEFINE h == [i \in 0..n |-> IF i = 0 THEN << >> ELSE g[i]]
  <2>7. h \in [0..n -> Seq(T)]
    <3>1. \A i \in 0..n : i # 0 => g[i] \in Seq(T)
      BY <1>1, <1>4
    <3>2. << >> \in Seq(T)
      OBVIOUS
    <3>3. QED
      BY <3>1, <3>2
  <2>8. ASSUME NEW i \in 1..n
        PROVE  h[i] = h[i - 1] \o seqs[i]
    <3>1. h[i] = g[i] /\ seqs[i] \in Seq(T)
      BY <1>1
    <3>2. CASE i = 1
      <4>1. h[i - 1] = << >> /\ g[i] = seqs[i]
        <5>1. h[i - 1] = h[0] /\ 0 \in 0..n
          BY <1>1, <3>2
        <5>2. h[0] = << >>
          BY <5>1
        <5>3. QED
          BY <1>4, <3>2, <5>1, <5>2
      <4>2. << >> \o seqs[i] = seqs[i]
        BY <3>1
      <4>3. QED
        BY <3>1, <4>1, <4>2
    <3>3. CASE i # 1
      <4>1. h[i - 1] = g[i - 1]
        BY <1>1, <3>3
      <4>2. QED
        BY <1>4, <3>1, <3>3, <4>1
    <3>4. QED
      BY <3>2, <3>3
  <2>9. h[0] = << >> /\ h[n] = g[n]
    BY <1>1, <1>6
  <2> HIDE DEF h
  <2>10. Joins(h, seqs)
    BY <2>8, <2>9 DEF Joins, n
  <2>11. QED
    BY <2>1, <2>6, <2>7, <2>9, <2>10 DEF n
<1>7. QED
  BY <1>5, <1>6

\* The places of the elements of the joined sequence in the sequences.
PlacesUpTo(seqs, m) == {p \in (1..m) \X (Nat \ {0}) : p[2] <= Len(seqs[p[1]])}
Traced(tag, q, seqs, m) ==
    /\ tag \in [1..Len(q) -> PlacesUpTo(seqs, m)]
    /\ \A k \in 1..Len(q) : q[k] = seqs[tag[k][1]][tag[k][2]]
    /\ \A j, k \in 1..Len(q) : tag[j] = tag[k] => j = k

LEMMA FlattenTraced ==
    ASSUME NEW T, NEW seqs \in Seq(Seq(T))
    PROVE  FlattenSeq(seqs) \in Seq(T) /\ \E tag : Traced(tag, FlattenSeq(seqs), seqs, Len(seqs))
<1> DEFINE n == Len(seqs)
<1>1. PICK g \in [0..n -> Seq(T)] : Joins(g, seqs) /\ FlattenSeq(seqs) = g[n]
  BY FlattenIs
<1>2. n \in Nat /\ \A i \in 1..n : seqs[i] \in Seq(T)
  <2>1. n \in Nat
    OBVIOUS
  <2>2. \A i \in 1..n : seqs[i] \in Seq(T)
    BY ElementOfSeq
  <2>3. QED
    BY <2>1, <2>2
<1>3. g[0] = << >> /\ \A i \in 1..n : g[i] = g[i - 1] \o seqs[i]
  BY <1>1 DEF Joins
<1> HIDE DEF n
<1> DEFINE Good(m) == m <= n => \E tag : Traced(tag, g[m], seqs, m)
<1>4. Good(0)
  <2>1. Traced([k \in 1..0 |-> 0], g[0], seqs, 0)
    BY <1>3 DEF Traced
  <2>2. QED
    BY <2>1
<1>5. ASSUME NEW m \in Nat, Good(m)
      PROVE  Good(m + 1)
  <2> SUFFICES ASSUME m + 1 <= n
               PROVE  \E tag : Traced(tag, g[m + 1], seqs, m + 1)
    OBVIOUS
  <2>1. PICK tag : Traced(tag, g[m], seqs, m)
    BY <1>2, <1>5
  <2> DEFINE a == g[m]
             b == seqs[m + 1]
             q == g[m + 1]
             next == [k \in 1..Len(q) |-> IF k <= Len(a) THEN tag[k] ELSE <<m + 1, k - Len(a)>>]
  <2>2. a \in Seq(T) /\ b \in Seq(T) /\ q = a \o b
    <3>1. (m + 1) - 1 = m /\ m + 1 \in 1..n /\ m \in 0..n
      BY <1>2
    <3>2. QED
      BY <1>1, <1>2, <1>3, <3>1
  <2> HIDE DEF a, b, q
  <2>3. /\ Len(q) = Len(a) + Len(b) /\ Len(a) \in Nat /\ Len(b) \in Nat
        /\ \A k \in 1..Len(q) : q[k] = IF k <= Len(a) THEN a[k] ELSE b[k - Len(a)]
    BY <2>2, ConcatProperties
  <2>4. /\ tag \in [1..Len(a) -> PlacesUpTo(seqs, m)]
        /\ \A k \in 1..Len(a) : a[k] = seqs[tag[k][1]][tag[k][2]]
        /\ \A j, k \in 1..Len(a) : tag[j] = tag[k] => j = k
    BY <2>1 DEF Traced, a
  <2>5. \A k \in 1..Len(q) : \/ k \in 1..Len(a) /\ next[k] = tag[k]
                             \/ k > Len(a) /\ k - Len(a) \in 1..Len(b) /\ next[k] = <<m + 1, k - Len(a)>>
    BY <2>3
  <2>6. \A k \in 1..Len(a) : /\ tag[k] \in PlacesUpTo(seqs, m + 1) /\ tag[k][1] \in 1..m
    <3> SUFFICES ASSUME NEW k \in 1..Len(a)
                 PROVE  tag[k] \in PlacesUpTo(seqs, m + 1) /\ tag[k][1] \in 1..m
      OBVIOUS
    <3>1. tag[k] \in PlacesUpTo(seqs, m)
      BY <2>4
    <3>2. QED
      BY <3>1 DEF PlacesUpTo
  <2>7. \A j \in 1..Len(b) : <<m + 1, j>> \in PlacesUpTo(seqs, m + 1)
    BY <2>3 DEF PlacesUpTo, b
  <2>8. next \in [1..Len(q) -> PlacesUpTo(seqs, m + 1)]
    BY <2>5, <2>6, <2>7
  <2> HIDE DEF next
  <2>9. ASSUME NEW k \in 1..Len(q)
        PROVE  q[k] = seqs[next[k][1]][next[k][2]]
    <3>1. CASE k \in 1..Len(a) /\ next[k] = tag[k]
      <4>1. q[k] = a[k]
        BY <2>3, <3>1
      <4>2. QED
        BY <2>4, <3>1, <4>1
    <3>2. CASE k > Len(a) /\ k - Len(a) \in 1..Len(b) /\ next[k] = <<m + 1, k - Len(a)>>
      <4>1. q[k] = b[k - Len(a)]
        BY <2>3, <3>2
      <4>2. next[k][1] = m + 1 /\ next[k][2] = k - Len(a)
        BY <3>2
      <4>3. QED
        BY <4>1, <4>2 DEF b
    <3>3. QED
      BY <2>5, <3>1, <3>2
  <2>10. ASSUME NEW j \in 1..Len(q), NEW k \in 1..Len(q), next[j] = next[k]
         PROVE  j = k
    <3>1. \A i \in 1..Len(q) : next[i][1] = m + 1 <=> i > Len(a)
      <4> SUFFICES ASSUME NEW i \in 1..Len(q)
                   PROVE  next[i][1] = m + 1 <=> i > Len(a)
        OBVIOUS
      <4>1. CASE i \in 1..Len(a) /\ next[i] = tag[i]
        BY <2>3, <2>6, <4>1
      <4>2. CASE i > Len(a) /\ i - Len(a) \in 1..Len(b) /\ next[i] = <<m + 1, i - Len(a)>>
        BY <4>2
      <4>3. QED
        BY <2>5, <4>1, <4>2
    <3>2. CASE j > Len(a) /\ k > Len(a)
      <4>1. \A i \in 1..Len(q) : i > Len(a) => next[i][2] = i - Len(a)
        <5> SUFFICES ASSUME NEW i \in 1..Len(q), i > Len(a)
                     PROVE  next[i][2] = i - Len(a)
          OBVIOUS
        <5>1. i \notin 1..Len(a)
          BY <2>3
        <5>2. next[i] = <<m + 1, i - Len(a)>>
          BY <2>5, <5>1
        <5>3. QED
          BY <5>2
      <4>2. j - Len(a) = k - Len(a)
        BY <2>10, <3>2, <4>1
      <4>3. QED
        BY <2>3, <4>2
    <3>3. CASE ~(j > Len(a)) /\ ~(k > Len(a))
      <4>1. j \in 1..Len(a) /\ k \in 1..Len(a) /\ next[j] = tag[j] /\ next[k] = tag[k]
        BY <2>3, <2>5, <3>3
      <4>2. QED
        BY <2>4, <2>10, <4>1
    <3>4. QED
      BY <2>10, <3>1, <3>2, <3>3
  <2>11. Traced(next, q, seqs, m + 1)
    BY <2>8, <2>9, <2>10 DEF Traced
  <2>12. QED
    BY <2>11 DEF q
<1>6. Good(n)
  <2> DEFINE All == {m \in Nat : Good(m)}
  <2> HIDE DEF Good
  <2>1. 0 \in All /\ \A m \in Nat : m \in All => m + 1 \in All
    BY <1>4, <1>5
  <2> HIDE DEF All
  <2>2. n \in All
    BY <1>2, <2>1, EveryNumber
  <2>3. QED
    BY <2>2 DEF All
<1>7. \E tag : Traced(tag, g[n], seqs, n)
  BY <1>2, <1>6
<1>8. g[n] \in Seq(T)
  BY <1>1, <1>2
<1>9. QED
  BY <1>1, <1>7, <1>8 DEF n

-----------------------------------------------------------------------------
(* What a batch gives to whom *)

\* A batch gives each of some sources a place, for channels that need it.
Gives(batch, X) ==
    /\ batch \in SUBSET AssignmentRecord
    /\ \A a \in batch : a.source \in X /\ a.chan \in NeededAs(a.source)
    /\ \A a, b \in batch : a.source = b.source => a.flow = b.flow /\ a.slot = b.slot

LEMMA GivesSound ==
    ASSUME NEW batch, NEW X, Gives(batch, X)
    PROVE  Sound(batch)
<1>1. \A a \in batch : a.chan \in Needed /\ a.source = channels[a.chan].source
  BY DEF Gives, NeededAs
<1>2. ASSUME NEW a \in batch, NEW b \in batch, a.chan = b.chan
      PROVE  a = b
  <2>1. a.source = b.source
    BY <1>1, <1>2
  <2>2. a.flow = b.flow /\ a.slot = b.slot
    BY <2>1 DEF Gives
  <2>3. a \in AssignmentRecord /\ b \in AssignmentRecord
    BY DEF Gives
  <2>4. QED
    BY <1>2, <2>1, <2>2, <2>3 DEF AssignmentRecord
<1>3. QED
  BY <1>1, <1>2 DEF Sound

LEMMA GivesApart ==
    ASSUME NEW batch, NEW X, Gives(batch, X), NEW other, NEW Y, Gives(other, Y), X \cap Y = {}
    PROVE  ChansOf(batch) \cap ChansOf(other) = {}
<1> SUFFICES ASSUME NEW a \in batch, NEW b \in other, a.chan = b.chan
             PROVE  FALSE
  BY DEF ChansOf
<1>1. a.source = channels[a.chan].source /\ b.source = channels[b.chan].source
  BY DEF Gives, NeededAs
<1>2. a.source \in X /\ b.source \in Y
  BY DEF Gives
<1>3. QED
  BY <1>1, <1>2

LEMMA GivesBoth ==
    ASSUME NEW batch, NEW X, Gives(batch, X), NEW other, NEW Y, Gives(other, Y), X \cap Y = {}
    PROVE  Gives(batch \cup other, X \cup Y)
<1>1. batch \cup other \in SUBSET AssignmentRecord
  BY DEF Gives
<1>2. \A a \in batch \cup other : a.source \in X \cup Y /\ a.chan \in NeededAs(a.source)
  BY DEF Gives
<1>3. ASSUME NEW a \in batch \cup other, NEW b \in batch \cup other, a.source = b.source
      PROVE  a.flow = b.flow /\ a.slot = b.slot
  <2>1. a \in batch => a.source \in X
    BY DEF Gives
  <2>2. b \in batch => b.source \in X
    BY DEF Gives
  <2>3. a \in other => a.source \in Y
    BY DEF Gives
  <2>4. b \in other => b.source \in Y
    BY DEF Gives
  <2>5. (a \in batch /\ b \in batch) \/ (a \in other /\ b \in other)
    BY <1>3, <2>1, <2>2, <2>3, <2>4
  <2>6. QED
    BY <1>3, <2>5 DEF Gives
<1>4. QED
  BY <1>1, <1>2, <1>3 DEF Gives

LEMMA AssignmentsAre ==
    ASSUME PlanTypes, NEW x \in SourcesOf(Needed), NEW f \in FlowIds, NEW s \in Slots, NEW a \in Assignments(x, f, s)
    PROVE  a \in AssignmentRecord /\ a.source = x /\ a.chan \in NeededAs(x) /\ a.flow = f /\ a.slot = s
<1>1. PICK c \in NeededAs(x) : a = Assignment(c, f, s)
  BY DEF Assignments
<1>2. c \in Channels /\ channels[c].source = x /\ x \in Sources
  BY NeededAre
<1>3. QED
  BY <1>1, <1>2 DEF Assignment, AssignmentRecord

\* One place for each source.
LEMMA FamilyGives ==
    ASSUME PlanTypes, NEW X \in SUBSET SourcesOf(Needed), NEW F \in [X -> FlowIds], NEW S \in [X -> Slots],
           NEW batch, \A a \in batch : \E x \in X : a \in Assignments(x, F[x], S[x])
    PROVE  Gives(batch, X) /\ \A a \in batch : a.flow = F[a.source]
<1>1. \A a \in batch : /\ a \in AssignmentRecord /\ a.source \in X /\ a.chan \in NeededAs(a.source)
                       /\ a.flow = F[a.source] /\ a.slot = S[a.source]
  <2> SUFFICES ASSUME NEW a \in batch
               PROVE  /\ a \in AssignmentRecord /\ a.source \in X /\ a.chan \in NeededAs(a.source)
                      /\ a.flow = F[a.source] /\ a.slot = S[a.source]
    OBVIOUS
  <2>1. PICK x \in X : a \in Assignments(x, F[x], S[x])
    OBVIOUS
  <2>2. F[x] \in FlowIds /\ S[x] \in Slots /\ x \in SourcesOf(Needed)
    OBVIOUS
  <2>3. a \in AssignmentRecord /\ a.source = x /\ a.chan \in NeededAs(x) /\ a.flow = F[x] /\ a.slot = S[x]
    BY <2>1, <2>2, AssignmentsAre
  <2>4. QED
    BY <2>3
<1>2. QED
  BY <1>1 DEF Gives

-----------------------------------------------------------------------------
(* What a plan asks the transmitters for *)

LEMMA MatchedIs ==
    ASSUME PlanTypes, NEW found \in SUBSET SourcesOf(Needed), NEW o,
           NEW matched, matched = Matched(o, found), NEW rest, rest = Remaining(o, found)
    PROVE  /\ DOMAIN matched \in SUBSET (FlowIds \X Slots)
           /\ \A p \in DOMAIN matched : There(p[1]) /\ flows[p[1]].origin = o /\ p[2] \in FreeSlots(p[1], found)
           /\ rest \in Seq(Rest(o, found)) /\ Len(rest) \in Nat
           /\ Cardinality(DOMAIN matched) \in 0..Len(rest)
           /\ \A p \in DOMAIN matched : \E i \in 1..Cardinality(DOMAIN matched) : matched[p] = rest[i]
           /\ \A p, r \in DOMAIN matched : matched[p] = matched[r] => p = r
<1> DEFINE set == {p \in FlowIds \X Slots : /\ flows[p[1]] # NoFlow
                                            /\ flows[p[1]].origin = o
                                            /\ p[2] \in FreeSlots(p[1], found)}
           free == FreeSlotsOf(o, found)
           n == Min({Len(free), Len(rest)})
           places == {free[i] : i \in 1..n}
           at0(p) == CHOOSE i \in 1..n : free[i] = p
<1>1. Lists(free, set)
  <2>1. free = InOrder(set, Before)
    BY DEF FreeSlotsOf
  <2> HIDE DEF set, free
  <2>2. set \in SUBSET (FlowIds \X Slots)
    BY DEF set
  <2>3. QED
    BY <2>1, <2>2, PlacesList
<1>2. Lists(rest, Rest(o, found))
  BY RemainingList
<1>3. \A p \in set : p \in FlowIds \X Slots /\ There(p[1]) /\ flows[p[1]].origin = o /\ p[2] \in FreeSlots(p[1], found)
  BY DEF There
<1>4. matched = [p \in places |-> rest[at0(p)]]
  BY DEF Matched
<1> HIDE DEF free, set
<1>5. Len(free) \in Nat /\ Len(rest) \in Nat
  BY <1>1, <1>2 DEF Lists
<1>6. n \in 0..Len(rest) /\ n <= Len(free) /\ n \in Nat
  <2>1. n \in {Len(free), Len(rest)} /\ \A y \in {Len(free), Len(rest)} : n <= y
    BY <1>5, MinOf
  <2> HIDE DEF n
  <2>2. QED
    BY <1>5, <2>1
<1> HIDE DEF n
<1>7. \A i \in 1..n : i \in 1..Len(free) /\ i \in 1..Len(rest)
  BY <1>5, <1>6
<1>8. \A i, j \in 1..n : (free[i] = free[j] => i = j) /\ (rest[i] = rest[j] => i = j)
  BY <1>1, <1>2, <1>7 DEF Lists
<1>9. \A i \in 1..n : free[i] \in set
  BY <1>1, <1>7, ElementOfSeq DEF Lists
<1>10. \A p \in places : at0(p) \in 1..n /\ free[at0(p)] = p
  OBVIOUS
<1>11. DOMAIN matched = places /\ \A p \in places : matched[p] = rest[at0(p)]
  BY <1>4
<1>12. Cardinality(places) = n
  <2> DEFINE b == [i \in 1..n |-> free[i]]
  <2>1. b \in Injection(1..n, places) /\ b \in Surjection(1..n, places)
    BY <1>8 DEF Injection, IsInjective, Surjection
  <2>2. IsFiniteSet(1..n) /\ Cardinality(1..n) = n
    BY <1>6, FS_Interval
  <2> HIDE DEF b, places
  <2>3. QED
    BY <2>1, <2>2, FS_Surjection
<1>13. /\ places \in SUBSET (FlowIds \X Slots)
       /\ \A p \in places : There(p[1]) /\ flows[p[1]].origin = o /\ p[2] \in FreeSlots(p[1], found)
  BY <1>3, <1>9
<1> HIDE DEF places, at0
<1>14. \A p, r \in places : matched[p] = matched[r] => p = r
  BY <1>8, <1>10, <1>11
<1>15. \A p \in places : \E i \in 1..n : matched[p] = rest[i]
  BY <1>10, <1>11
<1>16. QED
  BY <1>2, <1>5, <1>6, <1>11, <1>12, <1>13, <1>14, <1>15 DEF Lists

LEMMA Multiples ==
    ASSUME NEW n \in Nat, NEW j \in Nat, NEW k \in Nat
    PROVE  /\ j * n \in Nat /\ (j + 1) * n = j * n + n
           /\ j < k => j * n + n <= k * n
  OBVIOUS

LEMMA Quotient ==
    ASSUME NEW a \in Nat, NEW n \in Nat \ {0}
    PROVE  a \div n \in Nat /\ (a \div n) * n <= a
  OBVIOUS

\* A chunk of the sources that are left over: the places of its elements among
\* them.
ChunkStart(o, found, j) == Cardinality(DOMAIN Matched(o, found)) + (j - 1) * Cardinality(Slots)

LEMMA ChunkIs ==
    ASSUME PlanTypes, NEW found \in SUBSET SourcesOf(Needed), NEW o, NEW j \in DOMAIN Chunks(o, found),
           NEW chunk, chunk = Chunks(o, found)[j], NEW rest, rest = Remaining(o, found)
    PROVE  /\ j \in Nat \ {0} /\ chunk \in Seq(Rest(o, found)) /\ Len(chunk) \in 0..Cardinality(Slots) /\ Len(chunk) # 0
           /\ ChunkStart(o, found, j) \in Nat
           /\ Cardinality(DOMAIN Matched(o, found)) <= ChunkStart(o, found, j)
           /\ \A i \in 1..Len(chunk) : /\ ChunkStart(o, found, j) + i \in 1..Len(rest)
                                       /\ chunk[i] = rest[ChunkStart(o, found, j) + i]
<1> DEFINE c == Cardinality(DOMAIN Matched(o, found))
           n == Cardinality(Slots)
           left == SubSeq(rest, c + 1, Len(rest))
           last == Min({j * n, Len(left)})
           m == (j - 1) * n
<1>1. c \in 0..Len(rest) /\ Len(rest) \in Nat /\ rest \in Seq(Rest(o, found))
  BY MatchedIs
<1>2. n \in Nat \ {0}
  BY SlotsAre
<1>3. j \in 1..((Len(left) + n - 1) \div n) /\ chunk = SubSeq(left, (j - 1) * n + 1, last)
  BY DEF Chunks
<1>4. /\ left \in Seq(Rest(o, found)) /\ Len(left) = Len(rest) - c
      /\ \A i \in 1..Len(left) : left[i] = rest[c + i]
  BY <1>1
<1> HIDE DEF left, c, n
<1>5. Len(left) \in Nat /\ c \in Nat
  BY <1>1, <1>4
<1>6. j \in Nat \ {0}
  BY <1>2, <1>3, <1>5
<1>7. m \in Nat /\ j * n = m + n
  BY <1>2, <1>6, Multiples
<1>8. last \in Int /\ last <= m + n /\ last <= Len(left) /\ (last = m + n \/ last = Len(left))
  <2>1. {j * n, Len(left)} \in SUBSET Nat
    BY <1>2, <1>5, <1>7
  <2>2. last \in {j * n, Len(left)} /\ \A y \in {j * n, Len(left)} : last <= y
    BY <2>1, MinOf
  <2> HIDE DEF last
  <2>3. QED
    BY <1>2, <1>5, <1>7, <2>1, <2>2
<1>9. m < Len(left)
  <2> DEFINE a == Len(left) + n - 1
             q == a \div n
  <2>1. a \in Nat
    BY <1>2, <1>5
  <2>2. q \in Nat /\ q * n <= a
    BY <1>2, <2>1, Quotient
  <2>3. j <= q
    BY <1>3, <1>6, <2>2
  <2> HIDE DEF q
  <2>4. j * n <= q * n
    BY <1>2, <1>6, <2>2, <2>3, Multiples
  <2> DEFINE jn == j * n
             qn == q * n
  <2>5. qn \in Nat /\ jn <= qn /\ qn <= a /\ jn = m + n
    BY <1>2, <1>7, <2>2, <2>4, Multiples
  <2> HIDE DEF jn, qn, m
  <2>6. QED
    BY <1>2, <1>5, <1>7, <2>5
<1> HIDE DEF last
<1>10. /\ chunk \in Seq(Rest(o, found)) /\ Len(chunk) = last - m /\ last - m \in 0..n /\ last # m
       /\ \A i \in 1..Len(chunk) : chunk[i] = left[m + i] /\ m + i \in 1..Len(left)
  <2>1. chunk = SubSeq(left, m + 1, last)
    BY <1>3
  <2> HIDE DEF m
  <2>2. m \in Nat /\ last \in m..(m + n) /\ last <= Len(left)
    BY <1>2, <1>5, <1>7, <1>8, <1>9
  <2>3. last # m
    BY <1>2, <1>5, <1>7, <1>8, <1>9
  <2>4. /\ chunk \in Seq(Rest(o, found)) /\ Len(chunk) = last - m /\ last - m \in 0..n
        /\ \A i \in 1..Len(chunk) : chunk[i] = left[m + i] /\ m + i \in 1..Len(left)
    BY <1>2, <1>4, <1>5, <2>1, <2>2
  <2>5. QED
    BY <2>3, <2>4
<1>11. ChunkStart(o, found, j) = c + m
  BY DEF ChunkStart, c, n
<1> HIDE DEF m
<1>12. \A i \in 1..Len(chunk) : c + m + i \in 1..Len(rest) /\ chunk[i] = rest[c + m + i]
  <2> SUFFICES ASSUME NEW i \in 1..Len(chunk)
               PROVE  c + m + i \in 1..Len(rest) /\ chunk[i] = rest[c + m + i]
    OBVIOUS
  <2>1. chunk[i] = left[m + i] /\ m + i \in 1..Len(left)
    BY <1>10
  <2>2. left[m + i] = rest[c + (m + i)] /\ c + (m + i) \in 1..Len(rest)
    BY <1>1, <1>4, <1>5, <2>1
  <2>3. c + (m + i) = c + m + i
    BY <1>5, <1>7, <1>10
  <2>4. QED
    BY <2>1, <2>2, <2>3
<1>13. Len(chunk) # 0
  <2>1. m \in Int /\ last \in Int
    BY <1>7, <1>8
  <2>2. QED
    BY <1>10, <2>1
<1>14. /\ ChunkStart(o, found, j) \in Nat
       /\ c <= ChunkStart(o, found, j)
       /\ \A i \in 1..Len(chunk) : /\ ChunkStart(o, found, j) + i \in 1..Len(rest)
                                   /\ chunk[i] = rest[ChunkStart(o, found, j) + i]
  BY <1>5, <1>7, <1>11, <1>12
<1>15. Len(chunk) \in 0..n
  BY <1>10
<1>16. QED
  BY <1>6, <1>10, <1>13, <1>14, <1>15 DEF c, n

MatchedIn(o, found, f) == {Matched(o, found)[p] : p \in {r \in DOMAIN Matched(o, found) : r[1] = f}}

\* The sources of an origin that are given a free slot are not left over.
LEMMA MatchedFirst ==
    ASSUME PlanTypes, NEW found \in SUBSET SourcesOf(Needed), NEW o, NEW f, NEW x \in MatchedIn(o, found, f)
    PROVE  /\ x \in Rest(o, found)
           /\ \E i \in 1..Cardinality(DOMAIN Matched(o, found)) :
                 i \in 1..Len(Remaining(o, found)) /\ x = Remaining(o, found)[i]
<1> DEFINE c == Cardinality(DOMAIN Matched(o, found))
           rest == Remaining(o, found)
<1>1. PICK p \in DOMAIN Matched(o, found) : x = Matched(o, found)[p]
  BY DEF MatchedIn
<1>2. PICK i \in 1..c : Matched(o, found)[p] = rest[i]
  BY MatchedIs
<1>3. c \in 0..Len(rest) /\ rest \in Seq(Rest(o, found)) /\ Len(rest) \in Nat
  BY MatchedIs
<1> HIDE DEF c, rest
<1>4. i \in 1..Len(rest) /\ rest[i] \in Rest(o, found)
  BY <1>3, ElementOfSeq
<1>5. QED
  BY <1>1, <1>2, <1>4 DEF c, rest

\* An update asks for its sources in the slots that they are assigned, and leaves
\* the others as the worker knows them.
Refills(r, o, found) ==
    /\ r.kind = "update" /\ There(r.flow) /\ flows[r.flow].origin = o
    /\ Gives(r.updates, MatchedIn(o, found, r.flow))
    /\ \A a \in r.updates : a.flow = r.flow
    /\ \A a \in r.updates : r.tx[a.slot] = a.source
    /\ \A s \in Slots :
          \/ <<r.flow, s>> \in DOMAIN Matched(o, found) /\ \E a \in r.updates : a.slot = s
          \/ <<r.flow, s>> \notin DOMAIN Matched(o, found) /\ r.tx[s] = flows[r.flow].tx[s]

LEMMA UpdatesAre ==
    ASSUME PlanTypes, NEW found \in SUBSET SourcesOf(Needed), NEW o, NEW u, u = Updates(o, found)
    PROVE  /\ u \in Seq(RequestRecord)
           /\ \A i \in 1..Len(u) : Refills(u[i], o, found)
           /\ \A i, j \in 1..Len(u) : u[i].flow = u[j].flow => i = j
<1> DEFINE matched == Matched(o, found)
           slotsOf(f) == {s \in Slots : <<f, s>> \in DOMAIN matched}
           fs == {p[1] : p \in DOMAIN matched}
           order == Ascending(fs)
           tx(f) == [s \in Slots |-> IF s \in slotsOf(f) THEN matched[<<f, s>>] ELSE flows[f].tx[s]]
           given(f) == UNION {Assignments(matched[<<f, s>>], f, s) : s \in slotsOf(f)}
<1>1. u = [i \in DOMAIN order |-> Request("update", order[i], tx(order[i]), given(order[i]))]
  BY DEF Updates
<1>2. /\ DOMAIN matched \in SUBSET (FlowIds \X Slots)
      /\ \A p \in DOMAIN matched : There(p[1]) /\ flows[p[1]].origin = o /\ p[2] \in FreeSlots(p[1], found)
      /\ \A p, r \in DOMAIN matched : matched[p] = matched[r] => p = r
  <2>1. PICK m, w : m = Matched(o, found) /\ w = Remaining(o, found)
    OBVIOUS
  <2>2. /\ DOMAIN m \in SUBSET (FlowIds \X Slots)
        /\ \A p \in DOMAIN m : There(p[1]) /\ flows[p[1]].origin = o /\ p[2] \in FreeSlots(p[1], found)
    BY <2>1, MatchedIs
  <2>3. \A p, r \in DOMAIN m : m[p] = m[r] => p = r
    BY <2>1, MatchedIs
  <2>4. QED
    BY <2>1, <2>2, <2>3
<1>3. \A f : MatchedIn(o, found, f) = {matched[p] : p \in {r \in DOMAIN matched : r[1] = f}}
  BY DEF MatchedIn
<1>4. \A f : MatchedIn(o, found, f) \subseteq SourcesOf(Needed)
  BY MatchedFirst DEF Rest
<1> HIDE DEF matched
<1>5. fs \in SUBSET FlowIds /\ \A f \in fs : There(f) /\ flows[f].origin = o
  BY <1>2
<1> HIDE DEF fs
<1>6. Lists(order, fs)
  BY <1>5, AscendingFlows
<1> HIDE DEF order
<1>7. order \in Seq(fs) /\ Len(order) \in Nat /\ \A j, k \in 1..Len(order) : order[j] = order[k] => j = k
  BY <1>6 DEF Lists
<1>8. \A i \in 1..Len(order) : order[i] \in fs
  BY <1>7, ElementOfSeq
<1>9. ASSUME NEW f \in fs
      PROVE  /\ Gives(given(f), MatchedIn(o, found, f)) /\ \A a \in given(f) : a.flow = f
             /\ tx(f) \in [Slots -> Sources \cup {NoSource}]
  <2> DEFINE X == MatchedIn(o, found, f)
             S == [x \in X |-> CHOOSE s \in Slots : <<f, s>> \in DOMAIN matched /\ matched[<<f, s>>] = x]
             F == [x \in X |-> f]
  <2>1. f \in FlowIds /\ There(f)
    BY <1>5
  <2>2. \A s \in slotsOf(f) : matched[<<f, s>>] \in X
    BY <1>3
  <2>3. \A x \in X : \E s \in Slots : <<f, s>> \in DOMAIN matched /\ matched[<<f, s>>] = x
    <3> SUFFICES ASSUME NEW x \in X
                 PROVE  \E s \in Slots : <<f, s>> \in DOMAIN matched /\ matched[<<f, s>>] = x
      OBVIOUS
    <3>1. PICK p \in DOMAIN matched : p[1] = f /\ x = matched[p]
      BY <1>3
    <3>2. p[2] \in Slots /\ p = <<f, p[2]>>
      BY <1>2, <3>1
    <3>3. QED
      BY <3>1, <3>2
  <2> HIDE DEF X
  <2>4. S \in [X -> Slots] /\ F \in [X -> FlowIds]
    BY <2>1, <2>3
  <2>5. \A s \in slotsOf(f) : S[matched[<<f, s>>]] = s
    <3> SUFFICES ASSUME NEW s \in slotsOf(f)
                 PROVE  S[matched[<<f, s>>]] = s
      OBVIOUS
    <3> DEFINE x == matched[<<f, s>>]
               z == S[x]
    <3>1. x \in X
      BY <2>2
    <3>2. <<f, z>> \in DOMAIN matched /\ matched[<<f, z>>] = x
      BY <2>3, <3>1
    <3> HIDE DEF z
    <3>3. <<f, z>> = <<f, s>>
      BY <1>2, <3>2
    <3>4. QED
      BY <3>3 DEF z
  <2>6. \A x \in X : F[x] = f
    OBVIOUS
  <2> HIDE DEF S, F
  <2>7. \A a \in given(f) : \E x \in X : a \in Assignments(x, F[x], S[x])
    <3> SUFFICES ASSUME NEW a \in given(f)
                 PROVE  \E x \in X : a \in Assignments(x, F[x], S[x])
      OBVIOUS
    <3>1. PICK s \in slotsOf(f) : a \in Assignments(matched[<<f, s>>], f, s)
      OBVIOUS
    <3> DEFINE x == matched[<<f, s>>]
    <3>2. x \in X /\ F[x] = f /\ S[x] = s /\ a \in Assignments(x, f, s)
      BY <2>2, <2>5, <2>6, <3>1
    <3> HIDE DEF x, given
    <3>3. QED
      BY <3>2
  <2>8. X \in SUBSET SourcesOf(Needed)
    BY <1>4 DEF X
  <2> HIDE DEF given, slotsOf
  <2>9. Gives(given(f), X) /\ \A a \in given(f) : a.flow = F[a.source]
    BY <2>4, <2>7, <2>8, FamilyGives
  <2>10. \A a \in given(f) : a.flow = f
    BY <2>6, <2>9 DEF Gives
  <2>11. tx(f) \in [Slots -> Sources \cup {NoSource}]
    <3>1. \A s \in Slots : s \in slotsOf(f) => matched[<<f, s>>] \in Sources
      BY <2>2, <2>8, NeededAre
    <3>2. flows[f].tx \in [Slots -> Sources \cup {NoSource}]
      BY <2>1, FlowIs
    <3>3. QED
      BY <3>1, <3>2
  <2>12. QED
    BY <2>9, <2>10, <2>11 DEF X
<1>10. ASSUME NEW f \in fs, NEW a \in given(f)
       PROVE  tx(f)[a.slot] = a.source
  <2>1. PICK s \in slotsOf(f) : a \in Assignments(matched[<<f, s>>], f, s)
    OBVIOUS
  <2>2. PICK x : x = matched[<<f, s>>]
    OBVIOUS
  <2>3. a \in Assignments(x, f, s)
    BY <2>1, <2>2
  <2>4. a.slot = s /\ a.source = x
    BY <2>3 DEF Assignments, Assignment, NeededAs
  <2>5. QED
    BY <2>2, <2>4
<1>11. ASSUME NEW f \in fs, NEW s \in slotsOf(f)
       PROVE  \E a \in given(f) : a.slot = s
  <2>1. PICK x : x = matched[<<f, s>>]
    OBVIOUS
  <2>2. x \in MatchedIn(o, found, f)
    BY <1>3, <2>1
  <2>3. PICK c : c \in NeededAs(x)
    BY <1>4, <2>2, NeededAre
  <2>4. Assignment(c, f, s) \in Assignments(x, f, s) /\ Assignment(c, f, s).slot = s
    BY <2>3 DEF Assignments, Assignment
  <2>5. QED
    BY <2>1, <2>4
<1> HIDE DEF tx, given
<1>12. /\ DOMAIN u = 1..Len(order)
       /\ \A i \in 1..Len(order) : /\ u[i].kind = "update" /\ u[i].flow = order[i] /\ u[i].updates = given(order[i])
                                   /\ u[i].tx = tx(order[i])
                                   /\ u[i] = Request("update", order[i], tx(order[i]), given(order[i]))
  BY <1>1, <1>7 DEF Request
<1>13. \A i \in 1..Len(order) : u[i] \in RequestRecord
  <2> SUFFICES ASSUME NEW i \in 1..Len(order)
               PROVE  u[i] \in RequestRecord
    OBVIOUS
  <2>1. order[i] \in fs /\ order[i] \in FlowIds
    BY <1>5, <1>8
  <2>2. given(order[i]) \in SUBSET AssignmentRecord /\ tx(order[i]) \in [Slots -> Sources \cup {NoSource}]
    BY <1>9, <2>1 DEF Gives
  <2>3. QED
    BY <1>12, <2>1, <2>2 DEF Request, RequestRecord
<1>14. u \in Seq(RequestRecord) /\ Len(u) = Len(order)
  <2>1. u = [i \in 1..Len(order) |-> u[i]]
    BY <1>1, <1>7
  <2>2. QED
    BY <1>7, <1>13, <2>1
<1>15. ASSUME NEW i \in 1..Len(order)
       PROVE  Refills(u[i], o, found)
  <2>1. PICK f \in fs : f = order[i]
    BY <1>8
  <2>2. u[i].flow = f /\ u[i].tx = tx(f) /\ u[i].updates = given(f)
    BY <1>12, <2>1
  <2>3. ASSUME NEW s \in Slots
        PROVE  \/ s \in slotsOf(f) /\ <<f, s>> \in DOMAIN matched
               \/ <<f, s>> \notin DOMAIN matched /\ tx(f)[s] = flows[f].tx[s]
    <3>1. CASE <<f, s>> \in DOMAIN matched
      BY <3>1
    <3>2. CASE <<f, s>> \notin DOMAIN matched
      BY <3>2 DEF tx
    <3>3. QED
      BY <3>1, <3>2
  <2> HIDE DEF slotsOf
  <2>4. QED
    BY <1>5, <1>9, <1>10, <1>11, <1>12, <2>1, <2>2, <2>3 DEF Refills, matched
<1>16. QED
  BY <1>5, <1>7, <1>8, <1>9, <1>12, <1>14, <1>15

\* The sources that a new flow is for.
NewSources(new, found) ==
    IF new[1] \in Bundles THEN {y \in found : Origin[y] = new[1]} ELSE {new[2][i] : i \in 1..Len(new[2])}
Chunked(new, found) ==
    new[1] \notin Bundles => /\ new[2] \in Seq(Rest(new[1], found)) /\ Len(new[2]) \in 0..Cardinality(Slots)
                             /\ \A i, j \in 1..Len(new[2]) : new[2][i] = new[2][j] => i = j

\* What a bundle carries.
CarriedBy ==
    [o \in Origins |-> [s \in Slots |->
        IF \E x \in Sources : Origin[x] = o /\ SlotInBundle[x] = s
        THEN CHOOSE x \in Sources : Origin[x] = o /\ SlotInBundle[x] = s ELSE NoSource]]

LEMMA CarriedSame == CarriedBy' = CarriedBy
  BY DEF CarriedBy, Origins

LEMMA BundleCarries ==
    ASSUME NEW x \in Sources, Origin[x] \in Bundles
    PROVE  CarriedBy[Origin[x]][SlotInBundle[x]] = x
<1>1. Origin[x] \in Origins /\ SlotInBundle[x] \in Slots
  BY OriginsAssumption DEF Origins
<1> DEFINE is(y) == Origin[y] = Origin[x] /\ SlotInBundle[y] = SlotInBundle[x]
<1>2. CarriedBy[Origin[x]][SlotInBundle[x]] = IF \E y \in Sources : is(y) THEN CHOOSE y \in Sources : is(y) ELSE NoSource
  BY <1>1 DEF CarriedBy
<1>3. is(x) /\ \A y \in Sources : is(y) => y = x
  BY BundlesAssumption
<1> HIDE DEF is
<1>4. QED
  BY <1>2, <1>3

\* A new flow is asked for with its sources in the slots that they are assigned.
FillsSlots(r, o) ==
    /\ r.kind = IF o \in Bundles THEN "join" ELSE "create"
    /\ \A a \in r.updates : (IF o \in Bundles THEN CarriedBy[o] ELSE r.tx)[a.slot] = a.source

LEMMA CreationIs ==
    ASSUME PlanTypes, NEW found \in SUBSET SourcesOf(Needed), NEW f \in FlowIds,
           NEW new, Chunked(new, found), NEW r, r = Creation(new, f, found)
    PROVE  /\ r \in RequestRecord /\ r.flow = f /\ r.kind # "update" /\ \A a \in r.updates : a.flow = f
           /\ Gives(r.updates, NewSources(new, found)) /\ FillsSlots(r, new[1])
<1>1. CASE new[1] \in Bundles
  <2> DEFINE X == {y \in found : Origin[y] = new[1]}
             S == [x \in X |-> SlotInBundle[x]]
             F == [x \in X |-> f]
             batch == InBundle(new[1], f, found)
  <2>1. r = Request("join", f, Blank, batch)
    BY <1>1 DEF Creation
  <2>2. X \in SUBSET SourcesOf(Needed) /\ X = NewSources(new, found)
    BY <1>1 DEF NewSources
  <2>3. S \in [X -> Slots]
    <3>1. \A x \in X : x \in Sources /\ Origin[x] \in Bundles
      BY <1>1, NeededAre
    <3>2. \A x \in X : SlotInBundle[x] \in Slots
      BY <3>1, OriginsAssumption
    <3> HIDE DEF X
    <3>3. QED
      BY <3>2
  <2>4. \A a \in batch : \E x \in X : a \in Assignments(x, f, SlotInBundle[x])
    BY DEF InBundle
  <2>11. \A a \in batch : CarriedBy[new[1]][a.slot] = a.source
    <3> SUFFICES ASSUME NEW a \in batch
                 PROVE  CarriedBy[new[1]][a.slot] = a.source
      OBVIOUS
    <3>1. PICK x \in X : a \in Assignments(x, f, SlotInBundle[x])
      BY <2>4
    <3>2. a.slot = SlotInBundle[x] /\ a.source = x
      BY <3>1 DEF Assignments, Assignment, NeededAs
    <3>3. x \in Sources /\ Origin[x] = new[1]
      BY <2>2, NeededAre
    <3>4. QED
      BY <1>1, <3>2, <3>3, BundleCarries
  <2> HIDE DEF X, batch
  <2>5. F \in [X -> FlowIds] /\ \A a \in batch : \E x \in X : a \in Assignments(x, F[x], S[x])
    BY <2>4
  <2>10. \A x \in X : F[x] = f
    OBVIOUS
  <2> HIDE DEF S, F
  <2>6. Gives(batch, X) /\ \A a \in batch : a.flow = F[a.source]
    BY <2>2, <2>3, <2>5, FamilyGives
  <2>7. \A a \in batch : a.flow = f
    BY <2>6, <2>10 DEF Gives
  <2>8. Blank \in [Slots -> Sources \cup {NoSource}]
    BY DEF Blank
  <2>9. QED
    BY <1>1, <2>1, <2>2, <2>6, <2>7, <2>8, <2>11 DEF Request, RequestRecord, Gives, FillsSlots
<1>2. CASE new[1] \notin Bundles
  <2> DEFINE chunk == new[2]
             X == {chunk[i] : i \in 1..Len(chunk)}
             S == [x \in X |-> (CHOOSE i \in 1..Len(chunk) : chunk[i] = x) - 1]
             F == [x \in X |-> f]
             batch == UNION {Assignments(chunk[i], f, SlotInChunk(i)) : i \in DOMAIN chunk}
  <2>1. r = Request("create", f, TxOfChunk(chunk), batch)
    BY <1>2 DEF Creation
  <2>2. /\ chunk \in Seq(Rest(new[1], found)) /\ Len(chunk) \in 0..Cardinality(Slots)
        /\ \A i, j \in 1..Len(chunk) : chunk[i] = chunk[j] => i = j
    BY <1>2 DEF Chunked
  <2>3. X = NewSources(new, found)
    BY <1>2 DEF NewSources
  <2> HIDE DEF chunk
  <2>4. DOMAIN chunk = 1..Len(chunk) /\ \A i \in 1..Len(chunk) : chunk[i] \in Rest(new[1], found)
    BY <2>2, ElementOfSeq
  <2>5. X \in SUBSET SourcesOf(Needed)
    BY <2>4 DEF Rest
  <2>6. \A i \in 1..Len(chunk) : i - 1 \in Slots
    BY <2>2, SlotsAre
  <2>7. \A x \in X : \E i \in 1..Len(chunk) : chunk[i] = x
    OBVIOUS
  <2>8. \A i \in 1..Len(chunk) : chunk[i] \in X
    OBVIOUS
  <2>9. batch = UNION {Assignments(chunk[i], f, i - 1) : i \in 1..Len(chunk)}
    BY <2>4 DEF SlotInChunk
  <2> HIDE DEF X, batch
  <2>10. S \in [X -> Slots] /\ F \in [X -> FlowIds]
    BY <2>6, <2>7
  <2>11. \A i \in 1..Len(chunk) : S[chunk[i]] = i - 1 /\ F[chunk[i]] = f
    BY <2>2, <2>8
  <2> HIDE DEF S
  <2>12. \A a \in batch : \E x \in X : a \in Assignments(x, F[x], S[x])
    <3> SUFFICES ASSUME NEW a \in batch
                 PROVE  \E x \in X : a \in Assignments(x, F[x], S[x])
      OBVIOUS
    <3>1. PICK i \in 1..Len(chunk) : a \in Assignments(chunk[i], f, i - 1)
      BY <2>9
    <3> DEFINE x == chunk[i]
    <3>2. x \in X /\ F[x] = f /\ S[x] = i - 1 /\ a \in Assignments(x, f, i - 1)
      BY <2>8, <2>11, <3>1
    <3> HIDE DEF x, F
    <3>3. QED
      BY <3>2
  <2>13. Gives(batch, X) /\ \A a \in batch : a.flow = F[a.source]
    BY <2>5, <2>10, <2>12, FamilyGives
  <2>14. \A a \in batch : a.flow = f
    BY <2>13 DEF Gives
  <2>15. TxOfChunk(chunk) \in [Slots -> Sources \cup {NoSource}]
    <3>1. \A i \in DOMAIN chunk : chunk[i] \in Sources
      BY <2>4, <2>5, <2>8, NeededAre
    <3>2. QED
      BY <3>1 DEF TxOfChunk
  <2>16. batch \in SUBSET AssignmentRecord
    BY <2>13 DEF Gives
  <2>17. r \in RequestRecord /\ r.flow = f /\ r.kind = "create" /\ r.updates = batch /\ r.tx = TxOfChunk(chunk)
    BY <2>1, <2>15, <2>16 DEF Request, RequestRecord
  <2>18. ASSUME NEW a \in batch
         PROVE  TxOfChunk(chunk)[a.slot] = a.source
    <3>1. PICK i \in 1..Len(chunk) : a \in Assignments(chunk[i], f, i - 1)
      BY <2>9
    <3>2. PICK x : x = chunk[i] /\ a \in Assignments(x, f, i - 1)
      BY <3>1
    <3>3. a.slot = i - 1 /\ a.source = x
      BY <3>2 DEF Assignments, Assignment, NeededAs
    <3>4. i - 1 \in Slots /\ (i - 1) + 1 = i /\ i \in DOMAIN chunk
      BY <2>2, <2>4, <2>6
    <3>5. TxOfChunk(chunk)[i - 1] = chunk[i]
      BY <3>4 DEF TxOfChunk
    <3>6. QED
      BY <3>2, <3>3, <3>5
  <2>19. QED
    BY <1>2, <2>3, <2>13, <2>14, <2>17, <2>18 DEF FillsSlots
<1>3. QED
  BY <1>1, <1>2

\* The new flows of a plan: one for a bundle, and for a transmitter one for
\* each chunk.
IsNew(new, tag, found) ==
    /\ tag \in [1..Len(new) -> Nat]
    /\ \A k \in 1..Len(new) :
          \/ /\ new[k][1] \in Bundles /\ \E x \in found \ Joined(found) : Origin[x] = new[k][1]
          \/ /\ new[k][1] \notin Bundles /\ \E x \in found : Origin[x] = new[k][1]
             /\ tag[k] \in DOMAIN Chunks(new[k][1], found) /\ new[k][2] = Chunks(new[k][1], found)[tag[k]]
    /\ \A k, m \in 1..Len(new) : k # m /\ new[k][1] = new[m][1] => new[k][1] \notin Bundles /\ tag[k] # tag[m]

LEMMA SourcesFinite ==
    ASSUME NEW X \in SUBSET SourcesOf(Needed)
    PROVE  IsFiniteSet(X) /\ IsFiniteSet({Origin[x] : x \in X})
<1>1. IsFiniteSet(Needed)
  BY ChannelsAssumption, ChannelSets, FS_Subset
<1> DEFINE src == [c \in Needed |-> channels[c].source]
           org == [x \in X |-> Origin[x]]
<1>2. src \in Surjection(Needed, SourcesOf(Needed))
  BY DEF Surjection, SourcesOf
<1>3. org \in Surjection(X, {Origin[x] : x \in X})
  BY DEF Surjection
<1> HIDE DEF src, org
<1>4. IsFiniteSet(SourcesOf(Needed))
  BY <1>1, <1>2, FS_Surjection
<1>5. IsFiniteSet(X)
  BY <1>4, FS_Subset
<1>6. QED
  BY <1>3, <1>5, FS_Surjection

LEMMA NewIs ==
    ASSUME PlanTypes, NEW found \in SUBSET SourcesOf(Needed), NEW new, new = NewFlows(found)
    PROVE  Len(new) \in Nat /\ DOMAIN new = 1..Len(new) /\ \E tag : IsNew(new, tag, found)
<1> DEFINE bundles == {Origin[x] : x \in found \ Joined(found)} \cap Bundles
           servers == {Origin[x] : x \in found} \ Bundles
           pairs == {<<b, << >>>> : b \in bundles}
           first == SetToSeq(pairs)
           order == SetToSeq(servers)
           of(o) == LET chunks == Chunks(o, found) IN [k \in DOMAIN chunks |-> <<o, chunks[k]>>]
           seqs == [i \in DOMAIN order |-> of(order[i])]
           rest == FlattenSeq(seqs)
           T == servers \X UNION {{Chunks(o, found)[j] : j \in DOMAIN Chunks(o, found)} : o \in servers}
<1>1. new = first \o rest
  BY DEF NewFlows
<1>2. /\ \A b \in bundles : b \in Bundles /\ \E x \in found \ Joined(found) : Origin[x] = b
      /\ \A o \in servers : o \notin Bundles /\ \E x \in found : Origin[x] = o
  OBVIOUS
<1>3. IsFiniteSet(bundles) /\ IsFiniteSet(servers)
  <2>1. IsFiniteSet({Origin[x] : x \in found \ Joined(found)})
    BY SourcesFinite
  <2>2. IsFiniteSet({Origin[x] : x \in found})
    BY SourcesFinite
  <2>3. QED
    BY <2>1, <2>2, FS_Subset
<1> HIDE DEF bundles, servers
<1>4. IsFiniteSet(pairs)
  <2> DEFINE pair == [b \in bundles |-> <<b, << >>>>]
  <2>1. pair \in Surjection(bundles, pairs)
    BY DEF Surjection
  <2> HIDE DEF pair
  <2>2. QED
    BY <1>3, <2>1, FS_Surjection
<1>5. \A p \in pairs : p[1] \in bundles /\ p = <<p[1], << >>>>
  OBVIOUS
<1> HIDE DEF pairs
<1>6. Lists(first, pairs) /\ Lists(order, servers)
  BY <1>3, <1>4, ListOfSet
<1> HIDE DEF first, order
<1>7. /\ first \in Seq(pairs) /\ Len(first) \in Nat
      /\ \A j, k \in 1..Len(first) : first[j] = first[k] => j = k
      /\ order \in Seq(servers) /\ Len(order) \in Nat
      /\ \A j, k \in 1..Len(order) : order[j] = order[k] => j = k
  BY <1>6 DEF Lists
<1>8. \A k \in 1..Len(first) : first[k] \in pairs
  BY <1>7, ElementOfSeq
<1>9. \A i \in 1..Len(order) : order[i] \in servers
  BY <1>7, ElementOfSeq
<1>10. ASSUME NEW o \in servers
       PROVE  /\ of(o) \in Seq(T) /\ DOMAIN of(o) = DOMAIN Chunks(o, found)
              /\ \A j \in DOMAIN Chunks(o, found) : of(o)[j] = <<o, Chunks(o, found)[j]>> /\ j \in Nat
              /\ Len(of(o)) \in Nat /\ DOMAIN of(o) = 1..Len(of(o))
  <2> DEFINE chunks == Chunks(o, found)
  <2>1. \E n \in Nat : DOMAIN chunks = 1..n
    <3> DEFINE unmatched == SubSeq(Remaining(o, found), Cardinality(DOMAIN Matched(o, found)) + 1, Len(Remaining(o, found)))
               n == (Len(unmatched) + Cardinality(Slots) - 1) \div Cardinality(Slots)
    <3>1. DOMAIN chunks = 1..n
      BY DEF Chunks
    <3>2. Len(unmatched) \in Nat
      <4> DEFINE r == Remaining(o, found)
                 c == Cardinality(DOMAIN Matched(o, found))
      <4>1. c \in 0..Len(r) /\ Len(r) \in Nat /\ r \in Seq(Rest(o, found))
        BY MatchedIs
      <4> HIDE DEF r, c
      <4>2. Len(SubSeq(r, c + 1, Len(r))) \in Nat
        BY <4>1
      <4>3. QED
        BY <4>2 DEF r, c
    <3> HIDE DEF unmatched
    <3>3. Len(unmatched) + Cardinality(Slots) - 1 \in Nat /\ Cardinality(Slots) \in Nat \ {0}
      BY <3>2, SlotsAre
    <3>4. n \in Nat
      BY <3>3, Quotient
    <3>5. QED
      BY <3>1, <3>4
  <2>2. PICK n \in Nat : DOMAIN chunks = 1..n
    BY <2>1
  <2>3. of(o) = [k \in 1..n |-> <<o, chunks[k]>>]
    BY <2>2
  <2>4. \A k \in 1..n : <<o, chunks[k]>> \in T
    BY <2>2
  <2> HIDE DEF chunks, T, of
  <2>5. of(o) \in Seq(T) /\ Len(of(o)) = n /\ DOMAIN of(o) = 1..n
    BY <2>2, <2>3, <2>4
  <2>6. \A j \in 1..n : of(o)[j] = <<o, chunks[j]>> /\ j \in Nat
    BY <2>3
  <2>7. QED
    BY <2>2, <2>5, <2>6 DEF chunks
<1>11. seqs \in Seq(Seq(T)) /\ Len(seqs) = Len(order) /\ \A i \in 1..Len(order) : seqs[i] = of(order[i])
  <2>1. \A i \in 1..Len(order) : of(order[i]) \in Seq(T)
    BY <1>9, <1>10
  <2>2. seqs = [i \in 1..Len(order) |-> of(order[i])]
    BY <1>7
  <2> HIDE DEF of, T, seqs
  <2>3. QED
    BY <1>7, <2>1, <2>2
<1> HIDE DEF of, seqs, T
<1>12. rest \in Seq(T) /\ \E t : Traced(t, rest, seqs, Len(order))
  BY <1>11, FlattenTraced
<1>13. PICK t : Traced(t, rest, seqs, Len(order))
  BY <1>12
<1> HIDE DEF rest
<1>14. /\ t \in [1..Len(rest) -> PlacesUpTo(seqs, Len(order))]
       /\ \A k \in 1..Len(rest) : rest[k] = seqs[t[k][1]][t[k][2]]
       /\ \A j, k \in 1..Len(rest) : t[j] = t[k] => j = k
  BY <1>13 DEF Traced
<1>15. ASSUME NEW k \in 1..Len(rest)
       PROVE  /\ t[k] = <<t[k][1], t[k][2]>> /\ t[k][1] \in 1..Len(order) /\ t[k][2] \in Nat
              /\ rest[k][1] = order[t[k][1]] /\ rest[k][1] \in servers
              /\ t[k][2] \in DOMAIN Chunks(rest[k][1], found)
              /\ rest[k][2] = Chunks(rest[k][1], found)[t[k][2]]
  <2> DEFINE i == t[k][1]
             j == t[k][2]
  <2>1. t[k] \in PlacesUpTo(seqs, Len(order)) /\ rest[k] = seqs[i][j]
    BY <1>14
  <2>2. t[k] = <<i, j>> /\ i \in 1..Len(order) /\ j \in Nat \ {0} /\ j <= Len(seqs[i])
    BY <2>1 DEF PlacesUpTo
  <2> HIDE DEF i, j
  <2>3. seqs[i] = of(order[i]) /\ order[i] \in servers
    BY <1>9, <1>11, <2>2
  <2>4. j \in DOMAIN Chunks(order[i], found)
    BY <1>10, <2>2, <2>3
  <2>5. rest[k] = <<order[i], Chunks(order[i], found)[j]>>
    BY <1>10, <2>1, <2>3, <2>4
  <2>6. rest[k][1] = order[i] /\ rest[k][2] = Chunks(order[i], found)[j]
    BY <2>5
  <2>7. QED
    BY <2>2, <2>3, <2>4, <2>6 DEF i, j
<1>16. /\ Len(new) \in Nat /\ DOMAIN new = 1..Len(new) /\ Len(rest) \in Nat
       /\ \A k \in 1..Len(new) : \/ k \in 1..Len(first) /\ new[k] = first[k]
                                 \/ k > Len(first) /\ k - Len(first) \in 1..Len(rest) /\ new[k] = rest[k - Len(first)]
  BY <1>1, <1>7, <1>12
<1> DEFINE tag == [k \in 1..Len(new) |-> IF k <= Len(first) THEN 0 ELSE t[k - Len(first)][2]]
<1>17. ASSUME NEW k \in 1..Len(new)
       PROVE  \/ /\ k \in 1..Len(first) /\ new[k] = <<new[k][1], << >>>> /\ new[k][1] \in bundles /\ tag[k] = 0
                 /\ new[k] = first[k]
              \/ /\ k > Len(first) /\ k - Len(first) \in 1..Len(rest)
                 /\ new[k][1] \in servers /\ tag[k] = t[k - Len(first)][2] /\ tag[k] \in Nat
                 /\ new[k][1] = order[t[k - Len(first)][1]]
                 /\ tag[k] \in DOMAIN Chunks(new[k][1], found) /\ new[k][2] = Chunks(new[k][1], found)[tag[k]]
  <2>1. CASE k \in 1..Len(first) /\ new[k] = first[k]
    <3>1. tag[k] = 0
      BY <1>7, <2>1
    <3>2. first[k] \in pairs
      BY <1>8, <2>1
    <3> HIDE DEF tag
    <3>3. QED
      BY <1>5, <2>1, <3>1, <3>2
  <2>2. CASE k > Len(first) /\ k - Len(first) \in 1..Len(rest) /\ new[k] = rest[k - Len(first)]
    <3>1. tag[k] = t[k - Len(first)][2]
      BY <1>7, <2>2
    <3> HIDE DEF tag
    <3>2. QED
      BY <1>15, <2>2, <3>1
  <2>3. QED
    BY <1>16, <2>1, <2>2
<1>18. tag \in [1..Len(new) -> Nat]
  <2>1. tag = [k \in 1..Len(new) |-> tag[k]]
    OBVIOUS
  <2>2. \A k \in 1..Len(new) : tag[k] \in Nat
    BY <1>17
  <2> HIDE DEF tag
  <2>3. QED
    BY <2>1, <2>2
<1> HIDE DEF tag
<1>19. \A k \in 1..Len(new) :
          \/ /\ new[k][1] \in Bundles /\ \E x \in found \ Joined(found) : Origin[x] = new[k][1]
          \/ /\ new[k][1] \notin Bundles /\ \E x \in found : Origin[x] = new[k][1]
             /\ tag[k] \in DOMAIN Chunks(new[k][1], found) /\ new[k][2] = Chunks(new[k][1], found)[tag[k]]
  BY <1>2, <1>17
<1>20. ASSUME NEW k \in 1..Len(new), NEW m \in 1..Len(new), k # m, new[k][1] = new[m][1]
       PROVE  new[k][1] \notin Bundles /\ tag[k] # tag[m]
  <2>1. CASE new[k][1] \in Bundles
    <3>1. k \in 1..Len(first) /\ new[k] = first[k] /\ new[k] = <<new[k][1], << >>>>
      BY <1>2, <1>17, <2>1
    <3>2. m \in 1..Len(first) /\ new[m] = first[m] /\ new[m] = <<new[m][1], << >>>>
      BY <1>2, <1>17, <1>20, <2>1
    <3>3. first[k] = first[m]
      BY <1>20, <3>1, <3>2
    <3>4. QED
      BY <1>7, <1>20, <3>1, <3>2, <3>3
  <2>2. CASE new[k][1] \notin Bundles
    <3> SUFFICES ASSUME tag[k] = tag[m]
                 PROVE  FALSE
      BY <2>2
    <3> DEFINE j == k - Len(first)
               l == m - Len(first)
    <3>1. j \in 1..Len(rest) /\ l \in 1..Len(rest)
      BY <1>2, <1>17, <1>20, <2>2
    <3>2. /\ tag[k] = t[j][2] /\ new[k][1] = order[t[j][1]]
          /\ tag[m] = t[l][2] /\ new[m][1] = order[t[l][1]]
      BY <1>2, <1>17, <1>20, <2>2
    <3>3. k # m => j # l
      BY <1>7
    <3> HIDE DEF j, l
    <3>4. t[j][1] \in 1..Len(order) /\ t[l][1] \in 1..Len(order)
      BY <1>15, <3>1
    <3>5. t[j][1] = t[l][1]
      BY <1>7, <1>20, <3>2, <3>4
    <3>6. t[j] = t[l]
      BY <1>15, <3>1, <3>2, <3>5
    <3>7. QED
      BY <1>14, <1>20, <3>1, <3>3, <3>6
  <2>3. QED
    BY <2>1, <2>2
<1>21. IsNew(new, tag, found)
  BY <1>18, <1>19, <1>20 DEF IsNew
<1>22. QED
  BY <1>16, <1>21

LEMMA CountIs ==
    ASSUME PlanTypes, NEW found \in SUBSET SourcesOf(Needed), NEW o
    PROVE  Cardinality(DOMAIN Matched(o, found)) \in Nat
<1>1. /\ Len(Remaining(o, found)) \in Nat
      /\ Cardinality(DOMAIN Matched(o, found)) \in 0..Len(Remaining(o, found))
  BY MatchedIs
<1>2. QED
  BY <1>1

\* The new flows are for different sources, and for none that is found otherwise.
LEMMA NewApart ==
    ASSUME PlanTypes, NEW found \in SUBSET SourcesOf(Needed), NEW new, NEW tag, IsNew(new, tag, found),
           NEW k \in 1..Len(new)
    PROVE  /\ Chunked(new[k], found)
           /\ \A x \in NewSources(new[k], found) : /\ Origin[x] = new[k][1] /\ x \in found
                                                   /\ x \notin Flowing(found) /\ x \notin Joined(found)
           /\ new[k][1] \notin Bundles =>
                 \A f : MatchedIn(new[k][1], found, f) \cap NewSources(new[k], found) = {}
           /\ \A m \in 1..Len(new) : k # m => NewSources(new[k], found) \cap NewSources(new[m], found) = {}
<1> DEFINE start(i) == ChunkStart(new[i][1], found, tag[i])
           rest(i) == Remaining(new[i][1], found)
<1>1. ASSUME NEW i \in 1..Len(new), new[i][1] \notin Bundles
      PROVE  /\ tag[i] \in Nat \ {0} /\ start(i) \in Nat
             /\ new[i][2] \in Seq(Rest(new[i][1], found)) /\ Len(new[i][2]) \in 0..Cardinality(Slots)
             /\ Cardinality(DOMAIN Matched(new[i][1], found)) <= start(i)
             /\ \A j \in 1..Len(new[i][2]) : /\ start(i) + j \in 1..Len(rest(i))
                                             /\ new[i][2][j] = rest(i)[start(i) + j]
             /\ Lists(rest(i), Rest(new[i][1], found))
  <2>1. tag[i] \in DOMAIN Chunks(new[i][1], found) /\ new[i][2] = Chunks(new[i][1], found)[tag[i]]
    BY <1>1 DEF IsNew
  <2>2. QED
    BY <2>1, ChunkIs, RemainingList
<1>2. ASSUME NEW i \in 1..Len(new), new[i][1] \notin Bundles
      PROVE  \A a, b \in 1..Len(rest(i)) : rest(i)[a] = rest(i)[b] => a = b
  BY <1>1, <1>2 DEF Lists
<1>3. ASSUME NEW i \in 1..Len(new), new[i][1] \notin Bundles
      PROVE  Chunked(new[i], found)
  <2>1. ASSUME NEW a \in 1..Len(new[i][2]), NEW b \in 1..Len(new[i][2]), new[i][2][a] = new[i][2][b]
        PROVE  a = b
    <3> HIDE DEF start, rest
    <3>3. /\ start(i) + a \in 1..Len(rest(i)) /\ new[i][2][a] = rest(i)[start(i) + a]
          /\ start(i) + b \in 1..Len(rest(i)) /\ new[i][2][b] = rest(i)[start(i) + b]
      BY <1>1, <1>3
    <3>1. start(i) + a = start(i) + b
      BY <1>2, <1>3, <2>1, <3>3
    <3>2. start(i) \in Nat
      BY <1>1, <1>3
    <3>4. QED
      BY <3>1, <3>2
  <2>2. QED
    BY <1>1, <1>3, <2>1 DEF Chunked
<1>4. Chunked(new[k], found)
  BY <1>3 DEF Chunked
<1>5. \A i \in 1..Len(new) : \A x \in NewSources(new[i], found) :
         Origin[x] = new[i][1] /\ x \in found /\ x \notin Flowing(found) /\ x \notin Joined(found)
  <2> SUFFICES ASSUME NEW i \in 1..Len(new), NEW x \in NewSources(new[i], found)
               PROVE  Origin[x] = new[i][1] /\ x \in found /\ x \notin Flowing(found) /\ x \notin Joined(found)
    OBVIOUS
  <2>1. CASE new[i][1] \in Bundles
    <3>1. x \in found /\ Origin[x] = new[i][1]
      BY <2>1 DEF NewSources
    <3>2. PICK y \in found \ Joined(found) : Origin[y] = new[i][1]
      BY <2>1 DEF IsNew
    <3>3. x \notin Joined(found)
      BY <2>1, <3>1, <3>2 DEF Joined
    <3>4. x \notin Flowing(found)
      BY <2>1, <3>1 DEF Flowing
    <3>5. QED
      BY <3>1, <3>3, <3>4
  <2>2. CASE new[i][1] \notin Bundles
    <3>1. PICK j \in 1..Len(new[i][2]) : x = new[i][2][j]
      BY <2>2 DEF NewSources
    <3>2. x \in Rest(new[i][1], found)
      BY <1>1, <2>2, <3>1, ElementOfSeq
    <3>3. QED
      BY <2>2, <3>2 DEF Rest, Joined
  <2>3. QED
    BY <2>1, <2>2
<1>6. ASSUME new[k][1] \notin Bundles, NEW f, NEW x \in MatchedIn(new[k][1], found, f), x \in NewSources(new[k], found)
      PROVE  FALSE
  <2>1. PICK i \in 1..Cardinality(DOMAIN Matched(new[k][1], found)) : i \in 1..Len(rest(k)) /\ x = rest(k)[i]
    BY MatchedFirst
  <2>2. PICK j \in 1..Len(new[k][2]) : x = new[k][2][j]
    BY <1>6 DEF NewSources
  <2> DEFINE c == Cardinality(DOMAIN Matched(new[k][1], found))
  <2>3. start(k) \in Nat /\ c <= start(k) /\ start(k) + j \in 1..Len(rest(k)) /\ x = rest(k)[start(k) + j]
    BY <1>1, <1>6, <2>2
  <2> HIDE DEF start, rest
  <2>4. i = start(k) + j
    BY <1>2, <1>6, <2>1, <2>3
  <2>5. c \in Nat
    BY CountIs
  <2> HIDE DEF c
  <2>6. i <= c /\ i \in Int /\ j \in Int /\ j >= 1
    BY <2>1, <2>5 DEF c
  <2>7. QED
    BY <2>3, <2>4, <2>5, <2>6
<1>7. ASSUME NEW i \in 1..Len(new), NEW m \in 1..Len(new), new[i][1] = new[m][1], new[i][1] \notin Bundles, tag[i] < tag[m],
             NEW x \in NewSources(new[i], found), x \in NewSources(new[m], found)
      PROVE  FALSE
  <2>1. PICK a \in 1..Len(new[i][2]) : x = new[i][2][a]
    BY <1>7 DEF NewSources
  <2>2. PICK b \in 1..Len(new[m][2]) : x = new[m][2][b]
    BY <1>7 DEF NewSources
  <2> DEFINE n == Cardinality(Slots)
             c == Cardinality(DOMAIN Matched(new[i][1], found))
  <2>3. start(i) + n <= start(m)
    <3>1. start(i) = c + (tag[i] - 1) * n /\ start(m) = c + (tag[m] - 1) * n
      BY <1>7 DEF ChunkStart
    <3>2. n \in Nat /\ c \in Nat
      BY SlotsAre, CountIs
    <3>7. tag[i] \in Nat \ {0}
      BY <1>1, <1>7
    <3>8. tag[m] \in Nat \ {0}
      BY <1>1, <1>7
    <3>3. tag[i] - 1 \in Nat /\ tag[m] - 1 \in Nat /\ tag[i] - 1 < tag[m] - 1
      BY <1>7, <3>7, <3>8
    <3> DEFINE y == (tag[i] - 1) * n
               z == (tag[m] - 1) * n
    <3>4. y \in Nat /\ z \in Nat /\ y + n <= z
      BY <3>2, <3>3, Multiples
    <3> HIDE DEF n, c, start, y, z
    <3>5. start(i) = c + y /\ start(m) = c + z
      BY <3>1 DEF y, z
    <3>6. QED
      BY <3>2, <3>4, <3>5
  <2>4. /\ start(i) \in Nat /\ start(i) + a \in 1..Len(rest(i)) /\ x = rest(i)[start(i) + a]
        /\ start(m) \in Nat /\ start(m) + b \in 1..Len(rest(i)) /\ x = rest(i)[start(m) + b]
        /\ a \in 1..n /\ b \in Nat \ {0} /\ n \in Nat
    <3>1. rest(i) = rest(m)
      BY <1>7
    <3>2. Len(new[i][2]) \in 0..n /\ Len(new[m][2]) \in 0..n /\ n \in Nat
      BY <1>1, <1>7, SlotsAre
    <3>3. /\ start(i) \in Nat /\ start(i) + a \in 1..Len(rest(i)) /\ x = rest(i)[start(i) + a]
      BY <1>1, <1>7, <2>1
    <3>4. /\ start(m) \in Nat /\ start(m) + b \in 1..Len(rest(m)) /\ x = rest(m)[start(m) + b]
      BY <1>1, <1>7, <2>2
    <3> HIDE DEF start, rest, n
    <3>5. a \in 1..n /\ b \in Nat \ {0}
      BY <3>2
    <3>6. QED
      BY <3>1, <3>2, <3>3, <3>4, <3>5
  <2> HIDE DEF start, rest, n
  <2>5. start(i) + a = start(m) + b
    BY <1>2, <1>7, <2>4
  <2>6. QED
    BY <2>3, <2>4, <2>5
<1>8. ASSUME NEW m \in 1..Len(new), k # m, NEW x \in NewSources(new[k], found), x \in NewSources(new[m], found)
      PROVE  FALSE
  <2>1. new[k][1] = new[m][1]
    BY <1>5, <1>8
  <2>2. new[k][1] \notin Bundles /\ tag[k] # tag[m]
    BY <1>8, <2>1 DEF IsNew
  <2>3. tag[k] \in Nat /\ tag[m] \in Nat
    BY DEF IsNew
  <2>4. tag[k] < tag[m] \/ tag[m] < tag[k]
    BY <2>2, <2>3
  <2>5. QED
    BY <1>7, <1>8, <2>1, <2>2, <2>4
<1>9. QED
  BY <1>4, <1>5, <1>6, <1>8

-----------------------------------------------------------------------------
(* What a plan assigns at once *)

Carried(found) ==
    UNION {Assignments(x, Min(Carrying(x)), Min(CarriedAt(Min(Carrying(x)), x))) : x \in Flowing(found)}
Bundled(found) == UNION {InBundle(o, FlowOfBundle(o), found) : o \in {Origin[x] : x \in Joined(found)}}
Received == {x \in Sources : Peers(x) # {}}

LEMMA ReusedGives ==
    ASSUME PlanTypes, ConnectedInv
    PROVE  Gives(Reused, Received)
<1> DEFINE remote(x) == channels[Min(Peers(x))].remote
<1>1. Reused = {Assignment(c, remote(channels[c].source).flow, remote(channels[c].source).slot) :
                   c \in {d \in Needed : Peers(channels[d].source) # {}}}
  BY DEF Reused
<1>2. Reused \in SUBSET AssignmentRecord
  BY ReusedIs
<1> HIDE DEF remote
<1>3. \A a \in Reused : /\ a.chan \in Needed /\ Peers(a.source) # {} /\ a.source = channels[a.chan].source
                        /\ a.flow = remote(a.source).flow /\ a.slot = remote(a.source).slot
  <2> SUFFICES ASSUME NEW a \in Reused
               PROVE  /\ a.chan \in Needed /\ Peers(a.source) # {} /\ a.source = channels[a.chan].source
                      /\ a.flow = remote(a.source).flow /\ a.slot = remote(a.source).slot
    OBVIOUS
  <2>1. PICK c \in {d \in Needed : Peers(channels[d].source) # {}} :
           a = Assignment(c, remote(channels[c].source).flow, remote(channels[c].source).slot)
    BY <1>1
  <2>2. /\ a.chan = c /\ a.source = channels[c].source
        /\ a.flow = remote(channels[c].source).flow /\ a.slot = remote(channels[c].source).slot
    BY <2>1 DEF Assignment
  <2>3. QED
    BY <2>1, <2>2
<1>4. \A a \in Reused : a.source \in Received /\ a.chan \in NeededAs(a.source)
  BY <1>2, <1>3, AssignmentIs DEF Received, NeededAs
<1>5. \A a, b \in Reused : a.source = b.source => a.flow = b.flow /\ a.slot = b.slot
  BY <1>3
<1>6. QED
  BY <1>2, <1>4, <1>5 DEF Gives

LEMMA CarriedGives ==
    ASSUME PlanTypes, NEW found \in SUBSET SourcesOf(Needed)
    PROVE  Gives(Carried(found), Flowing(found)) /\ \A a \in Carried(found) : There(a.flow)
<1> DEFINE X == Flowing(found)
           F == [x \in X |-> Min(Carrying(x))]
           S == [x \in X |-> Min(CarriedAt(Min(Carrying(x)), x))]
<1>1. X \in SUBSET SourcesOf(Needed) /\ \A x \in X : Carrying(x) # {}
  BY DEF Flowing
<1> HIDE DEF X
<1>2. ASSUME NEW x \in X
      PROVE  Min(Carrying(x)) \in FlowIds /\ There(Min(Carrying(x))) /\ Min(CarriedAt(Min(Carrying(x)), x)) \in Slots
  <2>1. Carrying(x) \in SUBSET Nat
    BY SlotsAre DEF Carrying
  <2>2. Min(Carrying(x)) \in Carrying(x)
    BY <1>1, <2>1, MinOf
  <2> DEFINE f == Min(Carrying(x))
  <2>3. f \in FlowIds /\ There(f) /\ CarriedAt(f, x) # {}
    BY <2>2 DEF Carrying, There
  <2> HIDE DEF f
  <2>4. CarriedAt(f, x) \in SUBSET Nat /\ CarriedAt(f, x) \subseteq Slots
    BY SlotsAre DEF CarriedAt
  <2>5. Min(CarriedAt(f, x)) \in Slots
    BY <2>3, <2>4, MinOf
  <2>6. QED
    BY <2>3, <2>5 DEF f
<1>3. F \in [X -> FlowIds] /\ S \in [X -> Slots] /\ \A x \in X : There(F[x])
  BY <1>2
<1>4. \A a \in Carried(found) : \E x \in X : a \in Assignments(x, F[x], S[x])
  <2> SUFFICES ASSUME NEW a \in Carried(found)
               PROVE  \E x \in X : a \in Assignments(x, F[x], S[x])
    OBVIOUS
  <2>1. PICK x \in X : a \in Assignments(x, Min(Carrying(x)), Min(CarriedAt(Min(Carrying(x)), x)))
    BY DEF Carried, X
  <2>2. F[x] = Min(Carrying(x)) /\ S[x] = Min(CarriedAt(Min(Carrying(x)), x))
    OBVIOUS
  <2> HIDE DEF F, S
  <2>3. QED
    BY <2>1, <2>2
<1> HIDE DEF F, S
<1>5. Gives(Carried(found), X) /\ \A a \in Carried(found) : a.flow = F[a.source]
  BY <1>1, <1>3, <1>4, FamilyGives
<1>6. \A a \in Carried(found) : There(a.flow)
  BY <1>3, <1>5 DEF Gives
<1>7. QED
  BY <1>5, <1>6 DEF X

LEMMA BundledGives ==
    ASSUME PlanTypes, NEW found \in SUBSET SourcesOf(Needed)
    PROVE  Gives(Bundled(found), Joined(found)) /\ \A a \in Bundled(found) : There(a.flow)
<1> DEFINE X == Joined(found)
           F == [x \in X |-> FlowOfBundle(Origin[x])]
           S == [x \in X |-> SlotInBundle[x]]
<1>1. /\ X \in SUBSET SourcesOf(Needed)
      /\ \A x \in X : Origin[x] \in Bundles /\ \E f \in FlowIds : flows[f] # NoFlow /\ flows[f].origin = Origin[x]
  BY DEF Joined
<1>2. \A x \in X, y \in found : Origin[y] = Origin[x] => y \in X
  BY DEF Joined
<1> HIDE DEF X
<1>3. \A x \in X : FlowOfBundle(Origin[x]) \in FlowIds /\ There(FlowOfBundle(Origin[x]))
  BY <1>1 DEF FlowOfBundle, There
<1>4. \A x \in X : SlotInBundle[x] \in Slots
  BY <1>1, NeededAre, OriginsAssumption
<1>5. F \in [X -> FlowIds] /\ S \in [X -> Slots] /\ \A x \in X : There(F[x])
  BY <1>3, <1>4
<1>6. \A a \in Bundled(found) : \E x \in X : a \in Assignments(x, F[x], S[x])
  <2> SUFFICES ASSUME NEW a \in Bundled(found)
               PROVE  \E x \in X : a \in Assignments(x, F[x], S[x])
    OBVIOUS
  <2>1. PICK y \in X : a \in InBundle(Origin[y], FlowOfBundle(Origin[y]), found)
    BY DEF Bundled, X
  <2>2. PICK x \in found : Origin[x] = Origin[y] /\ a \in Assignments(x, FlowOfBundle(Origin[y]), SlotInBundle[x])
    BY <2>1 DEF InBundle
  <2>3. x \in X /\ a \in Assignments(x, FlowOfBundle(Origin[x]), SlotInBundle[x])
    BY <1>2, <2>2
  <2>4. F[x] = FlowOfBundle(Origin[x]) /\ S[x] = SlotInBundle[x]
    BY <2>3
  <2> HIDE DEF F, S
  <2>5. QED
    BY <2>3, <2>4
<1> HIDE DEF F, S
<1>7. Gives(Bundled(found), X) /\ \A a \in Bundled(found) : a.flow = F[a.source]
  BY <1>1, <1>5, <1>6, FamilyGives
<1>8. \A a \in Bundled(found) : There(a.flow)
  BY <1>5, <1>7 DEF Gives
<1>9. QED
  BY <1>7, <1>8 DEF X

LEMMA LocalGives ==
    ASSUME PlanTypes, ConnectedInv, NEW found \in SUBSET SourcesOf(Needed), \A x \in found : Peers(x) = {},
           NEW local, local = Reused \cup Carried(found) \cup Bundled(found)
    PROVE  /\ Gives(local, Received \cup Flowing(found) \cup Joined(found))
           /\ \A a \in local : There(a.flow)
<1>1. Gives(Reused, Received) /\ Gives(Carried(found), Flowing(found)) /\ Gives(Bundled(found), Joined(found))
  BY ReusedGives, CarriedGives, BundledGives
<1>2. Received \cap Flowing(found) = {}
  BY DEF Received, Flowing
<1>3. (Received \cup Flowing(found)) \cap Joined(found) = {}
  BY DEF Received, Flowing, Joined
<1>4. Gives(Reused \cup Carried(found), Received \cup Flowing(found))
  BY <1>1, <1>2, GivesBoth
<1>5. Gives(Reused \cup Carried(found) \cup Bundled(found), Received \cup Flowing(found) \cup Joined(found))
  BY <1>1, <1>3, <1>4, GivesBoth
<1>6. \A a \in Reused : There(a.flow)
  BY ReusedIs DEF Ready
<1>7. QED
  BY <1>5, <1>6, CarriedGives, BundledGives

-----------------------------------------------------------------------------
(* The answer to a query *)

\* There is a flow index for every new flow: flows_info has one per flow that
\* FlowsReceiver takes.
FlowsSuffice == at = "query" => \A found \in SUBSET queried : Len(NewFlows(found)) <= Len(FreeFlowIds)

\* The requests of a plan, by their places: updates first.
UpdatesOf(o, found) == IF o \in Bundles THEN << >> ELSE Updates(o, found)
NewFor(o, found) == Ascending({k \in DOMAIN NewFlows(found) : NewFlows(found)[k][1] = o})
IsUpdate(p, found) == p[2] <= Len(UpdatesOf(p[1], found))
\* The number of the new flow that a request is for.
NumberOf(p, found) == NewFor(p[1], found)[p[2] - Len(UpdatesOf(p[1], found))]

LEMMA NewForLists ==
    ASSUME PlanTypes, NEW found \in SUBSET SourcesOf(Needed), NEW o, NEW new, new = NewFlows(found)
    PROVE  /\ NewFor(o, found) \in Seq(1..Len(new)) /\ Len(NewFor(o, found)) \in Nat
           /\ \A j \in 1..Len(NewFor(o, found)) : /\ NewFor(o, found)[j] \in 1..Len(new)
                                                  /\ new[NewFor(o, found)[j]][1] = o
           /\ \A k \in 1..Len(new) : new[k][1] = o => \E j \in 1..Len(NewFor(o, found)) : NewFor(o, found)[j] = k
           /\ \A i, j \in 1..Len(NewFor(o, found)) : NewFor(o, found)[i] = NewFor(o, found)[j] => i = j
<1> DEFINE S == {k \in DOMAIN new : new[k][1] = o}
           q == NewFor(o, found)
<1>1. Len(new) \in Nat /\ DOMAIN new = 1..Len(new)
  BY NewIs
<1>2. q = Ascending(S)
  BY DEF NewFor
<1>3. S \subseteq 1..Len(new) /\ \A k \in S : new[k][1] = o
  BY <1>1
<1>4. \A k \in 1..Len(new) : new[k][1] = o => k \in S
  BY <1>1
<1> HIDE DEF S, q
<1>5. IsFiniteSet(S) /\ S \in SUBSET Int
  <2>1. IsFiniteSet(1..Len(new))
    BY <1>1, FS_Interval
  <2>2. 1..Len(new) \subseteq Int
    BY <1>1
  <2>3. IsFiniteSet(S)
    BY <1>3, <2>1, FS_Subset
  <2>4. QED
    BY <1>3, <2>2, <2>3
<1>6. Lists(q, S)
  BY <1>2, <1>5, AscendingLists
<1>7. /\ q \in Seq(S) /\ Len(q) \in Nat
      /\ \A x \in S : \E k \in 1..Len(q) : q[k] = x
      /\ \A k, m \in 1..Len(q) : q[k] = q[m] => k = m
  BY <1>6 DEF Lists
<1>8. \A j \in 1..Len(q) : q[j] \in S
  BY <1>7, ElementOfSeq
<1>9. q \in Seq(1..Len(new))
  BY <1>3, <1>7
<1>10. QED
  BY <1>3, <1>4, <1>7, <1>8, <1>9 DEF q

\* The new flows take free indices, each its own.
LEMMA FreshIs ==
    ASSUME PlanTypes, FlowsSuffice, at = "query", NEW found \in SUBSET queried, queried \subseteq SourcesOf(Needed),
           NEW new, new = NewFlows(found)
    PROVE  /\ \A k \in 1..Len(new) : FreeFlowIds[k] \in FlowIds /\ ~There(FreeFlowIds[k])
           /\ \A j, k \in 1..Len(new) : FreeFlowIds[j] = FreeFlowIds[k] => j = k
<1> DEFINE S == {f \in FlowIds : flows[f] = NoFlow}
<1>1. Len(new) <= Len(FreeFlowIds) /\ Len(new) \in Nat
  BY NewIs DEF FlowsSuffice
<1>2. FreeFlowIds = Ascending(S) /\ \A f \in S : f \in FlowIds /\ ~There(f)
  BY DEF FreeFlowIds, There
<1>3. S \in SUBSET FlowIds
  OBVIOUS
<1> HIDE DEF S
<1>4. Lists(FreeFlowIds, S)
  BY <1>2, <1>3, AscendingFlows
<1>5. /\ FreeFlowIds \in Seq(S) /\ Len(FreeFlowIds) \in Nat
      /\ \A k, m \in 1..Len(FreeFlowIds) : FreeFlowIds[k] = FreeFlowIds[m] => k = m
  BY <1>4 DEF Lists
<1>6. \A k \in 1..Len(new) : k \in 1..Len(FreeFlowIds)
  BY <1>1, <1>5
<1>7. \A k \in 1..Len(FreeFlowIds) : FreeFlowIds[k] \in S
  BY <1>5, ElementOfSeq
<1>8. QED
  BY <1>2, <1>5, <1>6, <1>7

LEMMA QueryPlaces ==
    ASSUME PlanTypes, PhaseInv, FlowsSuffice, NEW found \in SUBSET queried, QueryAnswered(found),
           NEW new, new = NewFlows(found)
    PROVE  /\ requests' \in [Origins -> Seq(RequestRecord)]
           /\ \A p \in Places' :
                 \/ /\ IsUpdate(p, found) /\ p[1] \notin Bundles /\ p[2] \in 1..Len(Updates(p[1], found))
                    /\ Asked(p)' = Updates(p[1], found)[p[2]]
                 \/ /\ ~IsUpdate(p, found) /\ NumberOf(p, found) \in 1..Len(new)
                    /\ new[NumberOf(p, found)][1] = p[1]
                    /\ Asked(p)' = Creation(new[NumberOf(p, found)], FreeFlowIds[NumberOf(p, found)], found)
           /\ \A p, r \in Places' :
                 ~IsUpdate(p, found) /\ ~IsUpdate(r, found) /\ NumberOf(p, found) = NumberOf(r, found) => p = r
           /\ \A k \in 1..Len(new) : \E p \in Places' : ~IsUpdate(p, found) /\ NumberOf(p, found) = k
<1> DEFINE u(o) == UpdatesOf(o, found)
           n(o) == NewFor(o, found)
           make(k) == Creation(new[k], FreeFlowIds[k], found)
           creations(o) == [j \in DOMAIN n(o) |-> make(n(o)[j])]
<1>0. at = "query" /\ found \in SUBSET SourcesOf(Needed) /\ queried \subseteq SourcesOf(Needed)
  BY DEF QueryAnswered, PhaseInv
<1>1. requests' = [o \in Origins |-> u(o) \o creations(o)]
  BY DEF QueryAnswered, UpdatesOf, NewFor
<1>2. PICK tag : IsNew(new, tag, found)
  BY <1>0, NewIs
<1>3. Len(new) \in Nat
  BY <1>0, NewIs
<1>4. ASSUME NEW o \in Origins
      PROVE  u(o) \in Seq(RequestRecord)
  <2>1. Updates(o, found) \in Seq(RequestRecord)
    BY <1>0, UpdatesAre
  <2>2. << >> \in Seq(RequestRecord)
    OBVIOUS
  <2>3. QED
    BY <2>1, <2>2 DEF UpdatesOf
<1>5. ASSUME NEW o
      PROVE  /\ n(o) \in Seq(1..Len(new)) /\ Len(n(o)) \in Nat
             /\ \A j \in 1..Len(n(o)) : n(o)[j] \in 1..Len(new) /\ new[n(o)[j]][1] = o
             /\ \A k \in 1..Len(new) : new[k][1] = o => \E j \in 1..Len(n(o)) : n(o)[j] = k
             /\ \A i, j \in 1..Len(n(o)) : n(o)[i] = n(o)[j] => i = j
  <2>1. n(o) \in Seq(1..Len(new)) /\ Len(n(o)) \in Nat
    BY <1>0, NewForLists
  <2>2. \A j \in 1..Len(n(o)) : n(o)[j] \in 1..Len(new) /\ new[n(o)[j]][1] = o
    BY <1>0, NewForLists
  <2>3. \A k \in 1..Len(new) : new[k][1] = o => \E j \in 1..Len(n(o)) : n(o)[j] = k
    BY <1>0, NewForLists
  <2>4. \A i, j \in 1..Len(n(o)) : n(o)[i] = n(o)[j] => i = j
    BY <1>0, NewForLists
  <2>5. QED
    BY <2>1, <2>2, <2>3, <2>4
<1>6. ASSUME NEW k \in 1..Len(new)
      PROVE  make(k) \in RequestRecord
  <2>1. Chunked(new[k], found)
    BY <1>0, <1>2, NewApart
  <2>2. FreeFlowIds[k] \in FlowIds
    BY <1>0, FreshIs
  <2>3. QED
    BY <1>0, <2>1, <2>2, CreationIs
<1> HIDE DEF u, n, make
<1>7. ASSUME NEW o \in Origins
      PROVE  /\ requests'[o] \in Seq(RequestRecord) /\ Len(requests'[o]) = Len(u(o)) + Len(n(o))
             /\ Len(u(o)) \in Nat /\ Len(n(o)) \in Nat
             /\ \A j \in 1..Len(u(o)) : requests'[o][j] = u(o)[j]
             /\ \A j \in 1..Len(n(o)) : requests'[o][Len(u(o)) + j] = make(n(o)[j])
  <2>1. u(o) \in Seq(RequestRecord)
    BY <1>4
  <2> DEFINE m == Len(n(o))
             c == creations(o)
  <2>2. m \in Nat /\ DOMAIN n(o) = 1..m /\ \A j \in 1..m : n(o)[j] \in 1..Len(new)
    BY <1>5
  <2>3. c = [j \in 1..m |-> make(n(o)[j])]
    BY <2>2
  <2>4. \A j \in 1..m : make(n(o)[j]) \in RequestRecord
    BY <1>6, <2>2
  <2> HIDE DEF m, c
  <2>5. c \in Seq(RequestRecord) /\ Len(c) = m /\ \A j \in 1..m : c[j] = make(n(o)[j])
    BY <2>2, <2>3, <2>4
  <2>6. requests'[o] = u(o) \o c
    BY <1>1 DEF c
  <2>7. /\ Len(u(o)) \in Nat /\ requests'[o] \in Seq(RequestRecord) /\ Len(requests'[o]) = Len(u(o)) + m
        /\ \A j \in 1..Len(u(o)) : requests'[o][j] = u(o)[j]
        /\ \A j \in 1..m : requests'[o][Len(u(o)) + j] = c[j]
    BY <2>1, <2>2, <2>5, <2>6, ConcatProperties
  <2>8. QED
    BY <2>2, <2>5, <2>7 DEF m
<1>8. requests' \in [Origins -> Seq(RequestRecord)]
  <2>1. requests' = [o \in Origins |-> requests'[o]]
    BY <1>1
  <2>2. QED
    BY <1>7, <2>1
<1>9. \A p : p \in Places' <=> p \in Origins \X Nat /\ p[2] \in 1..Len(requests'[p[1]])
  BY DEF Places
<1>10. \A p \in Places' : p[1] \in Origins /\ p[2] \in Nat /\ p = <<p[1], p[2]>> /\ p[2] \in 1..Len(requests'[p[1]])
                          /\ Asked(p)' = requests'[p[1]][p[2]]
  BY <1>9 DEF Asked
<1>11. \A p \in Places' : /\ IsUpdate(p, found) <=> p[2] <= Len(u(p[1]))
                          /\ NumberOf(p, found) = n(p[1])[p[2] - Len(u(p[1]))]
  BY DEF IsUpdate, NumberOf, u, n
<1>12. \A p \in Places' : ~IsUpdate(p, found) => /\ p[2] - Len(u(p[1])) \in 1..Len(n(p[1]))
                                                 /\ Asked(p)' = make(NumberOf(p, found))
  <2> SUFFICES ASSUME NEW p \in Places', ~IsUpdate(p, found)
               PROVE  p[2] - Len(u(p[1])) \in 1..Len(n(p[1])) /\ Asked(p)' = make(NumberOf(p, found))
    OBVIOUS
  <2> DEFINE j == p[2] - Len(u(p[1]))
  <2>1. /\ Len(u(p[1])) \in Nat /\ Len(n(p[1])) \in Nat /\ p[2] \in 1..(Len(u(p[1])) + Len(n(p[1])))
        /\ ~(p[2] <= Len(u(p[1])))
    BY <1>7, <1>10, <1>11
  <2>2. j \in 1..Len(n(p[1])) /\ p[2] = Len(u(p[1])) + j
    BY <2>1
  <2> HIDE DEF j
  <2>3. requests'[p[1]][p[2]] = make(n(p[1])[j])
    BY <1>7, <1>10, <2>2
  <2>4. QED
    BY <1>10, <1>11, <2>2, <2>3 DEF j
<1>13. ASSUME NEW p \in Places'
       PROVE  \/ /\ IsUpdate(p, found) /\ p[1] \notin Bundles /\ p[2] \in 1..Len(Updates(p[1], found))
                 /\ Asked(p)' = Updates(p[1], found)[p[2]]
              \/ /\ ~IsUpdate(p, found) /\ NumberOf(p, found) \in 1..Len(new)
                 /\ new[NumberOf(p, found)][1] = p[1]
                 /\ Asked(p)' = make(NumberOf(p, found))
  <2>1. CASE IsUpdate(p, found)
    <3>1. /\ p[2] \in 1..Len(u(p[1])) /\ Asked(p)' = u(p[1])[p[2]]
      <4>1. p[2] <= Len(u(p[1])) /\ Len(u(p[1])) \in Nat /\ p[2] \in Nat /\ p[2] >= 1
        BY <1>7, <1>10, <1>11, <2>1
      <4>2. p[2] \in 1..Len(u(p[1]))
        BY <4>1
      <4>3. QED
        BY <1>7, <1>10, <4>2
    <3>2. p[1] \in Bundles => u(p[1]) = << >>
      BY DEF u, UpdatesOf
    <3>3. p[1] \notin Bundles
      BY <3>1, <3>2
    <3>4. u(p[1]) = Updates(p[1], found)
      BY <3>3 DEF u, UpdatesOf
    <3>5. QED
      BY <2>1, <3>1, <3>3, <3>4
  <2>2. CASE ~IsUpdate(p, found)
    <3>1. p[2] - Len(u(p[1])) \in 1..Len(n(p[1])) /\ Asked(p)' = make(NumberOf(p, found))
      BY <1>12, <2>2
    <3>2. NumberOf(p, found) \in 1..Len(new) /\ new[NumberOf(p, found)][1] = p[1]
      BY <1>5, <1>11, <3>1
    <3>3. QED
      BY <2>2, <3>1, <3>2
  <2>3. QED
    BY <2>1, <2>2
<1>14. ASSUME NEW p \in Places', NEW r \in Places', ~IsUpdate(p, found), ~IsUpdate(r, found),
              NumberOf(p, found) = NumberOf(r, found)
       PROVE  p = r
  <2> DEFINE j == p[2] - Len(u(p[1]))
             k == r[2] - Len(u(r[1]))
  <2>1. j \in 1..Len(n(p[1])) /\ k \in 1..Len(n(r[1]))
    BY <1>12, <1>14
  <2>2. NumberOf(p, found) = n(p[1])[j] /\ NumberOf(r, found) = n(r[1])[k]
    BY <1>11
  <2>3. new[NumberOf(p, found)][1] = p[1] /\ new[NumberOf(r, found)][1] = r[1]
    BY <1>13, <1>14
  <2>4. p[1] = r[1]
    BY <1>14, <2>3
  <2> HIDE DEF j, k
  <2>8. \A a, b \in 1..Len(n(p[1])) : n(p[1])[a] = n(p[1])[b] => a = b
    BY <1>5
  <2>9. k \in 1..Len(n(p[1])) /\ n(p[1])[j] = n(p[1])[k]
    BY <1>14, <2>1, <2>2, <2>4
  <2>5. j = k
    BY <2>1, <2>8, <2>9
  <2>6. p[2] = r[2]
    BY <1>7, <1>10, <2>4, <2>5 DEF j, k
  <2>7. QED
    BY <1>10, <2>4, <2>6
<1>15. ASSUME NEW k \in 1..Len(new)
       PROVE  \E p \in Places' : ~IsUpdate(p, found) /\ NumberOf(p, found) = k
  <2> DEFINE o == new[k][1]
  <2>1. o \in Origins
    <3>1. \E x \in found : Origin[x] = o
      BY <1>2 DEF IsNew
    <3>2. PICK x \in found : Origin[x] = o
      BY <3>1
    <3>3. x \in Sources
      BY <1>0, NeededAre
    <3>4. QED
      BY <3>2, <3>3 DEF Origins
  <2>2. PICK j \in 1..Len(n(o)) : n(o)[j] = k
    BY <1>5
  <2> HIDE DEF o
  <2> DEFINE p == <<o, Len(u(o)) + j>>
  <2>3. /\ p[1] = o /\ p[2] = Len(u(o)) + j /\ p[2] \in 1..Len(requests'[o]) /\ p[2] \in Nat
        /\ ~(p[2] <= Len(u(o))) /\ p[2] - Len(u(o)) = j
    BY <1>7, <2>1, <2>2
  <2>4. p \in Places'
    <3>1. p \in Origins \X Nat
      BY <2>1, <2>3
    <3>2. QED
      BY <1>9, <2>3, <3>1
  <2> HIDE DEF p
  <2>5. ~IsUpdate(p, found) /\ NumberOf(p, found) = k
    BY <1>11, <2>2, <2>3, <2>4
  <2>6. QED
    BY <2>4, <2>5
<1>16. QED
  BY <1>8, <1>13, <1>14, <1>15 DEF make

LEMMA MatchedApart ==
    ASSUME PlanTypes, NEW found \in SUBSET SourcesOf(Needed), NEW o, NEW f, NEW g, f # g
    PROVE  MatchedIn(o, found, f) \cap MatchedIn(o, found, g) = {}
<1> SUFFICES ASSUME NEW x \in MatchedIn(o, found, f), x \in MatchedIn(o, found, g)
             PROVE  FALSE
  OBVIOUS
<1>1. PICK p \in DOMAIN Matched(o, found) : p[1] = f /\ x = Matched(o, found)[p]
  BY DEF MatchedIn
<1>2. PICK r \in DOMAIN Matched(o, found) : r[1] = g /\ x = Matched(o, found)[r]
  BY DEF MatchedIn
<1>3. \A a, b \in DOMAIN Matched(o, found) : Matched(o, found)[a] = Matched(o, found)[b] => a = b
  BY MatchedIs
<1>4. QED
  BY <1>1, <1>2, <1>3

LEMMA UpdateIs ==
    ASSUME PlanTypes, NEW found \in SUBSET SourcesOf(Needed), NEW o, NEW i \in 1..Len(Updates(o, found)),
           NEW r, r = Updates(o, found)[i]
    PROVE  Refills(r, o, found)
  BY UpdatesAre

LEMMA UpdatesDiffer ==
    ASSUME PlanTypes, NEW found \in SUBSET SourcesOf(Needed), NEW o,
           NEW i \in 1..Len(Updates(o, found)), NEW j \in 1..Len(Updates(o, found)), i # j
    PROVE  Updates(o, found)[i].flow # Updates(o, found)[j].flow
  BY UpdatesAre

LEMMA NewBeside ==
    ASSUME PlanTypes, NEW found \in SUBSET SourcesOf(Needed), NEW new, NEW tag, IsNew(new, tag, found),
           NEW k \in 1..Len(new), new[k][1] \notin Bundles, NEW f
    PROVE  MatchedIn(new[k][1], found, f) \cap NewSources(new[k], found) = {}
  BY NewApart

\* The sources that a request is for.
SourcesAt(p, found) ==
    IF IsUpdate(p, found)
    THEN MatchedIn(p[1], found, Updates(p[1], found)[p[2]].flow)
    ELSE NewSources(NewFlows(found)[NumberOf(p, found)], found)

LEMMA QueryRequests ==
    ASSUME PlanTypes, PhaseInv, FlowsSuffice, NEW found \in SUBSET queried, QueryAnswered(found)
    PROVE  /\ \A p \in Places' :
                 /\ Gives(Asked(p)'.updates, SourcesAt(p, found))
                 /\ \A a \in Asked(p)'.updates : a.flow = Asked(p)'.flow
                 /\ SourcesAt(p, found) \cap (Received \cup Flowing(found) \cup Joined(found)) = {}
                 /\ There(Asked(p)'.flow) <=> IsUpdate(p, found)
                 /\ Asked(p)'.kind = "update" <=> IsUpdate(p, found)
                 /\ IsUpdate(p, found) => flows[Asked(p)'.flow].origin = p[1]
                 /\ ~IsUpdate(p, found) => Asked(p)'.flow = FreeFlowIds[NumberOf(p, found)]
           /\ \A p, r \in Places' : p # r => /\ SourcesAt(p, found) \cap SourcesAt(r, found) = {}
                                             /\ Asked(p)'.flow # Asked(r)'.flow
<1> DEFINE new == NewFlows(found)
           id(k) == FreeFlowIds[k]
           num(p) == NumberOf(p, found)
           up(p) == IsUpdate(p, found)
           X0 == Received \cup Flowing(found) \cup Joined(found)
<1>0. at = "query" /\ found \in SUBSET SourcesOf(Needed) /\ queried \subseteq SourcesOf(Needed)
      /\ \A x \in found : Peers(x) = {}
  BY DEF QueryAnswered, PhaseInv
<1>1. PICK tag : IsNew(new, tag, found)
  BY <1>0, NewIs
<1>2. /\ \A k \in 1..Len(new) : id(k) \in FlowIds /\ ~There(id(k))
      /\ \A j, k \in 1..Len(new) : id(j) = id(k) => j = k
  BY <1>0, FreshIs
<1>3. \A p \in Places' :
         \/ /\ up(p) /\ p[1] \notin Bundles /\ p[2] \in 1..Len(Updates(p[1], found))
            /\ Asked(p)' = Updates(p[1], found)[p[2]]
         \/ /\ ~up(p) /\ num(p) \in 1..Len(new) /\ new[num(p)][1] = p[1]
            /\ Asked(p)' = Creation(new[num(p)], id(num(p)), found)
  BY QueryPlaces
<1>4. \A p, r \in Places' : ~up(p) /\ ~up(r) /\ num(p) = num(r) => p = r
  BY QueryPlaces
<1>5. \A p \in Places' : p = <<p[1], p[2]>>
  BY DEF Places
<1> HIDE DEF new, id, num, up
<1>6. ASSUME NEW p \in Places', up(p)
      PROVE  /\ Asked(p)'.kind = "update" /\ There(Asked(p)'.flow) /\ flows[Asked(p)'.flow].origin = p[1]
             /\ SourcesAt(p, found) = MatchedIn(p[1], found, Asked(p)'.flow)
             /\ Gives(Asked(p)'.updates, SourcesAt(p, found))
             /\ \A a \in Asked(p)'.updates : a.flow = Asked(p)'.flow
             /\ \A x \in SourcesAt(p, found) : Origin[x] = p[1] /\ x \notin X0
             /\ p[1] \notin Bundles
  <2> DEFINE u == Updates(p[1], found)
  <2>1. p[1] \notin Bundles /\ p[2] \in 1..Len(u) /\ Asked(p)' = u[p[2]]
    BY <1>3, <1>6
  <2> DEFINE r == u[p[2]]
  <2>2. /\ r.kind = "update" /\ There(r.flow) /\ flows[r.flow].origin = p[1]
        /\ Gives(r.updates, MatchedIn(p[1], found, r.flow))
        /\ \A a \in r.updates : a.flow = r.flow
    <3>1. Refills(r, p[1], found)
      BY <1>0, <2>1, UpdateIs
    <3> HIDE DEF r
    <3>2. QED
      BY <3>1 DEF Refills
  <2>3. SourcesAt(p, found) = MatchedIn(p[1], found, u[p[2]].flow)
    BY <1>6 DEF SourcesAt, up
  <2> HIDE DEF u
  <2>4. \A x \in SourcesAt(p, found) : Origin[x] = p[1] /\ x \notin X0
    <3> SUFFICES ASSUME NEW x \in SourcesAt(p, found)
                 PROVE  Origin[x] = p[1] /\ x \notin X0
      OBVIOUS
    <3>1. x \in Rest(p[1], found)
      BY <1>0, <2>3, MatchedFirst
    <3>2. x \in found /\ x \notin Flowing(found) /\ Origin[x] = p[1]
      BY <3>1 DEF Rest
    <3>3. x \notin Received /\ x \notin Joined(found)
      BY <1>0, <2>1, <3>2 DEF Received, Joined
    <3>4. QED
      BY <3>2, <3>3
  <2>5. QED
    BY <2>1, <2>2, <2>3, <2>4
<1>7. ASSUME NEW p \in Places', ~up(p)
      PROVE  /\ Asked(p)'.kind # "update" /\ Asked(p)'.flow = id(num(p)) /\ ~There(Asked(p)'.flow)
             /\ num(p) \in 1..Len(new) /\ new[num(p)][1] = p[1]
             /\ SourcesAt(p, found) = NewSources(new[num(p)], found)
             /\ Gives(Asked(p)'.updates, SourcesAt(p, found))
             /\ \A a \in Asked(p)'.updates : a.flow = Asked(p)'.flow
             /\ \A x \in SourcesAt(p, found) : Origin[x] = p[1] /\ x \notin X0
  <2> DEFINE k == num(p)
             e == new[k]
             r == Creation(e, id(k), found)
  <2>1. k \in 1..Len(new) /\ new[k][1] = p[1] /\ Asked(p)' = r
    BY <1>3, <1>7
  <2>2. SourcesAt(p, found) = NewSources(e, found)
    BY <1>7 DEF SourcesAt, up, num, new
  <2>3. Chunked(e, found) /\ id(k) \in FlowIds /\ ~There(id(k))
    BY <1>0, <1>1, <1>2, <2>1, NewApart
  <2>4. /\ r.flow = id(k) /\ r.kind # "update" /\ \A a \in r.updates : a.flow = id(k)
        /\ Gives(r.updates, NewSources(e, found))
    BY <1>0, <2>3, CreationIs
  <2>5. \A x \in NewSources(e, found) : Origin[x] = new[k][1] /\ x \in found
                                        /\ x \notin Flowing(found) /\ x \notin Joined(found)
    BY <1>0, <1>1, <2>1, NewApart
  <2> HIDE DEF r
  <2>6. \A x \in NewSources(e, found) : Origin[x] = p[1] /\ x \notin X0
    BY <1>0, <2>1, <2>5 DEF Received
  <2>7. QED
    BY <2>1, <2>2, <2>3, <2>4, <2>6
<1>8. ASSUME NEW p \in Places', NEW r \in Places', p # r
      PROVE  SourcesAt(p, found) \cap SourcesAt(r, found) = {} /\ Asked(p)'.flow # Asked(r)'.flow
  <2>1. CASE up(p) /\ up(r)
    <3>1. CASE p[1] = r[1]
      <4> DEFINE u == Updates(p[1], found)
      <4>1. p[2] # r[2]
        BY <1>5, <1>8, <3>1
      <4>2. /\ p[2] \in 1..Len(u) /\ Asked(p)' = u[p[2]]
            /\ r[2] \in 1..Len(u) /\ Asked(r)' = u[r[2]]
        BY <1>3, <2>1, <3>1
      <4>3. u[p[2]].flow # u[r[2]].flow
        BY <1>0, <4>1, <4>2, UpdatesDiffer
      <4> HIDE DEF u
      <4>4. Asked(p)'.flow # Asked(r)'.flow
        BY <4>2, <4>3
      <4>5. /\ SourcesAt(p, found) = MatchedIn(p[1], found, Asked(p)'.flow)
            /\ SourcesAt(r, found) = MatchedIn(p[1], found, Asked(r)'.flow)
        BY <1>6, <2>1, <3>1
      <4>6. QED
        BY <1>0, <4>4, <4>5, MatchedApart
    <3>2. CASE p[1] # r[1]
      <4>1. flows[Asked(p)'.flow].origin = p[1] /\ \A x \in SourcesAt(p, found) : Origin[x] = p[1]
        BY <1>6, <2>1
      <4>2. flows[Asked(r)'.flow].origin = r[1] /\ \A x \in SourcesAt(r, found) : Origin[x] = r[1]
        BY <1>6, <2>1
      <4>3. QED
        BY <3>2, <4>1, <4>2
    <3>3. QED
      BY <3>1, <3>2
  <2>2. ASSUME NEW a \in Places', NEW b \in Places', up(a), ~up(b)
        PROVE  SourcesAt(a, found) \cap SourcesAt(b, found) = {} /\ Asked(a)'.flow # Asked(b)'.flow
    <3>1. Asked(a)'.flow # Asked(b)'.flow
      BY <1>6, <1>7, <2>2
    <3>2. CASE a[1] # b[1]
      <4>1. \A x \in SourcesAt(a, found) : Origin[x] = a[1]
        BY <1>6, <2>2
      <4>2. \A x \in SourcesAt(b, found) : Origin[x] = b[1]
        BY <1>7, <2>2
      <4>3. QED
        BY <3>1, <3>2, <4>1, <4>2
    <3>3. CASE a[1] = b[1]
      <4>1. a[1] \notin Bundles /\ SourcesAt(a, found) = MatchedIn(a[1], found, Asked(a)'.flow)
        BY <1>6, <2>2
      <4>2. /\ num(b) \in 1..Len(new) /\ new[num(b)][1] = b[1]
            /\ SourcesAt(b, found) = NewSources(new[num(b)], found)
        BY <1>7, <2>2
      <4>3. \A f : MatchedIn(b[1], found, f) \cap NewSources(new[num(b)], found) = {}
        <5>1. new[num(b)][1] \notin Bundles
          BY <3>3, <4>1, <4>2
        <5> DEFINE k == num(b)
        <5>2. k \in 1..Len(new) /\ new[k][1] \notin Bundles /\ new[k][1] = b[1]
          BY <4>2, <5>1
        <5> HIDE DEF k
        <5>3. \A f : MatchedIn(new[k][1], found, f) \cap NewSources(new[k], found) = {}
          BY <1>0, <1>1, <5>2, NewBeside
        <5>4. QED
          BY <5>2, <5>3 DEF k
      <4>4. QED
        BY <3>1, <3>3, <4>1, <4>2, <4>3
    <3>4. QED
      BY <3>2, <3>3
  <2>3. CASE ~up(p) /\ ~up(r)
    <3>1. num(p) # num(r)
      BY <1>4, <1>8, <2>3
    <3>2. /\ num(p) \in 1..Len(new) /\ SourcesAt(p, found) = NewSources(new[num(p)], found) /\ Asked(p)'.flow = id(num(p))
      BY <1>7, <2>3
    <3>3. /\ num(r) \in 1..Len(new) /\ SourcesAt(r, found) = NewSources(new[num(r)], found) /\ Asked(r)'.flow = id(num(r))
      BY <1>7, <2>3
    <3>4. NewSources(new[num(p)], found) \cap NewSources(new[num(r)], found) = {}
      BY <1>0, <1>1, <3>1, <3>2, <3>3, NewApart
    <3>5. QED
      BY <1>2, <3>1, <3>2, <3>3, <3>4
  <2>4. QED
    BY <1>8, <2>1, <2>2, <2>3
<1>9. ASSUME NEW p \in Places'
      PROVE  /\ Gives(Asked(p)'.updates, SourcesAt(p, found))
             /\ \A a \in Asked(p)'.updates : a.flow = Asked(p)'.flow
             /\ SourcesAt(p, found) \cap X0 = {}
             /\ There(Asked(p)'.flow) <=> up(p)
             /\ Asked(p)'.kind = "update" <=> up(p)
             /\ up(p) => flows[Asked(p)'.flow].origin = p[1]
             /\ ~up(p) => Asked(p)'.flow = id(num(p))
  <2>1. CASE up(p)
    BY <1>6, <2>1
  <2>2. CASE ~up(p)
    BY <1>7, <2>2
  <2>3. QED
    BY <2>1, <2>2
<1>10. QED
  BY <1>8, <1>9 DEF up, id, num

\* The flows of a plan: the ones there stay, and the new ones are blank.
LEMMA QueryFlows ==
    ASSUME PlanTypes, PhaseInv, FlowsSuffice, NEW found \in SUBSET queried, QueryAnswered(found)
    PROVE  /\ flows' \in [FlowIds -> {NoFlow} \cup FlowRecord]
           /\ \A f \in FlowIds : There(f) => flows'[f] = flows[f]
           /\ \A f \in FlowIds : /\ ~There(f) /\ There(f)'
                                    => /\ \A s \in Slots : flows'[f].refcount[s] = 0
                                       /\ \E k \in 1..Len(NewFlows(found)) : FreeFlowIds[k] = f
           /\ \A k \in 1..Len(NewFlows(found)) :
                 /\ flows'[FreeFlowIds[k]] # NoFlow /\ flows'[FreeFlowIds[k]].origin = NewFlows(found)[k][1]
                 /\ flows'[FreeFlowIds[k]].tx = Creation(NewFlows(found)[k], FreeFlowIds[k], found).tx
<1> DEFINE new == NewFlows(found)
           id(k) == FreeFlowIds[k]
           number(f) == CHOOSE k \in DOMAIN new : id(k) = f
           tx(f) == Creation(new[number(f)], f, found).tx
<1>0. at = "query" /\ found \in SUBSET SourcesOf(Needed) /\ queried \subseteq SourcesOf(Needed)
  BY DEF QueryAnswered, PhaseInv
<1>1. flows' = [f \in FlowIds |->
                   IF \E k \in DOMAIN new : id(k) = f THEN NewFlow(new[number(f)][1], tx(f)) ELSE flows[f]]
  BY DEF QueryAnswered
<1>2. PICK tag : IsNew(new, tag, found)
  BY <1>0, NewIs
<1>3. /\ \A k \in 1..Len(new) : id(k) \in FlowIds /\ ~There(id(k))
      /\ \A j, k \in 1..Len(new) : id(j) = id(k) => j = k
  BY <1>0, FreshIs
<1>4. DOMAIN new = 1..Len(new)
  BY <1>0, NewIs
<1> HIDE DEF new, id
<1>5. \A k \in 1..Len(new) : number(id(k)) = k
  BY <1>3, <1>4
<1>6. ASSUME NEW k \in 1..Len(new)
      PROVE  /\ new[k][1] \in Origins
             /\ Creation(new[k], id(k), found).tx \in [Slots -> Sources \cup {NoSource}]
  <2>1. Chunked(new[k], found)
    BY <1>0, <1>2, NewApart
  <2>2. Creation(new[k], id(k), found) \in RequestRecord
    BY <1>0, <1>3, <2>1, CreationIs
  <2>3. \E x \in found : Origin[x] = new[k][1]
    BY <1>2 DEF IsNew
  <2>4. PICK x \in found : Origin[x] = new[k][1]
    BY <2>3
  <2>5. x \in Sources
    BY <1>0, NeededAre
  <2>6. QED
    BY <2>2, <2>4, <2>5 DEF RequestRecord, Origins
<1> HIDE DEF number, tx
<1>7. ASSUME NEW f \in FlowIds, NEW k \in 1..Len(new), id(k) = f
      PROVE  /\ flows'[f] = NewFlow(new[k][1], tx(f)) /\ tx(f) \in [Slots -> Sources \cup {NoSource}]
             /\ tx(f) = Creation(new[k], id(k), found).tx
  <2>1. number(f) = k
    BY <1>5, <1>7
  <2>2. tx(f) = Creation(new[k], id(k), found).tx
    BY <1>7, <2>1 DEF tx
  <2>3. flows'[f] = NewFlow(new[number(f)][1], tx(f))
    BY <1>1, <1>4, <1>7
  <2>4. QED
    BY <1>6, <2>1, <2>2, <2>3
<1>8. ASSUME NEW origin \in Origins, NEW t \in [Slots -> Sources \cup {NoSource}]
      PROVE  /\ NewFlow(origin, t) \in FlowRecord /\ NewFlow(origin, t).origin = origin /\ NewFlow(origin, t).tx = t
             /\ \A s \in Slots : NewFlow(origin, t).refcount[s] = 0
  BY DEF NewFlow, FlowRecord, Blank
<1>9. ASSUME NEW f \in FlowIds, NEW k \in 1..Len(new), id(k) = f
      PROVE  /\ flows'[f] \in FlowRecord /\ flows'[f].origin = new[k][1]
             /\ flows'[f].tx = Creation(new[k], id(k), found).tx
             /\ \A s \in Slots : flows'[f].refcount[s] = 0
  BY <1>6, <1>7, <1>8, <1>9
<1>10. ASSUME NEW f \in FlowIds
       PROVE  \/ \E k \in 1..Len(new) : id(k) = f
              \/ flows'[f] = flows[f]
  BY <1>1, <1>4
<1>11. flows' \in [FlowIds -> {NoFlow} \cup FlowRecord]
  <2>1. \A f \in FlowIds : flows'[f] \in {NoFlow} \cup FlowRecord
    <3> SUFFICES ASSUME NEW f \in FlowIds
                 PROVE  flows'[f] \in {NoFlow} \cup FlowRecord
      OBVIOUS
    <3>1. flows[f] \in {NoFlow} \cup FlowRecord
      BY DEF PlanTypes
    <3>2. QED
      BY <1>9, <1>10, <3>1
  <2>2. flows' = [f \in FlowIds |-> flows'[f]]
    BY <1>1
  <2>3. QED
    BY <2>1, <2>2
<1>12. \A f \in FlowIds : There(f) => flows'[f] = flows[f]
  BY <1>3, <1>10
<1>13. \A f \in FlowIds : /\ ~There(f) /\ There(f)'
                             => /\ \A s \in Slots : flows'[f].refcount[s] = 0
                                /\ \E k \in 1..Len(new) : id(k) = f
  BY <1>9, <1>10 DEF There
<1>14. \A k \in 1..Len(new) : /\ flows'[id(k)] # NoFlow /\ flows'[id(k)].origin = new[k][1]
                              /\ flows'[id(k)].tx = Creation(new[k], id(k), found).tx
  BY <1>3, <1>9, NoFlowIsNone DEF There
<1>15. QED
  BY <1>11, <1>12, <1>13, <1>14 DEF new, id

LEMMA QueryPlan ==
    ASSUME PlanInv, FlowsSuffice, NEW found \in SUBSET queried, QueryAnswered(found)
    PROVE  PlanInv' /\ \A f \in FlowIds : (Ready(f)' <=> Ready(f)) /\ (Leaving(f)' <=> Leaving(f))
<1> USE DEF PlanInv
<1> DEFINE new == NewFlows(found)
           X0 == Received \cup Flowing(found) \cup Joined(found)
           up(p) == IsUpdate(p, found)
           src(p) == SourcesAt(p, found)
<1>0. /\ at = "query" /\ found \in SUBSET SourcesOf(Needed) /\ \A x \in found : Peers(x) = {}
      /\ Places = {} /\ \A o \in Origins : stops[o] = << >>
  BY DEF QueryAnswered, PhaseInv
<1> DEFINE local == Reused \cup Carried(found) \cup Bundled(found)
<1>1. /\ results' = <<local>>
      /\ at' = "results" /\ queue' = queue /\ channels' = channels /\ stops' = stops
  <2> DEFINE L(r) == r \cup Carried(found) \cup Bundled(found)
  <2>1. results' = <<L(reused)>>
    BY DEF QueryAnswered, Carried, Bundled
  <2>2. reused = Reused
    BY <1>0 DEF PhaseInv
  <2>3. results' = <<L(Reused)>>
    BY <2>1, <2>2
  <2>4. at' = "results" /\ queue' = queue /\ channels' = channels /\ stops' = stops
    BY DEF QueryAnswered
  <2>5. QED
    BY <2>3, <2>4
<1>2. Gives(local, X0) /\ \A a \in local : There(a.flow)
  BY <1>0, LocalGives DEF CoreInv
<1>3. /\ flows' \in [FlowIds -> {NoFlow} \cup FlowRecord]
      /\ \A f \in FlowIds : There(f) => flows'[f] = flows[f]
      /\ \A f \in FlowIds : /\ ~There(f) /\ There(f)'
                               => /\ \A s \in Slots : flows'[f].refcount[s] = 0
                                  /\ \E k \in 1..Len(new) : FreeFlowIds[k] = f
  BY QueryFlows
<1>4. \A k \in 1..Len(new) : flows'[FreeFlowIds[k]] # NoFlow /\ flows'[FreeFlowIds[k]].origin = new[k][1]
  BY QueryFlows
<1>5. /\ requests' \in [Origins -> Seq(RequestRecord)]
      /\ \A p \in Places' : ~up(p) => /\ NumberOf(p, found) \in 1..Len(new)
                                      /\ new[NumberOf(p, found)][1] = p[1]
      /\ \A k \in 1..Len(new) : \E p \in Places' : ~up(p) /\ NumberOf(p, found) = k
  BY QueryPlaces
<1>6. \A p \in Places' : /\ Gives(Asked(p)'.updates, src(p))
                         /\ \A a \in Asked(p)'.updates : a.flow = Asked(p)'.flow
                         /\ src(p) \cap X0 = {}
                         /\ There(Asked(p)'.flow) <=> up(p)
                         /\ Asked(p)'.kind = "update" <=> up(p)
                         /\ up(p) => flows[Asked(p)'.flow].origin = p[1]
                         /\ ~up(p) => Asked(p)'.flow = FreeFlowIds[NumberOf(p, found)]
  BY QueryRequests
<1>7. \A p, r \in Places' : p # r => src(p) \cap src(r) = {} /\ Asked(p)'.flow # Asked(r)'.flow
  BY QueryRequests
<1> HIDE DEF new, up, src, local, X0
<1>8. local \in SUBSET AssignmentRecord
  BY <1>2 DEF Gives
<1>9. PlanTypes'
  <2>1. results' \in Seq(SUBSET AssignmentRecord)
    BY <1>1, <1>8 DEF local
  <2>2. QED
    BY <1>1, <1>3, <1>5, <2>1 DEF PlanTypes
<1>10. \A p \in Places' : Asked(p)'.flow \in FlowIds /\ Asked(p)'.updates \in SUBSET AssignmentRecord
  <2> SUFFICES ASSUME NEW p \in Places'
               PROVE  Asked(p)'.flow \in FlowIds /\ Asked(p)'.updates \in SUBSET AssignmentRecord
    OBVIOUS
  <2>1. p[1] \in Origins /\ p[2] \in 1..Len(requests'[p[1]]) /\ Asked(p)' = requests'[p[1]][p[2]]
    BY DEF Places, Asked
  <2>2. Asked(p)' \in RequestRecord
    BY <1>5, <2>1, ElementOfSeq
  <2>3. QED
    BY <2>2 DEF RequestRecord
<1>11. \A f \in FlowIds : Ready(f) <=> There(f)
  BY <1>0 DEF Ready, Coming
<1>12. ASSUME NEW f \in FlowIds
       PROVE  Ready(f)' <=> Ready(f)
  <2>1. CASE There(f)
    <3>1. There(f)'
      BY <1>3, <2>1 DEF There
    <3>2. ~Coming(f)'
      <4> SUFFICES ASSUME Coming(f)' PROVE FALSE
        OBVIOUS
      <4>1. PICK p \in Places' : Asked(p)'.kind # "update" /\ Asked(p)'.flow = f
        BY DEF Coming
      <4>2. QED
        BY <1>6, <2>1, <4>1
    <3>3. QED
      BY <1>11, <2>1, <3>1, <3>2 DEF Ready
  <2>2. CASE ~There(f)
    <3>1. There(f)' => Coming(f)'
      <4> SUFFICES ASSUME There(f)' PROVE Coming(f)'
        OBVIOUS
      <4>1. PICK k \in 1..Len(new) : FreeFlowIds[k] = f
        BY <1>3, <2>2
      <4>2. PICK p \in Places' : ~up(p) /\ NumberOf(p, found) = k
        BY <1>5
      <4>3. Asked(p)'.flow = f /\ Asked(p)'.kind # "update"
        BY <1>6, <4>1, <4>2
      <4>4. QED
        BY <4>3 DEF Coming
    <3>2. QED
      BY <1>11, <2>2, <3>1 DEF Ready
  <2>3. QED
    BY <2>1, <2>2
<1>13. Connected' = Connected /\ \A batch : Sound(batch)' <=> Sound(batch)
  BY <1>1, SetsSame, SoundSame
<1>14. PhaseInv'
  BY <1>0, <1>1 DEF PhaseInv
<1>15. ConnectedInv'
  <2> SUFFICES ASSUME NEW c \in Connected
               PROVE  Ready(channels[c].remote.flow)'
    BY <1>1, <1>13 DEF ConnectedInv
  <2>1. Ready(channels[c].remote.flow) /\ channels[c].remote.flow \in FlowIds
    BY ChannelSets, SubscriptionIs DEF CoreInv, ConnectedInv
  <2>2. QED
    BY <1>1, <1>12, <2>1
<1>16. /\ Len(results') = 1 /\ results'[1] = local
  BY <1>1 DEF local
<1>17. ResultsInv'
  <2>1. \A batch : batch = local => Sound(batch)'
    <3>1. Sound(local)
      BY <1>2, GivesSound
    <3>2. QED
      BY <1>13, <3>1
  <2>2. \A a \in local : Ready(a.flow)'
    <3> SUFFICES ASSUME NEW a \in local
                 PROVE  Ready(a.flow)'
      OBVIOUS
    <3>1. a.flow \in FlowIds /\ There(a.flow)
      BY <1>2, <1>8, AssignmentIs
    <3>2. QED
      BY <1>11, <1>12, <3>1
  <2>3. \A i \in 1..Len(results') : i = 1 /\ results'[i] = local
    BY <1>16
  <2>4. QED
    BY <2>1, <2>2, <2>3 DEF ResultsInv
<1>18. RequestsInv'
  <2>1. ASSUME NEW p \in Places'
        PROVE  /\ There(Asked(p).flow)' /\ flows'[Asked(p)'.flow].origin = p[1]
               /\ Sound(Asked(p).updates)'
               /\ \A a \in Asked(p)'.updates : a.flow = Asked(p)'.flow
               /\ \A i \in 1..Len(results') : ChansOf(results'[i]) \cap ChansOf(Asked(p)'.updates) = {}
    <3>1. There(Asked(p).flow)' /\ flows'[Asked(p)'.flow].origin = p[1]
      <4> DEFINE f == Asked(p)'.flow
      <4>1. f \in FlowIds
        BY <1>10
      <4>2. CASE up(p)
        <5>1. There(f) /\ flows[f].origin = p[1]
          BY <1>6, <4>2
        <5> HIDE DEF f
        <5>2. flows'[f] = flows[f]
          BY <1>3, <4>1, <5>1
        <5>3. flows'[f] # NoFlow /\ flows'[f].origin = p[1]
          BY <5>1, <5>2 DEF There
        <5>4. QED
          BY <5>3 DEF There, f
      <4>3. CASE ~up(p)
        <5> DEFINE k == NumberOf(p, found)
        <5>1. k \in 1..Len(new) /\ new[k][1] = p[1] /\ f = FreeFlowIds[k]
          BY <1>5, <1>6, <4>3
        <5> HIDE DEF f, k
        <5>2. flows'[f] # NoFlow /\ flows'[f].origin = p[1]
          BY <1>4, <5>1 DEF There
        <5>3. QED
          BY <5>2 DEF There, f
      <4>4. QED
        BY <4>2, <4>3
    <3>2. Gives(Asked(p)'.updates, src(p)) /\ src(p) \cap X0 = {}
      BY <1>6
    <3>3. Sound(Asked(p)'.updates)
      BY <3>2, GivesSound
    <3>4. Sound(Asked(p).updates)'
      BY <1>13, <3>3
    <3>5. ChansOf(local) \cap ChansOf(Asked(p)'.updates) = {}
      BY <1>2, <3>2, GivesApart
    <3>6. \A i \in 1..Len(results') : results'[i] = local
      BY <1>16
    <3>7. QED
      BY <1>6, <3>1, <3>4, <3>5, <3>6
  <2>2. ASSUME NEW p \in Places', NEW r \in Places', p # r
        PROVE  /\ ChansOf(Asked(p)'.updates) \cap ChansOf(Asked(r)'.updates) = {}
               /\ Asked(p)'.flow # Asked(r)'.flow
    <3>1. Gives(Asked(p)'.updates, src(p)) /\ Gives(Asked(r)'.updates, src(r))
      BY <1>6
    <3>2. src(p) \cap src(r) = {} /\ Asked(p)'.flow # Asked(r)'.flow
      BY <1>7, <2>2
    <3>3. QED
      BY <3>1, <3>2, GivesApart
  <2>3. QED
    BY <2>1, <2>2 DEF RequestsInv, ChansOf
<1>19. StopsInv'
  BY <1>0, <1>1 DEF StopsInv
<1>20. RefcountsAreExact'
  <2>1. \A f, s : SinksAt(f, s)' = SinksAt(f, s)
    BY <1>1, SetsSame
  <2>2. ASSUME NEW f \in FlowIds, NEW s \in Slots
        PROVE  IF flows'[f] = NoFlow THEN SinksAt(f, s) = {} ELSE flows'[f].refcount[s] = Cardinality(SinksAt(f, s))
    <3>1. IF flows[f] = NoFlow THEN SinksAt(f, s) = {} ELSE flows[f].refcount[s] = Cardinality(SinksAt(f, s))
      BY DEF CoreInv, RefcountsAreExact, SinksAt
    <3>2. CASE There(f)
      BY <1>3, <3>1, <3>2 DEF There
    <3>3. CASE ~There(f)
      <4>1. SinksAt(f, s) = {} /\ Cardinality(SinksAt(f, s)) = 0
        BY <3>1, <3>3, FS_EmptySet DEF There
      <4>2. flows'[f] # NoFlow => flows'[f].refcount[s] = 0
        BY <1>3, <3>3 DEF There
      <4>3. QED
        BY <4>1, <4>2
    <3>4. QED
      BY <3>2, <3>3
  <2>3. QED
    BY <2>1, <2>2 DEF RefcountsAreExact, SinksAt
<1>21. \A f \in FlowIds : Leaving(f)' <=> Leaving(f)
  BY <1>1 DEF Leaving
<1>22. QED
  BY <1>9, <1>12, <1>14, <1>15, <1>17, <1>18, <1>19, <1>20, <1>21 DEF CoreInv

-----------------------------------------------------------------------------
(* Every step *)

LEMMA PlanInit == Init => PlanInv
<1> SUFFICES ASSUME Init PROVE PlanInv
  OBVIOUS
<1>1. PICK loaded \in [Channels -> Sources \cup {NoSource}] :
         channels = [c \in Channels |-> Subscription(loaded[c], NoRemote)]
  BY DEF Init
<1>2. \A c \in Channels : channels[c] = Subscription(loaded[c], NoRemote)
  BY <1>1
<1>3. \A c \in Channels : channels[c] \in {NoSub} \cup Subscriptions
  BY <1>2, NoSubIsNone DEF NoSub
<1>4. Connected = {}
  <2>1. \A x, r : Subscription(x, r).remote = r
    BY DEF Subscription
  <2>2. \A c \in Channels : channels[c].remote = NoRemote
    BY <1>2, <2>1
  <2>3. QED
    BY <2>2 DEF Connected, Subscribed
<1>5. /\ requests = [o \in Origins |-> << >>] /\ stops = [o \in Origins |-> << >>]
      /\ queue = << >> /\ results = << >> /\ at = "idle" /\ flows = [f \in FlowIds |-> NoFlow]
  BY DEF Init, NothingPending
<1>6. PlanTypes
  <2>1. channels \in [Channels -> {NoSub} \cup Subscriptions]
    BY <1>1, <1>3
  <2>2. QED
    BY <1>5, <2>1 DEF PlanTypes
<1>7. Places = {}
  BY <1>5 DEF Places
<1>8. PhaseInv
  BY <1>5, <1>7 DEF PhaseInv
<1>9. RefcountsAreExact
  BY <1>4, <1>5 DEF RefcountsAreExact
<1>10. CoreInv
  BY <1>4, <1>5, <1>7, <1>9 DEF CoreInv, ConnectedInv, ResultsInv, RequestsInv, StopsInv
<1>11. QED
  BY <1>6, <1>8, <1>10 DEF PlanInv

LEMMA PlanStep == PlanInv /\ FlowsSuffice /\ [Next]_vars => PlanInv'
<1> SUFFICES ASSUME PlanInv, FlowsSuffice, [Next]_vars PROVE PlanInv'
  OBVIOUS
<1>1. CASE QuietStep
  BY <1>1, QuietPlan
<1>2. CASE HandleCommand
  BY <1>2, HandlePlan
<1>3. CASE Resolve
  BY <1>3, ResolvePlan
<1>4. CASE TakeResult
  BY <1>4, TakePlan
<1>5. CASE \E found \in SUBSET queried : QueryAnswered(found)
  BY <1>5, QueryPlan
<1>6. CASE \E silent, receiving \in SUBSET FlowIds : Scan(silent, receiving)
  BY <1>6, ScanPlan
<1>7. CASE (\E unreachable \in SUBSET Origins : StopFlows(unreachable)) \/ \E o \in Origins : StopReply(o)
  BY <1>7, StopPlan
<1>8. CASE Executor
  BY <1>8, RequestPlan DEF Executor
<1>9. QED
  BY <1>1, <1>2, <1>3, <1>4, <1>5, <1>6, <1>7, <1>8 DEF Next, Worker, QuietStep

\* channels_refcount is exact after every step of the worker and of its tasks: the
\* count of a slot is the number of channels connected to it, and no channel is
\* connected to a flow that is not there, so that scan_flows stops no flow that is
\* heard and keeps none that is not.
THEOREM CountsAreExact == Spec /\ []FlowsSuffice => []RefcountsAreExact
<1>1. PlanInv => RefcountsAreExact
  BY DEF PlanInv, CoreInv
<1>2. QED
  BY PlanInit, PlanStep, <1>1, PTL DEF Spec

-----------------------------------------------------------------------------
(* What is listed *)

LEMMA InfoIs ==
    /\ \A source \in Sources, status \in Status : Info(source, status) \in InfoRecord
    /\ \A source \in Sources : \A status : Info(source, status) # NoInfo
    /\ \A i \in InfoRecord, status \in Status : [i EXCEPT !.status = status] \in InfoRecord
  BY OriginsAssumption DEF Info, InfoRecord, NoInfo, Status

LEMMA InfoSame ==
    ASSUME InfoInv, queue' = queue,
           \A c \in Channels : info'[c] = NoInfo => info[c] = NoInfo,
           \A c \in Channels : channels'[c] # NoSub => channels[c] # NoSub,
           PlanTypes
    PROVE  InfoInv'
<1>1. \A i \in 1..Len(queue) : queue[i].chan \in Channels
  BY ElementOfSeq, CommandTypes DEF PlanTypes
<1>2. QED
  BY <1>1 DEF InfoInv

LEMMA InfoSubscribe ==
    ASSUME PlanTypes, InfoTypes, InfoInv, "resubscribe" \notin Races,
           NEW c \in Channels, NEW source \in Sources, UserSubscribe(c, source)
    PROVE  InfoTypes' /\ InfoInv'
<1> DEFINE new == UserCommand("Subscribe", c, source)
<1>1. /\ info' = [info EXCEPT ![c] = Info(source, "Unresolved")]
      /\ queue' = Append(queue, new) /\ channels' = channels
      /\ \A i \in DOMAIN queue : queue[i] # UserCommand("Unsubscribe", c, NoSource)
  BY DEF UserSubscribe, ShownAtOnce
<1>2. queue \in Seq(UserCommands) /\ Len(queue) \in Nat /\ DOMAIN queue = 1..Len(queue)
  BY DEF PlanTypes
<1>3. new \in UserCommands /\ new.op = "Subscribe" /\ new.chan = c
  BY DEF UserCommand, UserCommands
<1> HIDE DEF new
<1>4. /\ Len(queue') = Len(queue) + 1 /\ queue'[Len(queue) + 1] = new
      /\ \A i \in 1..Len(queue) : queue'[i] = queue[i]
  BY <1>1, <1>2, <1>3
<1>5. /\ Info(source, "Unresolved") \in InfoRecord
      /\ Info(source, "Unresolved") # NoInfo
  BY InfoIs DEF Status
<1>6. InfoTypes'
  BY <1>1, <1>5 DEF InfoTypes
<1>7. \A d \in Channels : info'[d] = NoInfo => d # c /\ info[d] = NoInfo
  BY <1>1, <1>5 DEF InfoTypes
<1>8. \A i \in 1..Len(queue) : queue[i] \in UserCommands /\ queue[i].chan \in Channels
  BY <1>2, ElementOfSeq, CommandTypes
<1>9. ASSUME NEW i \in 1..Len(queue), queue[i].op = "Unsubscribe"
      PROVE  queue[i].chan # c
  <2>1. queue[i] \in [op : {"Unsubscribe"}, chan : Channels, source : {NoSource}]
    BY <1>8, <1>9 DEF UserCommands
  <2>2. queue[i] = UserCommand("Unsubscribe", queue[i].chan, NoSource)
    BY <2>1 DEF UserCommand
  <2>3. QED
    BY <1>1, <1>2, <2>2
<1>10. \A i \in 1..Len(queue') : i \in 1..Len(queue) \/ i = Len(queue) + 1
  BY <1>2, <1>4
<1>11. \A i \in 1..Len(queue') : queue'[i].op = "Subscribe" => info'[queue'[i].chan] # NoInfo
  <2> SUFFICES ASSUME NEW i \in 1..Len(queue'), queue'[i].op = "Subscribe"
               PROVE  info'[queue'[i].chan] # NoInfo
    OBVIOUS
  <2>1. CASE i \in 1..Len(queue)
    <3>1. queue'[i] = queue[i] /\ queue[i].chan \in Channels
      BY <1>4, <1>8, <2>1
    <3>2. info[queue[i].chan] # NoInfo
      BY <2>1, <3>1 DEF InfoInv
    <3>3. QED
      BY <1>7, <3>1, <3>2
  <2>2. CASE i = Len(queue) + 1
    BY <1>3, <1>4, <1>7, <2>2
  <2>3. QED
    BY <1>10, <2>1, <2>2
<1>12. ASSUME NEW i \in 1..Len(queue'), NEW j \in 1..Len(queue'), i < j,
              queue'[i].op = "Unsubscribe", queue'[j].op = "Subscribe"
       PROVE  queue'[i].chan # queue'[j].chan
  <2>1. i \in 1..Len(queue) /\ queue'[i] = queue[i]
    BY <1>2, <1>4, <1>12
  <2>2. CASE j \in 1..Len(queue)
    <3>1. queue'[j] = queue[j]
      BY <1>4, <2>2
    <3>2. QED
      BY <1>12, <2>1, <2>2, <3>1 DEF InfoInv
  <2>3. CASE j = Len(queue) + 1
    BY <1>3, <1>4, <1>9, <1>12, <2>1, <2>3
  <2>4. QED
    BY <1>10, <2>2, <2>3
<1>13. \A d \in Channels : channels'[d] # NoSub => info'[d] # NoInfo
  BY <1>1, <1>7 DEF InfoInv
<1>14. QED
  BY <1>6, <1>11, <1>12, <1>13 DEF InfoInv

LEMMA InfoUnsubscribe ==
    ASSUME PlanTypes, InfoTypes, InfoInv, NEW c \in Channels, UserUnsubscribe(c)
    PROVE  InfoTypes' /\ InfoInv'
<1> DEFINE new == UserCommand("Unsubscribe", c, NoSource)
<1>1. info' = info /\ queue' = Append(queue, new) /\ channels' = channels
  BY DEF UserUnsubscribe
<1>2. queue \in Seq(UserCommands) /\ Len(queue) \in Nat
  BY DEF PlanTypes
<1>3. new \in UserCommands /\ new.op = "Unsubscribe"
  BY DEF UserCommand, UserCommands
<1> HIDE DEF new
<1>4. /\ Len(queue') = Len(queue) + 1 /\ queue'[Len(queue) + 1] = new
      /\ \A i \in 1..Len(queue) : queue'[i] = queue[i]
  BY <1>1, <1>2, <1>3
<1>5. \A i \in 1..Len(queue') : queue'[i].op = "Subscribe" => i \in 1..Len(queue) /\ queue'[i] = queue[i]
  BY <1>2, <1>3, <1>4
<1>6. \A i, j \in 1..Len(queue') : i < j /\ j \in 1..Len(queue) => i \in 1..Len(queue) /\ queue'[i] = queue[i]
  BY <1>2, <1>4
<1>7. InfoTypes'
  BY <1>1 DEF InfoTypes
<1>8. QED
  BY <1>1, <1>5, <1>6, <1>7 DEF InfoInv

LEMMA InfoHandle ==
    ASSUME PlanInv, InfoTypes, InfoInv, HandleCommand
    PROVE  InfoTypes' /\ InfoInv'
<1> DEFINE command == Head(queue)
           c == command.chan
<1>1. /\ queue \in Seq(UserCommands) /\ queue # << >> /\ queue' = Tail(queue)
      /\ \A d \in Channels : d # c => channels'[d] = channels[d]
      /\ c \in Channels
  BY HandleIs DEF PlanInv, PlanTypes
<1>2. command = queue[1] /\ Len(queue) \in Nat /\ 1 \in 1..Len(queue)
  BY <1>1
<1>3. Len(queue') = Len(queue) - 1 /\ \A i \in 1..Len(queue') : i + 1 \in 1..Len(queue) /\ queue'[i] = queue[i + 1]
  BY <1>1, <1>2
<1>4. command \in UserCommands
  BY <1>1, <1>2, ElementOfSeq
<1>5. command.op \in {"Subscribe", "Unsubscribe"}
  BY <1>4, CommandTypes
<1>6. /\ command.op = "Subscribe" => info' = info
      /\ command.op # "Subscribe" => info' = [info EXCEPT ![c] = IF channels[c] = NoSub THEN @ ELSE NoInfo]
      /\ channels' = [channels EXCEPT ![c] =
             IF command.op = "Subscribe" THEN Subscription(command.source, NoRemote) ELSE NoSub]
  BY DEF HandleCommand
<1>7. \A i, j \in 1..Len(queue') :
         i < j /\ queue'[i].op = "Unsubscribe" /\ queue'[j].op = "Subscribe" => queue'[i].chan # queue'[j].chan
  <2>1. \A i, j \in 1..Len(queue') : i < j => i + 1 < j + 1
    BY <1>2, <1>3
  <2>2. QED
    BY <1>3, <2>1 DEF InfoInv
<1>8. \A i \in 1..Len(queue') : queue'[i].op = "Subscribe" =>
         /\ queue'[i].chan \in Channels /\ info[queue'[i].chan] # NoInfo
         /\ command.op = "Unsubscribe" => queue'[i].chan # c
  <2> SUFFICES ASSUME NEW i \in 1..Len(queue'), queue'[i].op = "Subscribe"
               PROVE  /\ queue'[i].chan \in Channels /\ info[queue'[i].chan] # NoInfo
                      /\ command.op = "Unsubscribe" => queue'[i].chan # c
    OBVIOUS
  <2>1. i + 1 \in 1..Len(queue) /\ queue'[i] = queue[i + 1] /\ 1 < i + 1
    BY <1>2, <1>3
  <2>2. queue[i + 1] \in UserCommands
    BY <1>1, <2>1, ElementOfSeq
  <2>3. queue'[i].chan \in Channels
    BY <2>1, <2>2, CommandTypes
  <2>4. QED
    BY <1>2, <2>1, <2>3 DEF InfoInv
<1> HIDE DEF c, command
<1>9. CASE command.op = "Subscribe"
  <2>1. info' = info
    BY <1>6, <1>9
  <2>2. info[c] # NoInfo
    BY <1>2, <1>9 DEF InfoInv, c
  <2>3. \A d \in Channels : channels'[d] # NoSub => info'[d] # NoInfo
    BY <1>1, <2>1, <2>2 DEF InfoInv
  <2>4. InfoTypes'
    BY <2>1 DEF InfoTypes
  <2>5. \A i \in 1..Len(queue') : queue'[i].op = "Subscribe" => info'[queue'[i].chan] # NoInfo
    BY <1>8, <2>1
  <2>6. QED
    BY <1>7, <2>3, <2>4, <2>5 DEF InfoInv
<1>10. CASE command.op = "Unsubscribe"
  <2>1. info' = [info EXCEPT ![c] = IF channels[c] = NoSub THEN @ ELSE NoInfo]
    BY <1>6, <1>10
  <2>2. InfoTypes'
    BY <1>1, <2>1 DEF InfoTypes
  <2>3. \A d \in Channels : d # c => info'[d] = info[d]
    BY <2>1 DEF InfoTypes
  <2>4. channels'[c] = NoSub
    BY <1>1, <1>6, <1>10 DEF PlanInv, PlanTypes
  <2>5. \A d \in Channels : channels'[d] # NoSub => info'[d] # NoInfo
    BY <1>1, <2>3, <2>4 DEF InfoInv
  <2>6. \A i \in 1..Len(queue') : queue'[i].op = "Subscribe" => info'[queue'[i].chan] # NoInfo
    BY <1>8, <1>10, <2>3
  <2>7. QED
    BY <1>7, <2>2, <2>5, <2>6 DEF InfoInv
<1>11. QED
  BY <1>5, <1>9, <1>10

LEMMA InfoTake ==
    ASSUME PlanInv, InfoTypes, InfoInv, TakeResult
    PROVE  InfoTypes' /\ InfoInv'
<1> DEFINE batch == IF clockReady THEN Head(results) ELSE {}
           of == AssignedIn(batch)
<1>1. /\ info' = [c \in Channels |-> IF c \in DOMAIN of THEN Info(of[c].source, "InProgress") ELSE info[c]]
      /\ queue' = queue
  BY DEF TakeResult
<1>2. /\ batch \in SUBSET AssignmentRecord /\ Sound(batch)
      /\ \A c \in Channels : channels'[c].source = channels[c].source
      /\ \A c \in Channels : channels'[c] =
             IF c \in ChansOf(batch)
             THEN Subscription(channels[c].source, Remote(of[c].flow, of[c].slot))
             ELSE channels[c]
  BY TakeIs
<1> HIDE DEF batch
<1>3. /\ DOMAIN of = ChansOf(batch) /\ ChansOf(batch) \in SUBSET Needed
      /\ \A c \in ChansOf(batch) : of[c] \in batch
  BY <1>2, AssignedIs DEF PlanInv
<1> HIDE DEF of
<1>4. \A c \in ChansOf(batch) : of[c].source \in Sources /\ channels[c] # NoSub
  BY <1>2, <1>3, AssignmentIs DEF Needed, Subscribed
<1>5. \A c \in ChansOf(batch) : Info(of[c].source, "InProgress") \in InfoRecord /\ Info(of[c].source, "InProgress") # NoInfo
  BY <1>4, InfoIs DEF Status
<1>6. InfoTypes'
  BY <1>1, <1>3, <1>5 DEF InfoTypes
<1>7. \A c \in Channels : info'[c] = NoInfo => info[c] = NoInfo
  BY <1>1, <1>3, <1>5
<1>8. \A c \in Channels : channels'[c] # NoSub => channels[c] # NoSub
  BY <1>2, <1>4
<1>9. QED
  BY <1>1, <1>6, <1>7, <1>8, InfoSame DEF PlanInv

LEMMA InfoScan ==
    ASSUME PlanInv, InfoTypes, InfoInv, NEW silent \in SUBSET FlowIds, NEW receiving \in SUBSET FlowIds,
           Scan(silent, receiving)
    PROVE  InfoTypes' /\ InfoInv'
<1> DEFINE R(c) == c \in Connected /\ channels[c].remote.flow \in receiving
<1>1. /\ queue' = queue
      /\ channels' = [c \in Channels |->
             IF c \in Orphans(silent) THEN [channels[c] EXCEPT !.remote = NoRemote] ELSE channels[c]]
      /\ info' = [c \in Channels |->
             IF info[c] = NoInfo THEN NoInfo
             ELSE IF c \in Orphans(silent) THEN [info[c] EXCEPT !.status = "Unresolved"]
             ELSE IF R(c) THEN [info[c] EXCEPT !.status = "Receiving"]
             ELSE info[c]]
  BY DEF Scan, Orphans
<1> HIDE DEF R
<1>2. \A c \in Channels : info[c] # NoInfo => info[c] \in InfoRecord
  BY DEF InfoTypes
<1>3. \A c \in Channels : info[c] # NoInfo => info'[c] \in InfoRecord
  BY <1>1, <1>2, InfoIs DEF Status
<1>4. \A c \in Channels : info[c] = NoInfo => info'[c] = NoInfo
  BY <1>1
<1>5. info' = [c \in Channels |-> info'[c]]
  BY <1>1
<1>6. InfoTypes'
  BY <1>3, <1>4, <1>5 DEF InfoTypes
<1>7. \A c \in Channels : info'[c] = NoInfo => info[c] = NoInfo
  BY <1>3, NoInfoIsNone
<1>8. \A c \in Channels : channels'[c] # NoSub => channels[c] # NoSub
  BY <1>1 DEF Orphans, Connected, Subscribed
<1>9. QED
  BY <1>1, <1>6, <1>7, <1>8, InfoSame DEF PlanInv

LEMMA InfoRequest ==
    ASSUME PlanInv, InfoTypes, InfoInv, NEW o \in Origins, RequestUpdate(o) \/ RequestCreate(o) \/ RequestJoin(o)
    PROVE  InfoTypes' /\ InfoInv' /\ (infoPoisoned' => infoPoisoned)
<1>1. channels' = channels /\ queue' = queue
  BY DEF RequestUpdate, RequestCreate, RequestJoin
<1> DEFINE failed == {a.chan : a \in Head(requests[o]).updates}
<1>2. \/ info' = info /\ infoPoisoned' = infoPoisoned
      \/ /\ Asking(o)
         /\ infoPoisoned' = (\E c \in failed : info[c] = NoInfo)
         /\ info' = [c \in Channels |-> IF c \in failed /\ info[c] # NoInfo
                                        THEN [info[c] EXCEPT !.status = "TxFail"] ELSE info[c]]
  BY DEF RequestUpdate, RequestCreate, RequestJoin
<1>3. CASE info' = info /\ infoPoisoned' = infoPoisoned
  BY <1>1, <1>3, InfoSame DEF PlanInv, InfoTypes
<1>4. CASE /\ Asking(o)
           /\ infoPoisoned' = (\E c \in failed : info[c] = NoInfo)
           /\ info' = [c \in Channels |-> IF c \in failed /\ info[c] # NoInfo
                                          THEN [info[c] EXCEPT !.status = "TxFail"] ELSE info[c]]
  <2>1. failed = ChansOf(Asked(<<o, 1>>).updates) /\ <<o, 1>> \in Places
    <3>1. requests[o] \in Seq(RequestRecord) /\ requests[o] # << >>
      BY <1>4 DEF Asking, PlanInv, PlanTypes
    <3>2. 1 \in 1..Len(requests[o]) /\ Head(requests[o]) = requests[o][1]
      BY <3>1
    <3>3. QED
      BY <3>2 DEF Places, Asked, ChansOf
  <2>2. \A c \in failed : c \in Needed
    BY <2>1 DEF PlanInv, CoreInv, RequestsInv, Sound, ChansOf
  <2> HIDE DEF failed
  <2>3. \A c \in failed : info[c] # NoInfo
    BY <2>2, ChannelSets DEF Needed, Subscribed, InfoInv
  <2>4. ~infoPoisoned'
    BY <1>4, <2>3
  <2>5. \A c \in Channels : info[c] # NoInfo => info[c] \in InfoRecord
    BY DEF InfoTypes
  <2>6. \A c \in Channels : info[c] # NoInfo => info'[c] \in InfoRecord
    BY <1>4, <2>5, InfoIs DEF Status
  <2>7. \A c \in Channels : info[c] = NoInfo => info'[c] = NoInfo
    BY <1>4
  <2>8. info' = [c \in Channels |-> info'[c]]
    BY <1>4
  <2>9. InfoTypes'
    BY <2>6, <2>7, <2>8 DEF InfoTypes
  <2>10. \A c \in Channels : info'[c] = NoInfo => info[c] = NoInfo
    BY <2>6, NoInfoIsNone
  <2>11. InfoInv'
    BY <1>1, <2>10, InfoSame DEF PlanInv
  <2>12. QED
    BY <2>4, <2>9, <2>11
<1>5. QED
  BY <1>2, <1>3, <1>4

LEMMA InfoInit == Init => InfoTypes /\ InfoInv /\ ~infoPoisoned
<1> SUFFICES ASSUME Init PROVE InfoTypes /\ InfoInv /\ ~infoPoisoned
  OBVIOUS
<1>1. PICK loaded \in [Channels -> Sources \cup {NoSource}] :
         /\ channels = [c \in Channels |-> Subscription(loaded[c], NoRemote)]
         /\ info = [c \in Channels |-> IF loaded[c] = NoSource THEN NoInfo ELSE Info(loaded[c], "Unresolved")]
  BY DEF Init
<1>2. \A c \in Channels : loaded[c] # NoSource =>
         /\ Info(loaded[c], "Unresolved") \in InfoRecord
         /\ Info(loaded[c], "Unresolved") # NoInfo
  BY InfoIs DEF Status
<1>3. InfoTypes
  BY <1>1, <1>2 DEF InfoTypes
<1>4. \A c \in Channels : channels[c] # NoSub => info[c] # NoInfo
  BY <1>1, <1>2 DEF NoSub
<1>5. queue = << >> /\ infoPoisoned = FALSE
  BY DEF Init
<1>6. QED
  BY <1>3, <1>4, <1>5 DEF InfoInv

LEMMA InfoStep ==
    ASSUME PlanInv, InfoTypes, InfoInv, "resubscribe" \notin Races, [Next]_vars
    PROVE  InfoTypes' /\ InfoInv' /\ (infoPoisoned' => infoPoisoned)
<1>1. CASE User
  <2>1. infoPoisoned' = infoPoisoned
    BY <1>1 DEF User, UserSubscribe, UserUnsubscribe
  <2>2. QED
    BY <1>1, <2>1, InfoSubscribe, InfoUnsubscribe DEF User, PlanInv
<1>2. CASE HandleCommand
  BY <1>2, InfoHandle DEF HandleCommand
<1>3. CASE TakeResult
  BY <1>3, InfoTake DEF TakeResult
<1>4. CASE \E silent, receiving \in SUBSET FlowIds : Scan(silent, receiving)
  <2>1. infoPoisoned' = infoPoisoned
    BY <1>4 DEF Scan
  <2>2. QED
    BY <1>4, <2>1, InfoScan
<1>5. CASE Executor
  BY <1>5, InfoRequest DEF Executor
<1>6. CASE \/ WakeUp \/ SkipResolve \/ ResolveEnds \/ RunTask \/ ClockReady \/ Thread \/ Resolve
           \/ UNCHANGED vars
           \/ (\E found \in SUBSET queried : QueryAnswered(found))
           \/ (\E unreachable \in SUBSET Origins : StopFlows(unreachable))
           \/ \E o \in Origins : StopReply(o)
  <2>1. info' = info /\ infoPoisoned' = infoPoisoned /\ queue' = queue /\ channels' = channels
    BY <1>6 DEF WakeUp, SkipResolve, ResolveEnds, RunTask, ClockReady, Thread, Resolve, QueryAnswered,
                StopFlows, StopReply, vars, subVars
  <2>2. QED
    BY <2>1, InfoSame DEF PlanInv, InfoTypes
<1>7. QED
  BY <1>1, <1>2, <1>3, <1>4, <1>5, <1>6 DEF Next, Worker

-----------------------------------------------------------------------------
(* The commands on their way *)

\* While requests are pending only connects are.
TasksInv == Places # {} => \A k \in 1..Len(tasks) : tasks[k].op = "ConnectChannel"
RxInv == RxTypes /\ CommandsInv /\ TasksInv

\* Where the commands sent lead to.
Meets(middle) ==
    /\ middle \in Tables
    /\ Leads(front.commands, sockets, middle)
    /\ Leads(tasks, middle, Outcome)
    /\ \A f \in FlowIds : middle[f] # NoSocket <=> f \in front.info

LEMMA CommandsMeet ==
    CommandsInv <=> /\ \E middle \in Tables : Meets(middle)
                    /\ \A k \in 1..Len(tasks) : tasks[k].op # "AddSocket"
  BY DEF CommandsInv, Meets

LEMMA OutcomeSame ==
    ASSUME \A f \in FlowIds : Open(f)' <=> Open(f),
           \A f \in FlowIds, s \in Slots : SinksAt(f, s)' = SinksAt(f, s)
    PROVE  Outcome' = Outcome
  BY DEF Outcome

LEMMA RxSame ==
    ASSUME RxInv, front' = front, sockets' = sockets, tasks' = tasks, silence' \in SUBSET Channels,
           Outcome' = Outcome, Places' = {} \/ tasks = << >> \/ Places # {}
    PROVE  RxInv'
<1>1. RxTypes'
  BY DEF RxInv, RxTypes
<1>2. PICK middle \in Tables : Meets(middle)
  BY CommandsMeet DEF RxInv
<1>3. Meets(middle)'
  BY <1>2 DEF Meets
<1>4. CommandsInv'
  BY <1>3, CommandsMeet DEF RxInv, CommandsInv, Meets
<1>5. TasksInv'
  BY DEF RxInv, RxTypes, TasksInv
<1>6. QED
  BY <1>1, <1>4, <1>5 DEF RxInv

\* FlowsReceiver's end of the queue.
LEMMA FrontIs ==
    ASSUME RxTypes
    PROVE  /\ front.commands \in Seq(Commands) /\ front.info \in SUBSET FlowIds /\ front.poisoned \in BOOLEAN
           /\ sockets \in Tables /\ tasks \in Seq(Commands) /\ Len(tasks) \in Nat
  BY DEF RxTypes, FrontRecord

\* Another command is sent.
LEMMA SentLeads ==
    ASSUME RxTypes, NEW middle \in Tables, Leads(front.commands, sockets, middle),
           NEW command, Fits(middle, command)
    PROVE  /\ Append(front.commands, command) \in Seq(Commands)
           /\ Leads(Append(front.commands, command), sockets, Executed(middle, command))
           /\ Executed(middle, command) \in Tables
<1>1. front.commands \in Seq(Commands)
  BY FrontIs
<1>2. command \in Commands
  BY DEF Fits
<1>3. <<command>> \in Seq(Commands) /\ Append(front.commands, command) = front.commands \o <<command>>
  BY <1>1, <1>2
<1>4. Leads(<<command>>, middle, Executed(middle, command))
  BY OneLeads
<1>5. Leads(front.commands \o <<command>>, sockets, Executed(middle, command))
  BY <1>1, <1>3, <1>4, LeadsOn
<1>6. Executed(middle, command) \in Tables
  BY <1>2, ExecutedIs
<1>7. QED
  BY <1>1, <1>2, <1>3, <1>5, <1>6

LEMMA ExecuteStep ==
    ASSUME RxInv, ExecuteRx, tasks' = tasks, Outcome' = Outcome, Places' = Places
    PROVE  RxInv' /\ front'.poisoned = front.poisoned
<1> DEFINE command == Head(front.commands)
<1>1. PICK middle \in Tables : Meets(middle)
  BY CommandsMeet DEF RxInv
<1>2. front.commands \in Seq(Commands) /\ front.commands # << >> /\ sockets \in Tables /\ front \in FrontRecord
  BY FrontIs DEF RxInv, RxTypes, ExecuteRx
<1>3. /\ front' = [front EXCEPT !.commands = Tail(@)] /\ sockets' = Executed(sockets, command)
      /\ silence' = SilenceAfter(command) \/ silence' = silence
  BY DEF ExecuteRx
<1>4. /\ Fits(sockets, command)
      /\ Leads(Tail(front.commands), Executed(sockets, command), middle)
  BY <1>1, <1>2, FirstLeads DEF Meets
<1>5. command \in Commands
  BY <1>4 DEF Fits
<1>6. SilenceAfter(command) \in SUBSET Channels
  <2>1. silence \in SUBSET Channels
    BY DEF RxInv, RxTypes
  <2>2. command.op = "DisconnectChannel" => command.chan \in Channels
    BY <1>5, CommandIs
  <2> HIDE DEF command
  <2>3. QED
    BY <2>1, <2>2 DEF SilenceAfter
<1> HIDE DEF command
<1>7. front'.commands = Tail(front.commands) /\ front'.info = front.info /\ front'.poisoned = front.poisoned
      /\ front' \in FrontRecord
  <2>1. Tail(front.commands) \in Seq(Commands)
    BY <1>2
  <2>2. front' = [info |-> front.info, commands |-> Tail(front.commands), poisoned |-> front.poisoned]
    BY <1>2, <1>3 DEF FrontRecord
  <2>3. front.info \in SUBSET FlowIds /\ front.poisoned \in BOOLEAN
    BY <1>2 DEF FrontRecord
  <2>4. QED
    BY <2>1, <2>2, <2>3 DEF FrontRecord
<1>8. RxTypes'
  BY <1>2, <1>3, <1>5, <1>6, <1>7, ExecutedIs DEF RxInv, RxTypes
<1>9. Meets(middle)'
  BY <1>1, <1>3, <1>4, <1>7 DEF Meets
<1>10. CommandsInv'
  BY <1>9, CommandsMeet DEF RxInv, CommandsInv, Meets
<1>11. TasksInv'
  BY DEF RxInv, TasksInv
<1>12. QED
  BY <1>7, <1>8, <1>10, <1>11 DEF RxInv

LEMMA RunStep ==
    ASSUME RxInv, RunTask, Outcome' = Outcome, Places' = Places
    PROVE  RxInv' /\ front'.poisoned = front.poisoned
<1> DEFINE command == Head(tasks)
<1>1. PICK middle \in Tables : Meets(middle)
  BY CommandsMeet DEF RxInv
<1>2. /\ tasks \in Seq(Commands) /\ tasks # << >> /\ front \in FrontRecord
      /\ tasks' = Tail(tasks) /\ sockets' = sockets /\ silence' = silence
      /\ front' = IF command.op = "RemoveSocket" THEN RemoveSocket(front, command.flow)
                  ELSE ConnectOrDisconnect(front, command)
  BY FrontIs DEF RxInv, RxTypes, RunTask
<1>3. /\ Fits(middle, command)
      /\ Leads(Tail(tasks), Executed(middle, command), Outcome)
  BY <1>1, <1>2, FirstLeads DEF Meets
<1>4. /\ command \in Commands /\ command.op # "AddSocket" /\ middle[command.flow] # NoSocket
      /\ command = tasks[1] /\ 1 \in 1..Len(tasks)
  <2>1. command = tasks[1] /\ 1 \in 1..Len(tasks)
    BY <1>2
  <2>2. command.op # "AddSocket"
    BY <2>1 DEF RxInv, CommandsInv
  <2>3. QED
    BY <1>3, <2>1, <2>2 DEF Fits
<1> HIDE DEF command
<1> DEFINE after == Executed(middle, command)
           f == command.flow
<1>5. f \in FlowIds /\ f \in front.info /\ command.op \in {"RemoveSocket", "ConnectChannel", "DisconnectChannel"}
  BY <1>1, <1>4, CommandIs DEF Meets
<1>6. command.op = "RemoveSocket" => command = RxCommand("RemoveSocket", f, NoSlot, NoChannel)
  BY <1>4 DEF Commands, RxCommand
<1>7. /\ front'.commands = Append(front.commands, command) /\ front'.poisoned = front.poisoned
      /\ front'.info = IF command.op = "RemoveSocket" THEN front.info \ {f} ELSE front.info
      /\ front'.info \in SUBSET FlowIds
  BY <1>2, <1>5, <1>6 DEF RemoveSocket, ConnectOrDisconnect, Send, FrontRecord
<1>8. /\ Append(front.commands, command) \in Seq(Commands)
      /\ Leads(Append(front.commands, command), sockets, after) /\ after \in Tables
  BY <1>1, <1>3, SentLeads DEF RxInv, Meets
<1>9. /\ \A g \in FlowIds : g # f => after[g] = middle[g]
      /\ after[f] # NoSocket <=> command.op # "RemoveSocket"
  <2>1. \A g \in FlowIds : g # f => after[g] = middle[g]
    BY <1>4, ExecutedIs
  <2>2. command.op = "RemoveSocket" => after[f] = NoSocket
    BY <1>4, ExecutedIs
  <2>3. command.op \in {"ConnectChannel", "DisconnectChannel"} => after[f] # NoSocket
    <3>1. command.op = "ConnectChannel" => after[f] = Fed(middle[f], command)
      BY <1>4, ExecutedIs
    <3>2. command.op = "DisconnectChannel" => after[f] = Left(middle[f], command)
      BY <1>4, ExecutedIs
    <3>3. middle[f] \in [Slots -> SUBSET Channels]
      BY <1>4, <1>5 DEF Tables
    <3>4. DOMAIN Fed(middle[f], command) = Slots /\ DOMAIN Left(middle[f], command) = Slots
      BY <3>3 DEF Fed, Left
    <3>5. DOMAIN NoSocket = {} /\ Slots # {}
      BY SlotsAssumption DEF NoSocket
    <3>6. QED
      BY <3>1, <3>2, <3>4, <3>5
  <2>4. QED
    BY <1>5, <2>1, <2>2, <2>3
<1> HIDE DEF after, f
<1>10. Tail(tasks) \in Seq(Commands) /\ \A k \in 1..Len(Tail(tasks)) : k + 1 \in 1..Len(tasks) /\ Tail(tasks)[k] = tasks[k + 1]
  BY <1>2
<1>11. RxTypes'
  <2>1. front' \in FrontRecord
    <3>1. front' = [info |-> front'.info, commands |-> front'.commands, poisoned |-> front'.poisoned]
      BY <1>2 DEF FrontRecord, RemoveSocket, ConnectOrDisconnect, Send
    <3>2. QED
      BY <1>2, <1>7, <1>8, <3>1 DEF FrontRecord
  <2>2. QED
    BY <1>2, <1>10, <2>1 DEF RxInv, RxTypes
<1>12. \A g \in FlowIds : after[g] # NoSocket <=> g \in front'.info
  BY <1>1, <1>5, <1>7, <1>9 DEF Meets
<1>13. \E table \in Tables : Meets(table)'
  <2>1. PICK table \in Tables : table = after
    BY <1>8
  <2>2. Leads(tasks', table, Outcome')
    BY <1>2, <1>3, <2>1 DEF after
  <2>3. Leads(front'.commands, sockets', table)
    BY <1>2, <1>7, <1>8, <2>1
  <2>4. Meets(table)'
    BY <1>12, <2>1, <2>2, <2>3 DEF Meets
  <2>5. QED
    BY <2>4
<1>14. CommandsInv'
  <2>1. \A k \in 1..Len(tasks') : tasks'[k].op # "AddSocket"
    BY <1>2, <1>10 DEF RxInv, CommandsInv
  <2>2. QED
    BY <1>13, <2>1 DEF CommandsInv, Meets
<1>15. TasksInv'
  BY <1>2, <1>10 DEF RxInv, TasksInv
<1>16. QED
  BY <1>7, <1>11, <1>14, <1>15 DEF RxInv

LEMMA ConnectsKeep ==
    ASSUME NEW q \in Seq(Commands), NEW before, NEW after, Leads(q, before, after),
           NEW f \in FlowIds, before[f] # NoSocket, \A k \in 1..Len(q) : q[k].op = "ConnectChannel"
    PROVE  after[f] # NoSocket
<1> DEFINE n == Len(q)
<1>0. n \in Nat /\ \A k \in 1..n : q[k].op = "ConnectChannel"
  OBVIOUS
<1>1. PICK t \in [1..n + 1 -> Tables] : LeadsAlong(q, t, before, after)
  BY DEF Leads
<1>2. /\ t[1] = before /\ t[n + 1] = after
      /\ \A k \in 1..n : Fits(t[k], q[k]) /\ t[k + 1] = Executed(t[k], q[k])
  BY <1>1 DEF LeadsAlong
<1> HIDE DEF n
<1>3. ASSUME NEW k \in 1..n, t[k][f] # NoSocket
      PROVE  t[k + 1][f] # NoSocket
  <2>1. t[k] \in Tables /\ q[k] \in Commands /\ q[k].op = "ConnectChannel" /\ t[k + 1] = Executed(t[k], q[k])
    <3>1. k \in 1..n + 1
      BY <1>0
    <3>2. QED
      BY <1>0, <1>2, <3>1 DEF Fits
  <2>2. t[k][q[k].flow] # NoSocket /\ q[k].flow \in FlowIds
    BY <1>2, <2>1, CommandIs DEF Fits
  <2>3. t[k + 1][q[k].flow] = Fed(t[k][q[k].flow], q[k])
    BY <2>1, <2>2, ExecutedIs
  <2>4. t[k][q[k].flow] \in [Slots -> SUBSET Channels]
    BY <2>1, <2>2 DEF Tables
  <2>5. DOMAIN Fed(t[k][q[k].flow], q[k]) = Slots
    BY <2>4 DEF Fed
  <2>6. DOMAIN NoSocket = {} /\ Slots # {}
    BY SlotsAssumption DEF NoSocket
  <2>7. t[k + 1][q[k].flow] # NoSocket
    BY <2>3, <2>5, <2>6
  <2>8. f # q[k].flow => t[k + 1][f] = t[k][f]
    BY <2>1, ExecutedIs
  <2>9. QED
    BY <1>3, <2>7, <2>8
<1> DEFINE S == {k \in Nat : k \in 0..n => t[k + 1][f] # NoSocket}
<1>4. Nat \subseteq S
  <2>1. 0 \in S
    BY <1>2
  <2>2. ASSUME NEW k \in Nat, k \in S
        PROVE  k + 1 \in S
    <3>1. CASE k + 1 \in 0..n
      <4>1. k + 1 \in 1..n /\ k \in 0..n
        BY <1>0, <3>1
      <4>2. t[k + 1][f] # NoSocket
        BY <2>2, <4>1
      <4>3. QED
        BY <1>3, <4>1, <4>2
    <3>2. QED
      BY <3>1
  <2> HIDE DEF S
  <2>3. QED
    BY <2>1, <2>2, EveryNumber
<1>5. n \in S /\ n \in 0..n
  BY <1>0, <1>4
<1>6. QED
  BY <1>2, <1>5

\* A table with one socket changed.
LEMMA TableSame ==
    ASSUME NEW table \in Tables, NEW other \in Tables, \A f \in FlowIds : table[f] = other[f]
    PROVE  table = other
  BY DEF Tables

\* The sinks of a flow that no channel is connected to.
LEMMA NoSinks ==
    ASSUME PlanInv, NEW f, ~Ready(f), NEW s
    PROVE  SinksAt(f, s) = {}
<1> SUFFICES ASSUME NEW c \in SinksAt(f, s)
             PROVE  FALSE
  OBVIOUS
<1>1. c \in Connected /\ channels[c].remote = Remote(f, s)
  BY DEF SinksAt
<1>2. channels[c].remote.flow = f
  BY <1>1 DEF Remote
<1>3. QED
  BY <1>1, <1>2 DEF PlanInv, CoreInv, ConnectedInv

LEMMA OutcomeAt ==
    ASSUME NEW f \in FlowIds
    PROVE  /\ Open(f) => Outcome[f] = [s \in Slots |-> SinksAt(f, s)] /\ Outcome[f] # NoSocket
           /\ ~Open(f) => Outcome[f] = NoSocket
<1>1. DOMAIN [s \in Slots |-> SinksAt(f, s)] = Slots /\ DOMAIN NoSocket = {} /\ Slots # {}
  BY SlotsAssumption DEF NoSocket
<1>2. QED
  BY <1>1 DEF Outcome

LEMMA RequestRx ==
    ASSUME PlanInv, RxInv, NEW o \in Origins, RequestUpdate(o) \/ RequestCreate(o) \/ RequestJoin(o)
    PROVE  RxInv' /\ front'.poisoned = front.poisoned
<1>0. PICK request : request = Head(requests[o])
  OBVIOUS
<1>a. PICK f : f = request.flow
  OBVIOUS
<1>b. PICK kind : kind = request.kind
  OBVIOUS
<1>1. /\ Asking(o) /\ Answered(o)
      /\ UNCHANGED <<channels, stops, queue, queried, reused, at, tasks, sockets, silence>>
      /\ \/ kind = "update" /\ front' = front /\ There(f)'
         \/ kind # "update" /\ front' = AddSocket(front, f) /\ There(f)'
         \/ kind # "update" /\ front' = front /\ ~There(f)'
  <2>1. /\ Asking(o) /\ Answered(o)
        /\ UNCHANGED <<channels, stops, queue, queried, reused, at, tasks, sockets, silence>>
    BY <1>0, <1>a, AnswerIs
  <2>2. \/ request.kind = "update" /\ front' = front /\ There(f)'
        \/ request.kind # "update" /\ front' = AddSocket(front, f) /\ There(f)'
        \/ request.kind # "update" /\ front' = front /\ ~There(f)'
    BY <1>0, <1>a, AnswerIs
  <2>3. QED
    BY <1>b, <2>1, <2>2
<1>2. /\ PlanInv' /\ There(f) /\ f \in FlowIds
      /\ \A g \in FlowIds : g # f => (Ready(g)' <=> Ready(g))
      /\ Ready(f)' <=> There(f)'
      /\ Ready(f) <=> kind = "update"
  <2>1. f = Head(requests[o]).flow /\ kind = Head(requests[o]).kind
    BY <1>0, <1>a, <1>b
  <2>2. PlanInv' /\ There(f) /\ f \in FlowIds
    BY <2>1, RequestPlan
  <2>3. \A g \in FlowIds : g # f => (Ready(g)' <=> Ready(g))
    BY <2>1, RequestPlan
  <2>4. (Ready(f)' <=> There(f)') /\ (Ready(f) <=> kind = "update")
    BY <2>1, RequestPlan
  <2>5. QED
    BY <2>2, <2>3, <2>4
<1>3. \A g : Leaving(g)' <=> Leaving(g)
  BY <1>1 DEF Leaving
<1>4. \A g, s : SinksAt(g, s)' = SinksAt(g, s)
  BY <1>1, SetsSame
<1>5. ~Leaving(f)
  BY <1>2 DEF PlanInv, CoreInv, StopsInv, Leaving
<1>6. Places # {}
  <2>1. requests[o] \in Seq(RequestRecord) /\ requests[o] # << >>
    BY <1>1 DEF Asking, PlanInv, PlanTypes
  <2>2. 1 \in 1..Len(requests[o]) /\ 1 \in Nat
    BY <2>1
  <2>3. <<o, 1>> \in Places
    BY <2>2 DEF Places
  <2>4. QED
    BY <2>3
<1>7. CASE front' = front /\ (kind = "update" <=> There(f)')
  <2>1. \A g \in FlowIds : Open(g)' <=> Open(g)
    BY <1>2, <1>3, <1>7 DEF Open
  <2>2. Outcome' = Outcome
    BY <1>4, <2>1, OutcomeSame
  <2>3. silence' \in SUBSET Channels
    BY <1>1 DEF RxInv, RxTypes
  <2>4. QED
    BY <1>1, <1>6, <1>7, <2>2, <2>3, RxSame
<1>8. CASE front' = AddSocket(front, f) /\ kind # "update" /\ There(f)'
  <2> DEFINE add == RxCommand("AddSocket", f, NoSlot, NoChannel)
  <2>1. PICK middle \in Tables : Meets(middle)
    BY CommandsMeet DEF RxInv
  <2>2. /\ tasks \in Seq(Commands) /\ front \in FrontRecord
        /\ \A k \in 1..Len(tasks) : tasks[k].op = "ConnectChannel"
    BY <1>6, FrontIs DEF RxInv, RxTypes, TasksInv
  <2>3. ~Open(f)
    BY <1>2, <1>5, <1>8 DEF Open
  <2>4. Outcome[f] = NoSocket
    BY <1>2, <2>3, OutcomeAt
  <2>5. middle[f] = NoSocket
    BY <1>2, <2>1, <2>2, <2>4, ConnectsKeep DEF Meets
  <2>6. add \in Commands /\ add.flow = f /\ add.op = "AddSocket"
    BY <1>2 DEF RxCommand, Commands
  <2>7. Fits(middle, add)
    BY <2>5, <2>6 DEF Fits, Applicable
  <2> HIDE DEF add
  <2>8. /\ Append(front.commands, add) \in Seq(Commands)
        /\ Leads(Append(front.commands, add), sockets, Executed(middle, add))
        /\ Executed(middle, add) \in Tables
    BY <2>1, <2>7, SentLeads DEF RxInv, Meets
  <2>9. Executed(middle, add) = [middle EXCEPT ![f] = NewSocket]
    BY <2>6 DEF Executed
  <2>10. Outcome \in Tables
    BY OutcomeIs DEF PlanInv
  <2>11. Leads(tasks, [middle EXCEPT ![f] = NewSocket], [Outcome EXCEPT ![f] = NewSocket])
    BY <1>2, <2>1, <2>2, <2>5, <2>10, LeadsBeside DEF Meets
  <2>12. Outcome' = [Outcome EXCEPT ![f] = NewSocket]
    <3> DEFINE after == [Outcome EXCEPT ![f] = NewSocket]
    <3>1. Outcome' \in Tables
      <4>1. PlanTypes'
        BY <1>2 DEF PlanInv
      <4>2. \A g \in FlowIds, s \in Slots : SinksAt(g, s) \in SUBSET Channels
        BY ChannelSets DEF SinksAt
      <4>3. \A g \in FlowIds : Outcome'[g] \in {NoSocket} \cup [Slots -> SUBSET Channels]
        BY <1>4, <4>2 DEF Outcome
      <4>4. QED
        BY <4>3 DEF Outcome, Tables
    <3>2. after \in Tables
      BY <2>10 DEF Tables, NewSocket
    <3>3. \A g \in FlowIds : g # f => Outcome'[g] = Outcome[g]
      <4>1. \A g \in FlowIds : g # f => (Open(g)' <=> Open(g))
        BY <1>2, <1>3 DEF Open
      <4>2. QED
        BY <1>4, <4>1 DEF Outcome
    <3>4. Outcome'[f] = NewSocket
      <4>1. Open(f)'
        BY <1>2, <1>8 DEF Open
      <4>2. \A s \in Slots : SinksAt(f, s) = {}
        <5>1. ~Ready(f)
          BY <2>3 DEF Open
        <5>2. QED
          BY <5>1, NoSinks
      <4>3. QED
        BY <1>2, <1>4, <4>1, <4>2 DEF Outcome, NewSocket
    <3>5. QED
      BY <2>10, <3>1, <3>2, <3>3, <3>4, TableSame DEF Tables
  <2>13. /\ front'.commands = Append(front.commands, add) /\ front'.info = front.info \cup {f}
         /\ front'.poisoned = front.poisoned /\ front' \in FrontRecord
    <3>1. front' = [info |-> front.info \cup {f}, commands |-> Append(front.commands, add), poisoned |-> front.poisoned]
      BY <1>8, <2>2 DEF AddSocket, Send, FrontRecord, add
    <3>2. QED
      BY <1>2, <2>2, <2>8, <3>1 DEF FrontRecord
  <2>14. RxTypes'
    BY <1>1, <2>13 DEF RxInv, RxTypes
  <2>15. CommandsInv'
    <3>1. PICK table \in Tables : table = [middle EXCEPT ![f] = NewSocket]
      BY <2>8, <2>9
    <3>2. Leads(front'.commands, sockets', table)
      BY <1>1, <2>8, <2>9, <2>13, <3>1
    <3>3. Leads(tasks', table, Outcome')
      BY <1>1, <2>11, <2>12, <3>1
    <3>4. \A g \in FlowIds : table[g] # NoSocket <=> g \in front'.info
      <4>1. NewSocket # NoSocket
        BY SlotsAssumption DEF NewSocket, NoSocket
      <4>2. QED
        BY <1>2, <2>1, <2>13, <3>1, <4>1 DEF Meets, Tables
    <3>5. Meets(table)'
      BY <3>2, <3>3, <3>4 DEF Meets
    <3>6. QED
      BY <1>1, <3>5 DEF RxInv, CommandsInv, Meets
  <2>16. TasksInv'
    BY <1>1, <2>2 DEF TasksInv
  <2>17. QED
    BY <2>13, <2>14, <2>15, <2>16 DEF RxInv
<1>9. QED
  BY <1>1, <1>7, <1>8

LEMMA OutcomeNext ==
    ASSUME PlanInv'
    PROVE  Outcome' \in Tables
<1>1. Connected' \in SUBSET Channels
  BY DEF Connected, Subscribed
<1>2. \A f \in FlowIds, s \in Slots : SinksAt(f, s)' \in SUBSET Channels
  BY <1>1 DEF SinksAt
<1>3. \A f \in FlowIds : Outcome'[f] \in {NoSocket} \cup [Slots -> SUBSET Channels]
  BY <1>2 DEF Outcome
<1>4. QED
  BY <1>3 DEF Outcome, Tables

\* More commands are to be sent.
LEMMA MoreTasks ==
    ASSUME RxInv, front' = front, sockets' = sockets, silence' = silence,
           NEW more \in Seq(Commands), tasks' = tasks \o more, Leads(more, Outcome, Outcome'),
           \A k \in 1..Len(more) : more[k].op # "AddSocket",
           \/ Places' = {}
           \/ Places' = Places /\ \A k \in 1..Len(more) : more[k].op = "ConnectChannel"
    PROVE  RxInv'
<1>1. PICK middle \in Tables : Meets(middle)
  BY CommandsMeet DEF RxInv
<1>2. tasks \in Seq(Commands) /\ Len(tasks) \in Nat /\ Len(more) \in Nat
  BY FrontIs DEF RxInv
<1>3. tasks' \in Seq(Commands)
  BY <1>2
<1>4. \A k \in 1..Len(tasks') : \/ k \in 1..Len(tasks) /\ tasks'[k] = tasks[k]
                                \/ k - Len(tasks) \in 1..Len(more) /\ tasks'[k] = more[k - Len(tasks)]
  BY <1>2
<1>5. RxTypes'
  BY <1>3 DEF RxInv, RxTypes
<1>6. Leads(tasks', middle, Outcome')
  BY <1>1, <1>2, LeadsOn DEF Meets
<1>7. Meets(middle)'
  BY <1>1, <1>6 DEF Meets
<1>8. CommandsInv'
  <2>1. \A k \in 1..Len(tasks') : tasks'[k].op # "AddSocket"
    BY <1>4 DEF RxInv, CommandsInv
  <2>2. QED
    BY <1>7, <2>1 DEF CommandsInv, Meets
<1>9. TasksInv'
  <2>1. CASE Places' = {}
    BY <2>1 DEF TasksInv
  <2>2. CASE Places' = Places /\ \A k \in 1..Len(more) : more[k].op = "ConnectChannel"
    BY <1>4, <2>2 DEF RxInv, TasksInv
  <2>3. QED
    BY <2>1, <2>2
<1>10. QED
  BY <1>5, <1>8, <1>9 DEF RxInv

LEMMA HandleRx ==
    ASSUME PlanInv, RxInv, HandleCommand
    PROVE  RxInv' /\ front'.poisoned = front.poisoned
<1>0. PICK c : c = Head(queue).chan
  OBVIOUS
<1>1. /\ c \in Channels /\ at = "batch"
      /\ \A f, s : SinksAt(f, s)' = SinksAt(f, s) \ {c}
      /\ tasks' = IF c \in Connected THEN Append(tasks, Disconnect(c, channels[c].remote)) ELSE tasks
      /\ UNCHANGED <<requests, results, stops, queried, reused, rxVars>>
  BY <1>0, HandleIs DEF PlanInv
<1>2. PlanInv' /\ \A f \in FlowIds : (Ready(f)' <=> Ready(f)) /\ (There(f)' <=> There(f))
  BY <1>0, HandlePlan
<1>3. \A f \in FlowIds : Open(f)' <=> Open(f)
  BY <1>1, <1>2 DEF Open, Leaving
<1>4. front' = front /\ sockets' = sockets /\ silence' = silence /\ silence \in SUBSET Channels
  BY <1>1 DEF rxVars, RxInv, RxTypes
<1>5. Places' = {}
  BY <1>1 DEF PlanInv, PhaseInv, Places
<1>6. CASE c \notin Connected
  <2>1. \A f \in FlowIds, s \in Slots : SinksAt(f, s)' = SinksAt(f, s)
    BY <1>1, <1>6 DEF SinksAt
  <2>2. Outcome' = Outcome
    BY <1>3, <2>1, OutcomeSame
  <2>3. tasks' = tasks
    BY <1>1, <1>6
  <2>4. QED
    BY <1>4, <1>5, <2>2, <2>3, RxSame
<1>7. CASE c \in Connected
  <2>0. PICK f : f = channels[c].remote.flow
    OBVIOUS
  <2>a. PICK x : x = channels[c].remote.slot
    OBVIOUS
  <2> DEFINE command == Disconnect(c, channels[c].remote)
  <2>1. f \in FlowIds /\ x \in Slots /\ channels[c].remote = Remote(f, x) /\ c \in Channels
    BY <1>1, <1>7, <2>0, <2>a, SubscriptionIs DEF PlanInv
  <2>2. Ready(f) /\ Open(f)
    BY <1>7, <2>0 DEF PlanInv, CoreInv, ConnectedInv, Open
  <2>3. command = [op |-> "DisconnectChannel", flow |-> f, slot |-> x, chan |-> c]
    BY <2>0, <2>a DEF Disconnect, RxCommand
  <2>4. command \in Commands /\ command.op = "DisconnectChannel" /\ command.flow = f /\ command.slot = x /\ command.chan = c
    BY <2>1, <2>3 DEF Commands
  <2>5. tasks' = tasks \o <<command>> /\ <<command>> \in Seq(Commands)
    <3>1. tasks \in Seq(Commands)
      BY FrontIs DEF RxInv
    <3>2. QED
      BY <1>1, <1>7, <2>4, <3>1
  <2> HIDE DEF command
  <2>6. Outcome \in Tables /\ Outcome' \in Tables
    BY <1>2, OutcomeIs, OutcomeNext DEF PlanInv
  <2>7. Outcome[f] = [s \in Slots |-> SinksAt(f, s)] /\ Outcome[f] # NoSocket
    BY <2>1, <2>2, OutcomeAt
  <2>8. Fits(Outcome, command)
    BY <2>4, <2>7 DEF Fits, Applicable
  <2>9. Outcome' = Executed(Outcome, command)
    <3>1. /\ Executed(Outcome, command) \in Tables
          /\ \A g \in FlowIds : g # f => Executed(Outcome, command)[g] = Outcome[g]
          /\ Executed(Outcome, command)[f] = Left(Outcome[f], command)
      BY <2>4, <2>6, <2>7, ExecutedIs
    <3>2. \A g, s : c \in SinksAt(g, s) => g = f /\ s = x
      <4> SUFFICES ASSUME NEW g, NEW s, c \in SinksAt(g, s)
                   PROVE  g = f /\ s = x
        OBVIOUS
      <4>1. Remote(g, s) = Remote(f, x)
        BY <2>1 DEF SinksAt
      <4>2. QED
        BY <4>1 DEF Remote
    <3>3. ASSUME NEW g \in FlowIds, g # f
          PROVE  Outcome'[g] = Outcome[g]
      <4>1. \A s \in Slots : SinksAt(g, s)' = SinksAt(g, s)
        BY <1>1, <3>2, <3>3
      <4>2. Open(g)' <=> Open(g)
        BY <1>3
      <4>3. QED
        BY <4>1, <4>2 DEF Outcome
    <3>4. Outcome'[f] = Left(Outcome[f], command)
      <4>1. Outcome'[f] = [s \in Slots |-> SinksAt(f, s) \ {c}]
        <5>1. Open(f)'
          BY <1>3, <2>1, <2>2
        <5>2. QED
          BY <1>1, <2>1, <5>1 DEF Outcome
      <4>2. \A s \in Slots : s # x => SinksAt(f, s) \ {c} = SinksAt(f, s)
        BY <3>2
      <4>3. \A sinks \in [Slots -> SUBSET Channels] :
               Left(sinks, command) = [s \in Slots |-> IF s = x THEN sinks[s] \ {c} ELSE sinks[s]]
        BY <2>1, <2>4 DEF Left
      <4>4. Outcome[f] \in [Slots -> SUBSET Channels]
        BY <2>1, <2>6, <2>7 DEF Tables
      <4>5. \A s \in Slots : Outcome[f][s] = SinksAt(f, s)
        BY <2>7
      <4>6. Left(Outcome[f], command) = [s \in Slots |-> IF s = x THEN Outcome[f][s] \ {c} ELSE Outcome[f][s]]
        BY <4>3, <4>4
      <4>7. \A s \in Slots : (IF s = x THEN Outcome[f][s] \ {c} ELSE Outcome[f][s]) = SinksAt(f, s) \ {c}
        BY <4>2, <4>5
      <4>8. QED
        BY <4>1, <4>6, <4>7
    <3>5. QED
      BY <2>6, <3>1, <3>3, <3>4, TableSame
  <2>10. Leads(<<command>>, Outcome, Outcome')
    BY <2>6, <2>8, <2>9, OneLeads
  <2>11. PICK more : more = <<command>>
    OBVIOUS
  <2>12. more \in Seq(Commands) /\ tasks' = tasks \o more /\ Leads(more, Outcome, Outcome')
         /\ \A k \in 1..Len(more) : more[k].op # "AddSocket"
    BY <2>4, <2>5, <2>10, <2>11
  <2>13. QED
    BY <1>4, <1>5, <2>12, MoreTasks
<1>8. QED
  BY <1>6, <1>7

LEMMA SinksAreConnected ==
    ASSUME NEW f \in FlowIds, NEW c \in SinksOf(Outcome, f)
    PROVE  c \in Connected
<1>1. PICK s \in DOMAIN Outcome[f] : c \in Outcome[f][s]
  BY DEF SinksOf
<1>2. Open(f)
  BY <1>1, OutcomeAt DEF NoSocket
<1>3. Outcome[f] = [x \in Slots |-> SinksAt(f, x)]
  BY <1>2, OutcomeAt
<1>4. c \in SinksAt(f, s)
  BY <1>1, <1>3
<1>5. QED
  BY <1>4 DEF SinksAt

\* The connects of a batch.
ConnectsOf(batch) ==
    [i \in DOMAIN Ascending(DOMAIN AssignedIn(batch)) |-> Connect(AssignedIn(batch)[Ascending(DOMAIN AssignedIn(batch))[i]])]

LEMMA ConnectsAre ==
    ASSUME PlanTypes, NEW batch \in SUBSET AssignmentRecord, Sound(batch), NEW q, q = ConnectsOf(batch)
    PROVE  /\ q \in Seq(Commands) /\ Len(q) \in Nat
           /\ \A k \in 1..Len(q) : \E a \in batch :
                 /\ q[k].op = "ConnectChannel" /\ q[k].flow = a.flow /\ q[k].slot = a.slot /\ q[k].chan = a.chan
           /\ \A a \in batch : \E k \in 1..Len(q) : q[k].flow = a.flow /\ q[k].slot = a.slot /\ q[k].chan = a.chan
           /\ \A k, m \in 1..Len(q) : q[k].chan = q[m].chan => k = m
<1> DEFINE of == AssignedIn(batch)
           C == ChansOf(batch)
           order == Ascending(C)
<1>1. /\ DOMAIN of = C /\ C \in SUBSET Needed /\ IsFiniteSet(C)
      /\ \A a \in batch : of[a.chan] = a
      /\ \A c \in C : of[c] \in batch /\ of[c].chan = c
  BY AssignedIs
<1>2. C \in SUBSET Int
  <2>1. Needed \in SUBSET Channels
    BY ChannelSets
  <2>2. \A c \in Channels : c \in Int
    BY ChannelsAssumption
  <2> HIDE DEF C
  <2>3. QED
    BY <1>1, <2>1, <2>2
<1>3. q = [i \in DOMAIN order |-> Connect(of[order[i]])]
  BY <1>1 DEF ConnectsOf
<1> HIDE DEF of, C
<1>4. Lists(order, C)
  BY <1>1, <1>2, AscendingLists
<1>5. /\ order \in Seq(C) /\ Len(order) \in Nat
      /\ \A c \in C : \E k \in 1..Len(order) : order[k] = c
      /\ \A k, m \in 1..Len(order) : order[k] = order[m] => k = m
  BY <1>4 DEF Lists
<1> HIDE DEF order
<1>6. \A k \in 1..Len(order) : order[k] \in C
  BY <1>5, ElementOfSeq
<1>7. ASSUME NEW a \in batch
      PROVE  /\ Connect(a) \in Commands /\ Connect(a).op = "ConnectChannel"
             /\ Connect(a).flow = a.flow /\ Connect(a).slot = a.slot /\ Connect(a).chan = a.chan
  <2>1. a.chan \in Channels /\ a.flow \in FlowIds /\ a.slot \in Slots
    BY AssignmentIs
  <2>2. QED
    BY <2>1 DEF Connect, RxCommand, Commands
<1>8. DOMAIN order = 1..Len(order)
  BY <1>5
<1>9. \A k \in 1..Len(order) : /\ q[k] = Connect(of[order[k]]) /\ of[order[k]] \in batch
                               /\ of[order[k]].chan = order[k]
  BY <1>1, <1>3, <1>6, <1>8
<1>10. \A k \in 1..Len(order) : q[k] \in Commands
  BY <1>7, <1>9
<1>11. q \in Seq(Commands) /\ Len(q) = Len(order)
  BY <1>3, <1>5, <1>8, <1>10
<1>12. \A k \in 1..Len(q) : q[k].chan = order[k]
  BY <1>7, <1>9, <1>11
<1>13. \A k, m \in 1..Len(q) : q[k].chan = q[m].chan => k = m
  BY <1>5, <1>11, <1>12
<1>14. ASSUME NEW a \in batch
       PROVE  \E k \in 1..Len(q) : q[k].flow = a.flow /\ q[k].slot = a.slot /\ q[k].chan = a.chan
  <2>1. a.chan \in C /\ of[a.chan] = a
    BY <1>1 DEF C, ChansOf
  <2>2. PICK k \in 1..Len(order) : order[k] = a.chan
    BY <1>5, <2>1
  <2>3. q[k] = Connect(a)
    BY <1>9, <2>1, <2>2
  <2>4. QED
    BY <1>7, <1>11, <2>3
<1>15. ASSUME NEW k \in 1..Len(q)
       PROVE  \E a \in batch :
                 /\ q[k].op = "ConnectChannel" /\ q[k].flow = a.flow /\ q[k].slot = a.slot /\ q[k].chan = a.chan
  BY <1>7, <1>9, <1>11
<1>16. QED
  BY <1>5, <1>11, <1>13, <1>14, <1>15

LEMMA TakeRx ==
    ASSUME PlanInv, RxInv, TakeResult
    PROVE  RxInv' /\ front'.poisoned = front.poisoned
<1>0. PICK batch : batch = IF clockReady THEN Head(results) ELSE {}
  OBVIOUS
<1>1. /\ results # << >> /\ at \in {"results", "waiting"}
      /\ batch \in SUBSET AssignmentRecord /\ Sound(batch)
      /\ \A a \in batch : Ready(a.flow)
      /\ \A f, s : SinksAt(f, s)' = SinksAt(f, s) \cup Newcomers(batch, f, s)
  BY <1>0, TakeIs
<1>2. PlanInv' /\ \A f \in FlowIds : (Ready(f)' <=> Ready(f)) /\ (Leaving(f)' <=> Leaving(f))
  BY TakePlan
<1>3. PICK q : q = ConnectsOf(batch)
  OBVIOUS
<1>4. /\ tasks' = tasks \o q
      /\ front' = front /\ sockets' = sockets /\ silence' = silence /\ requests' = requests
  BY <1>0, <1>3 DEF TakeResult, ConnectsOf, rxVars
<1>5. /\ q \in Seq(Commands) /\ Len(q) \in Nat
      /\ \A k \in 1..Len(q) : \E a \in batch :
            /\ q[k].op = "ConnectChannel" /\ q[k].flow = a.flow /\ q[k].slot = a.slot /\ q[k].chan = a.chan
      /\ \A a \in batch : \E k \in 1..Len(q) : q[k].flow = a.flow /\ q[k].slot = a.slot /\ q[k].chan = a.chan
      /\ \A k, m \in 1..Len(q) : q[k].chan = q[m].chan => k = m
  BY <1>1, <1>3, ConnectsAre DEF PlanInv
<1>6. Places' = Places
  BY <1>4 DEF Places
<1>7. \A f \in FlowIds : Open(f)' <=> Open(f)
  BY <1>2 DEF Open
<1>8. Outcome \in Tables /\ Outcome' \in Tables
  BY <1>2, OutcomeIs, OutcomeNext DEF PlanInv
<1>9. \A k \in 1..Len(q) : /\ q[k].op = "ConnectChannel"
                           /\ Outcome[q[k].flow] # NoSocket
                           /\ \A g \in FlowIds : q[k].chan \notin SinksOf(Outcome, g)
  <2> SUFFICES ASSUME NEW k \in 1..Len(q)
               PROVE  /\ q[k].op = "ConnectChannel"
                      /\ Outcome[q[k].flow] # NoSocket
                      /\ \A g \in FlowIds : q[k].chan \notin SinksOf(Outcome, g)
    OBVIOUS
  <2>1. PICK a \in batch : /\ q[k].op = "ConnectChannel" /\ q[k].flow = a.flow /\ q[k].slot = a.slot /\ q[k].chan = a.chan
    BY <1>5
  <2>2. a.flow \in FlowIds /\ a.chan \in Needed /\ Open(a.flow)
    BY <1>1, AssignmentIs DEF Sound, Open
  <2>3. a.chan \notin Connected
    BY <2>2, ChannelSets
  <2>4. QED
    BY <2>1, <2>2, <2>3, OutcomeAt, SinksAreConnected
<1>10. PICK table : table = WithConnected(Outcome, q, Len(q))
  OBVIOUS
<1>11. Leads(q, Outcome, table)
  BY <1>5, <1>8, <1>9, <1>10, ConnectsLead
<1>12. ASSUME NEW f, NEW s
       PROVE  {q[k].chan : k \in {i \in 1..Len(q) : q[i].flow = f /\ q[i].slot = s}} = Newcomers(batch, f, s)
  <2>1. ASSUME NEW k \in 1..Len(q), q[k].flow = f, q[k].slot = s
        PROVE  q[k].chan \in Newcomers(batch, f, s)
    BY <1>5, <2>1 DEF Newcomers
  <2>2. ASSUME NEW c \in Newcomers(batch, f, s)
        PROVE  \E k \in 1..Len(q) : q[k].flow = f /\ q[k].slot = s /\ q[k].chan = c
    BY <1>5, <2>2 DEF Newcomers
  <2>3. QED
    BY <2>1, <2>2
<1>13. \A f, s : ConnectedSinks(Outcome, q, Len(q), f, s) = Outcome[f][s] \cup Newcomers(batch, f, s)
  BY <1>12 DEF ConnectedSinks
<1>14. ASSUME NEW f \in FlowIds
       PROVE  table[f] = Outcome'[f]
  <2>1. CASE Open(f)
    <3>1. Outcome[f] = [s \in Slots |-> SinksAt(f, s)] /\ Outcome[f] # NoSocket
      BY <2>1, OutcomeAt
    <3>2. table[f] = [s \in Slots |-> ConnectedSinks(Outcome, q, Len(q), f, s)]
      BY <1>10, <3>1 DEF WithConnected
    <3>3. Outcome'[f] = [s \in Slots |-> SinksAt(f, s) \cup Newcomers(batch, f, s)]
      BY <1>1, <1>7, <2>1 DEF Outcome
    <3>4. \A s \in Slots : ConnectedSinks(Outcome, q, Len(q), f, s) = SinksAt(f, s) \cup Newcomers(batch, f, s)
      BY <1>13, <3>1
    <3>5. QED
      BY <3>2, <3>3, <3>4
  <2>2. CASE ~Open(f)
    <3>1. Outcome[f] = NoSocket
      BY <2>2, OutcomeAt
    <3>2. table[f] = NoSocket
      BY <1>10, <3>1 DEF WithConnected
    <3>3. Outcome'[f] = NoSocket
      BY <1>7, <2>2 DEF Outcome
    <3>4. QED
      BY <3>2, <3>3
  <2>3. QED
    BY <2>1, <2>2
<1>15. table \in Tables
  <2>1. table = [f \in FlowIds |-> table[f]]
    BY <1>10 DEF WithConnected
  <2>2. \A f \in FlowIds : Outcome'[f] \in {NoSocket} \cup [Slots -> SUBSET Channels]
    BY <1>8 DEF Tables
  <2>3. QED
    BY <1>14, <2>1, <2>2 DEF Tables
<1>16. Leads(q, Outcome, Outcome')
  BY <1>8, <1>11, <1>14, <1>15, TableSame
<1>17. \A k \in 1..Len(q) : q[k].op # "AddSocket"
  BY <1>9
<1>18. QED
  BY <1>4, <1>5, <1>6, <1>9, <1>16, <1>17, MoreTasks

-----------------------------------------------------------------------------
(* Commands carried out one after another *)

\* A table for each set of the commands' numbers, in their order.
Folding(iter, base, q) ==
    iter = [s \in SUBSET DOMAIN q |-> IF s = {} THEN base ELSE Executed(iter[s \ {Max(s)}], q[Max(s)])]

LEMMA FoldIs ==
    ASSUME NEW base, NEW q
    PROVE  FoldLeft(Executed, base, q) = (CHOOSE iter : Folding(iter, base, q))[DOMAIN q]
  BY DEF FoldLeft, MapThenFoldSet, Folding

LEMMA LastOf ==
    ASSUME NEW n \in Nat, NEW s \in SUBSET (1..n + 1), n + 1 \in s
    PROVE  Max(s) = n + 1 /\ s \ {Max(s)} \in SUBSET (1..n)
<1>1. \A y \in s : n + 1 >= y
  OBVIOUS
<1>2. Max(s) \in s /\ \A y \in s : Max(s) >= y
  BY <1>1 DEF Max
<1>3. Max(s) = n + 1
  <2> DEFINE m == Max(s)
  <2>1. m \in 1..n + 1 /\ m >= n + 1
    BY <1>2
  <2> HIDE DEF m
  <2>2. m = n + 1
    BY <2>1
  <2>3. QED
    BY <2>2 DEF m
<1>4. QED
  BY <1>3

LEMMA FoldingExists ==
    ASSUME NEW q, NEW n \in Nat, DOMAIN q = 1..n, NEW base
    PROVE  \E iter : Folding(iter, base, q)
<1> DEFINE Step(iter, s) == IF s = {} THEN base ELSE Executed(iter[s \ {Max(s)}], q[Max(s)])
           Upto(iter, m) == iter = [s \in SUBSET (1..m) |-> Step(iter, s)]
           Good(m) == \E iter : Upto(iter, m)
<1>1. Good(0)
  <2> DEFINE iter == [s \in SUBSET (1..0) |-> base]
  <2>1. \A s \in SUBSET (1..0) : s = {}
    OBVIOUS
  <2>2. \A s \in SUBSET (1..0) : Step(iter, s) = base
    BY <2>1
  <2> HIDE DEF Step
  <2>3. Upto(iter, 0)
    BY <2>2
  <2>4. QED
    BY <2>3
<1>2. ASSUME NEW m \in Nat, Good(m)
      PROVE  Good(m + 1)
  <2>1. PICK iter : Upto(iter, m)
    BY <1>2
  <2> DEFINE next == [s \in SUBSET (1..m + 1) |->
                        IF m + 1 \in s THEN Executed(iter[s \ {m + 1}], q[m + 1]) ELSE iter[s]]
  <2>2. ASSUME NEW s \in SUBSET (1..m + 1), m + 1 \notin s
        PROVE  s \in SUBSET (1..m) /\ next[s] = iter[s]
    BY <2>2
  <2>3. \A s \in SUBSET (1..m) : s \in SUBSET (1..m + 1) /\ m + 1 \notin s /\ next[s] = iter[s]
    OBVIOUS
  <2>4. \A s \in SUBSET (1..m) : iter[s] = Step(iter, s)
    <3> HIDE DEF Step
    <3>1. QED
      BY <2>1
  <2>5. ASSUME NEW s \in SUBSET (1..m + 1)
        PROVE  next[s] = Step(next, s)
    <3>1. CASE m + 1 \in s
      <4>1. Max(s) = m + 1 /\ s \ {m + 1} \in SUBSET (1..m) /\ s # {}
        BY <3>1, LastOf
      <4>2. next[s \ {m + 1}] = iter[s \ {m + 1}]
        BY <2>3, <4>1
      <4>3. next[s] = Executed(iter[s \ {m + 1}], q[m + 1])
        BY <3>1
      <4> HIDE DEF next
      <4>4. QED
        BY <4>1, <4>2, <4>3
    <3>2. CASE m + 1 \notin s
      <4>1. s \in SUBSET (1..m) /\ next[s] = iter[s]
        BY <2>2, <3>2
      <4>2. next[s] = Step(iter, s)
        <5> HIDE DEF Step, next
        <5>1. QED
          BY <2>4, <4>1
      <4>3. s # {} => next[s \ {Max(s)}] = iter[s \ {Max(s)}]
        <5>1. s \ {Max(s)} \in SUBSET (1..m)
          BY <4>1
        <5> HIDE DEF next
        <5>2. QED
          BY <2>3, <5>1
      <4> HIDE DEF next
      <4>4. QED
        BY <4>2, <4>3
    <3>3. QED
      BY <3>1, <3>2
  <2>6. next = [s \in SUBSET (1..m + 1) |-> next[s]]
    OBVIOUS
  <2> HIDE DEF next, Step
  <2>7. Upto(next, m + 1)
    BY <2>5, <2>6
  <2>8. QED
    BY <2>7
<1> DEFINE All == {m \in Nat : Good(m)}
<1> HIDE DEF Good
<1>3. 0 \in All /\ \A m \in Nat : m \in All => m + 1 \in All
  BY <1>1, <1>2
<1> HIDE DEF All
<1>4. n \in All
  BY <1>3, EveryNumber
<1>5. \E iter : Upto(iter, n)
  BY <1>4 DEF All, Good
<1>6. QED
  BY <1>5 DEF Folding

LEMMA FoldLeads ==
    ASSUME NEW q \in Seq(Commands), NEW before, NEW after, Leads(q, before, after)
    PROVE  FoldLeft(Executed, before, q) = after
<1> DEFINE n == Len(q)
<1>0. n \in Nat /\ DOMAIN q = 1..n
  OBVIOUS
<1>1. PICK t \in [1..n + 1 -> Tables] : LeadsAlong(q, t, before, after)
  BY DEF Leads
<1>2. /\ t[1] = before /\ t[n + 1] = after
      /\ \A k \in 1..n : t[k + 1] = Executed(t[k], q[k])
  BY <1>1 DEF LeadsAlong
<1> HIDE DEF n
<1>3. PICK iter : iter = CHOOSE x : Folding(x, before, q)
  OBVIOUS
<1>4. Folding(iter, before, q)
  BY <1>0, <1>3, FoldingExists
<1>5. \A s \in SUBSET (1..n) : iter[s] = IF s = {} THEN before ELSE Executed(iter[s \ {Max(s)}], q[Max(s)])
  BY <1>0, <1>4 DEF Folding
<1> DEFINE Good(k) == k <= n => iter[1..k] = t[k + 1]
<1>6. Good(0)
  <2>1. (1..0) = {} /\ 1..0 \in SUBSET (1..n)
    OBVIOUS
  <2>2. iter[1..0] = before
    BY <1>5, <2>1
  <2>3. iter[1..0] = t[0 + 1]
    BY <1>2, <2>2
  <2>4. QED
    BY <2>3
<1>7. ASSUME NEW k \in Nat, Good(k)
      PROVE  Good(k + 1)
  <2> SUFFICES ASSUME k + 1 <= n
               PROVE  iter[1..k + 1] = t[(k + 1) + 1]
    OBVIOUS
  <2>1. 1..k + 1 \in SUBSET (1..n) /\ k + 1 \in 1..k + 1 /\ k + 1 \in 1..n
    BY <1>0
  <2>2. Max(1..k + 1) = k + 1
    BY <2>1, LastOf
  <2>3. (1..k + 1) \ {k + 1} = 1..k
    OBVIOUS
  <2>4. iter[1..k + 1] = Executed(iter[1..k], q[k + 1])
    BY <1>5, <2>1, <2>2, <2>3
  <2>5. iter[1..k] = t[k + 1]
    BY <1>0, <1>7
  <2>6. QED
    BY <1>2, <2>1, <2>4, <2>5
<1> DEFINE All == {m \in Nat : Good(m)}
<1> HIDE DEF Good
<1>8. 0 \in All /\ \A m \in Nat : m \in All => m + 1 \in All
  BY <1>6, <1>7
<1> HIDE DEF All
<1>9. n \in All
  BY <1>0, <1>8, EveryNumber
<1>10. iter[1..n] = t[n + 1]
  BY <1>0, <1>9 DEF All, Good
<1>11. QED
  BY <1>0, <1>2, <1>3, <1>10, FoldIs

LEMMA NobodyUnreachable ==
    ASSUME "unreachable" \notin Races, PlanTypes, NEW unreachable \in SUBSET Origins, StopFlows(unreachable)
    PROVE  front' = front /\ stops' = stops
<1>1. unreachable = {}
  BY DEF StopFlows
<1>2. stops' = [o \in Origins |-> IF o \in unreachable THEN << >> ELSE stops[o]]
  BY DEF StopFlows
<1>3. stops' = stops
  BY <1>1, <1>2 DEF PlanTypes
<1>4. \A q : q = SetToSeq({}) => q = << >>
  <2>1. Cardinality({}) = 0
    BY FS_EmptySet
  <2>2. \A f \in [1..0 -> {}] : f = << >>
    OBVIOUS
  <2>3. \E f \in [1..0 -> {}] : IsInjective(f)
    <3>1. << >> \in [1..0 -> {}] /\ IsInjective(<< >>)
      BY DEF IsInjective
    <3>2. QED
      BY <3>1
  <2>4. SetToSeq({}) \in [1..0 -> {}]
    BY <2>1, <2>3 DEF SetToSeq
  <2>5. QED
    BY <2>2, <2>4
<1>5. PICK failing : failing = SetToSeq({})
  OBVIOUS
<1>6. failing = << >>
  BY <1>4, <1>5
<1>7. front' = RemoveSockets(front, FlattenSeq([i \in DOMAIN failing |-> stops[failing[i]]]))
  BY <1>1, <1>5 DEF StopFlows
<1>8. [i \in DOMAIN failing |-> stops[failing[i]]] = << >>
  BY <1>6
<1>9. front' = RemoveSockets(front, << >>)
  BY <1>7, <1>8 DEF FlattenSeq
<1>10. RemoveSockets(front, << >>) = front
  <2> DEFINE It(iter) == iter = [s \in SUBSET DOMAIN << >> |->
                            IF s = {} THEN front ELSE RemoveSocket(iter[s \ {Max(s)}], << >>[Max(s)])]
  <2>1. RemoveSockets(front, << >>) = (CHOOSE iter : It(iter))[DOMAIN << >>]
    BY DEF RemoveSockets, FoldLeft, MapThenFoldSet
  <2>2. It([s \in SUBSET DOMAIN << >> |-> front])
    <3>1. \A s \in SUBSET DOMAIN << >> : s = {}
      OBVIOUS
    <3>2. QED
      BY <3>1
  <2>3. \A iter : It(iter) => iter[DOMAIN << >>] = front
    <3>1. DOMAIN << >> = {} /\ {} \in SUBSET DOMAIN << >>
      OBVIOUS
    <3>2. QED
      BY <3>1
  <2> HIDE DEF It
  <2>4. QED
    BY <2>1, <2>2, <2>3
<1>11. QED
  BY <1>3, <1>9, <1>10

LEMMA StopFlowsRx ==
    ASSUME PlanInv, RxInv, "unreachable" \notin Races, NEW unreachable \in SUBSET Origins, StopFlows(unreachable)
    PROVE  RxInv' /\ front'.poisoned = front.poisoned
<1>1. front' = front /\ stops' = stops
  BY NobodyUnreachable DEF PlanInv
<1>2. /\ sockets' = sockets /\ silence' = silence /\ tasks' = tasks /\ channels' = channels /\ flows' = flows
      /\ requests' = requests /\ at = "stop"
  BY DEF StopFlows
<1>3. Outcome' = Outcome
  BY <1>1, <1>2, SetsSame, PlacesSame, OutcomeSame
<1>4. Places' = {}
  BY <1>2 DEF Places, PlanInv, PhaseInv
<1>5. silence' \in SUBSET Channels
  BY <1>2 DEF RxInv, RxTypes
<1>6. QED
  BY <1>1, <1>2, <1>3, <1>4, <1>5, RxSame

LEMMA StopReplyRx ==
    ASSUME PlanInv, RxInv, NEW o \in Origins, StopReply(o)
    PROVE  RxInv' /\ front'.poisoned = front.poisoned
<1>0. PICK f : f = Head(stops[o])
  OBVIOUS
<1>1. /\ at = "stopping" /\ tasks = << >> /\ stops[o] # << >>
      /\ front' = RemoveSocket(front, f) /\ stops' = [stops EXCEPT ![o] = Tail(@)]
      /\ sockets' = sockets /\ silence' = silence /\ tasks' = tasks /\ channels' = channels /\ flows' = flows
      /\ requests' = requests
  BY <1>0 DEF StopReply, Resumes
<1>2. PlanInv'
  BY StopPlan
<1>3. stops \in [Origins -> Seq(FlowIds)] /\ stops[o] \in Seq(FlowIds)
  BY DEF PlanInv, PlanTypes
<1>4. /\ 1 \in 1..Len(stops[o]) /\ f = stops[o][1] /\ f \in FlowIds
      /\ Len(stops'[o]) = Len(stops[o]) - 1
      /\ \A k \in 1..Len(stops'[o]) : k + 1 \in 1..Len(stops[o]) /\ stops'[o][k] = stops[o][k + 1]
      /\ \A k \in 2..Len(stops[o]) : k - 1 \in 1..Len(stops'[o]) /\ stops'[o][k - 1] = stops[o][k]
      /\ \A u \in Origins : u # o => stops'[u] = stops[u]
  BY <1>0, <1>1, <1>3
<1>5. /\ \A u \in Origins : \A k \in 1..Len(stops[u]) : ~There(stops[u][k])
      /\ \A u, v \in Origins : \A j \in 1..Len(stops[u]), k \in 1..Len(stops[v]) :
            stops[u][j] = stops[v][k] => u = v /\ j = k
  BY DEF PlanInv, CoreInv, StopsInv
<1>6. Leaving(f) /\ ~There(f) /\ ~Ready(f)
  BY <1>4, <1>5 DEF Leaving, Ready
<1>7. \A g \in FlowIds : Ready(g)' <=> Ready(g)
  BY <1>1 DEF Ready, There, Coming, Places, Asked
<1>8. ~Leaving(f)'
  <2> SUFFICES ASSUME NEW u \in Origins, NEW k \in 1..Len(stops'[u]), stops'[u][k] = f
               PROVE  FALSE
    BY DEF Leaving
  <2>1. CASE u = o
    <3>1. k + 1 \in 1..Len(stops[o]) /\ stops[o][k + 1] = stops[o][1]
      BY <1>4, <2>1
    <3>2. k + 1 = 1
      BY <1>4, <1>5, <3>1
    <3>3. QED
      BY <3>2
  <2>2. CASE u # o
    BY <1>4, <1>5, <2>2
  <2>3. QED
    BY <2>1, <2>2
<1>9. ASSUME NEW g \in FlowIds, g # f
      PROVE  Leaving(g)' <=> Leaving(g)
  <2>1. ASSUME NEW u \in Origins, NEW k \in 1..Len(stops'[u]), stops'[u][k] = g
        PROVE  Leaving(g)
    <3>1. CASE u = o
      BY <1>4, <2>1, <3>1 DEF Leaving
    <3>2. CASE u # o
      BY <1>4, <2>1, <3>2 DEF Leaving
    <3>3. QED
      BY <3>1, <3>2
  <2>2. ASSUME NEW u \in Origins, NEW k \in 1..Len(stops[u]), stops[u][k] = g
        PROVE  Leaving(g)'
    <3>1. CASE u = o
      <4>1. k # 1
        BY <1>4, <1>9, <2>2, <3>1
      <4>2. k \in 2..Len(stops[o])
        BY <1>3, <2>2, <3>1, <4>1
      <4>3. QED
        BY <1>4, <2>2, <3>1, <4>2 DEF Leaving
    <3>2. CASE u # o
      BY <1>4, <2>2, <3>2 DEF Leaving
    <3>3. QED
      BY <3>1, <3>2
  <2>3. QED
    BY <2>1, <2>2 DEF Leaving
<1>10. PICK middle \in Tables : Meets(middle)
  BY CommandsMeet DEF RxInv
<1>11. Outcome \in Tables /\ Outcome' \in Tables
  BY <1>2, OutcomeIs, OutcomeNext DEF PlanInv
<1>12. middle = Outcome
  BY <1>1, <1>10 DEF Meets, Leads, LeadsAlong
<1> DEFINE remove == RxCommand("RemoveSocket", f, NoSlot, NoChannel)
<1>13. remove \in Commands /\ remove.op = "RemoveSocket" /\ remove.flow = f
  BY <1>4 DEF RxCommand, Commands
<1> HIDE DEF remove
<1>14. Outcome[f] # NoSocket /\ SinksOf(Outcome, f) = {}
  <2>1. Outcome[f] = [s \in Slots |-> SinksAt(f, s)] /\ Outcome[f] # NoSocket
    BY <1>4, <1>6, OutcomeAt DEF Open
  <2>2. \A s \in Slots : SinksAt(f, s) = {}
    BY <1>6, NoSinks
  <2>3. Outcome[f] = NewSocket
    BY <2>1, <2>2 DEF NewSocket
  <2>4. QED
    BY <2>1, <2>3, NewSocketIsVacant
<1>15. Fits(Outcome, remove)
  BY <1>13, <1>14 DEF Fits, Applicable
<1>16. /\ Append(front.commands, remove) \in Seq(Commands)
       /\ Leads(Append(front.commands, remove), sockets, Executed(Outcome, remove))
  BY <1>10, <1>11, <1>12, <1>15, SentLeads DEF RxInv, Meets
<1>17. Executed(Outcome, remove) = Outcome'
  <2>1. /\ Executed(Outcome, remove) \in Tables
        /\ \A g \in FlowIds : g # f => Executed(Outcome, remove)[g] = Outcome[g]
        /\ Executed(Outcome, remove)[f] = NoSocket
    BY <1>11, <1>13, ExecutedIs
  <2>2. Outcome'[f] = NoSocket
    BY <1>4, <1>6, <1>7, <1>8 DEF Outcome, Open
  <2>3. \A g \in FlowIds : g # f => Outcome'[g] = Outcome[g]
    <3>1. \A g \in FlowIds : g # f => (Open(g)' <=> Open(g))
      BY <1>7, <1>9 DEF Open
    <3>2. \A g, s : SinksAt(g, s)' = SinksAt(g, s)
      BY <1>1, SetsSame
    <3>3. QED
      BY <3>1, <3>2 DEF Outcome
  <2>4. QED
    BY <1>11, <2>1, <2>2, <2>3, TableSame
<1>18. /\ front'.commands = Append(front.commands, remove) /\ front'.info = front.info \ {f}
       /\ front'.poisoned = front.poisoned /\ front' \in FrontRecord
  <2>1. front \in FrontRecord
    BY DEF RxInv, RxTypes
  <2>2. front' = [info |-> front.info \ {f}, commands |-> Append(front.commands, remove), poisoned |-> front.poisoned]
    BY <1>1, <2>1 DEF RemoveSocket, Send, FrontRecord, remove
  <2>3. QED
    BY <1>16, <2>1, <2>2 DEF FrontRecord
<1>19. RxTypes'
  BY <1>1, <1>18 DEF RxInv, RxTypes
<1>20. CommandsInv'
  <2>1. PICK table \in Tables : table = Outcome'
    BY <1>11
  <2>2. Leads(front'.commands, sockets', table)
    BY <1>1, <1>16, <1>17, <1>18, <2>1
  <2>3. Leads(tasks', table, Outcome')
    BY <1>1, <2>1, NothingLeads
  <2>4. \A g \in FlowIds : table[g] # NoSocket <=> g \in front'.info
    <3>1. \A g \in FlowIds : g # f => table[g] = Outcome[g]
      BY <1>11, <1>13, <1>17, <2>1, ExecutedIs
    <3>2. table[f] = NoSocket
      BY <1>11, <1>13, <1>17, <2>1, ExecutedIs
    <3>3. QED
      BY <1>10, <1>12, <1>18, <3>1, <3>2 DEF Meets
  <2>5. Meets(table)'
    BY <2>2, <2>3, <2>4 DEF Meets
  <2>6. QED
    BY <1>1, <2>5 DEF CommandsInv, Meets
<1>21. TasksInv'
  BY <1>1 DEF TasksInv
<1>22. QED
  BY <1>18, <1>19, <1>20, <1>21 DEF RxInv

LEMMA DisconnectsAre ==
    ASSUME PlanInv, NEW f \in FlowIds, NEW orphans \in SUBSET Connected, NEW q, q = DisconnectsOf(f, orphans)
    PROVE  /\ q \in Seq(Commands) /\ Len(q) \in Nat
           /\ \A k \in 1..Len(q) : q[k].op = "DisconnectChannel" /\ q[k].flow = f
           /\ \A s \in Slots : \A c \in SinksAt(f, s) \cap orphans :
                 \E k \in 1..Len(q) : q[k].slot = s /\ q[k].chan = c
<1> DEFINE C == {c \in orphans : channels[c].remote.flow = f}
           order == Ascending(C)
<1>1. q = [i \in DOMAIN order |-> Disconnect(order[i], channels[order[i]].remote)]
  BY DEF DisconnectsOf
<1>2. \A c \in C : c \in Connected /\ c \in orphans /\ channels[c].remote.flow = f
  OBVIOUS
<1>3. \A c \in orphans : channels[c].remote.flow = f => c \in C
  OBVIOUS
<1> HIDE DEF C
<1>4. IsFiniteSet(C) /\ C \in SUBSET Int
  <2>1. C \in SUBSET Channels
    BY <1>2, ChannelSets
  <2>2. IsFiniteSet(Channels) /\ \A c \in Channels : c \in Int
    BY ChannelsAssumption
  <2>3. IsFiniteSet(C)
    BY <2>1, <2>2, FS_Subset
  <2>4. QED
    BY <2>1, <2>2, <2>3
<1>5. Lists(order, C)
  BY <1>4, AscendingLists
<1>6. /\ order \in Seq(C) /\ Len(order) \in Nat
      /\ \A c \in C : \E k \in 1..Len(order) : order[k] = c
  BY <1>5 DEF Lists
<1> HIDE DEF order
<1>7. \A k \in 1..Len(order) : order[k] \in C
  BY <1>6, ElementOfSeq
<1>8. ASSUME NEW c \in C
      PROVE  LET d == Disconnect(c, channels[c].remote)
             IN  /\ d \in Commands /\ d.op = "DisconnectChannel" /\ d.flow = f /\ d.chan = c
                 /\ d.slot = channels[c].remote.slot
  <2>1. c \in Connected /\ c \in Channels /\ channels[c].remote.flow = f
    BY <1>2, ChannelSets
  <2>2. channels[c].remote.slot \in Slots
    BY <2>1, SubscriptionIs DEF PlanInv
  <2>3. QED
    BY <2>1, <2>2 DEF Disconnect, RxCommand, Commands
<1>9. DOMAIN order = 1..Len(order)
  BY <1>6
<1>10. \A k \in 1..Len(order) : q[k] = Disconnect(order[k], channels[order[k]].remote) /\ q[k] \in Commands
  BY <1>1, <1>7, <1>8, <1>9
<1>11. q \in Seq(Commands) /\ Len(q) = Len(order)
  BY <1>1, <1>6, <1>9, <1>10
<1>12. \A k \in 1..Len(q) : q[k].op = "DisconnectChannel" /\ q[k].flow = f
  BY <1>7, <1>8, <1>10, <1>11
<1>13. ASSUME NEW s \in Slots, NEW c \in SinksAt(f, s) \cap orphans
       PROVE  \E k \in 1..Len(q) : q[k].slot = s /\ q[k].chan = c
  <2>1. channels[c].remote = Remote(f, s)
    BY DEF SinksAt
  <2>2. channels[c].remote.flow = f /\ channels[c].remote.slot = s
    BY <2>1 DEF Remote
  <2>3. c \in C
    BY <1>3, <2>2
  <2>4. PICK k \in 1..Len(order) : order[k] = c
    BY <1>6, <2>3
  <2>5. QED
    BY <1>8, <1>10, <1>11, <2>2, <2>3, <2>4
<1>14. QED
  BY <1>6, <1>11, <1>12, <1>13

LEMMA DepartureLeads ==
    ASSUME PlanInv, NEW f \in FlowIds, NEW orphans \in SUBSET Connected, NEW table \in Tables,
           NEW q, q = Departure(f, orphans), Open(f), table[f] = Outcome[f],
           \A s \in Slots : SinksAt(f, s) \subseteq orphans
    PROVE  /\ q \in Seq(Commands) /\ Len(q) \in Nat
           /\ \A k \in 1..Len(q) : q[k].op # "AddSocket"
           /\ Leads(q, table, [table EXCEPT ![f] = IF IsBundle(f) THEN NoSocket ELSE NewSocket])
<1>0. PICK d : d = DisconnectsOf(f, orphans)
  OBVIOUS
<1>1. /\ d \in Seq(Commands) /\ Len(d) \in Nat
      /\ \A k \in 1..Len(d) : d[k].op = "DisconnectChannel" /\ d[k].flow = f
      /\ \A s \in Slots : \A c \in SinksAt(f, s) \cap orphans :
            \E k \in 1..Len(d) : d[k].slot = s /\ d[k].chan = c
  BY <1>0, DisconnectsAre
<1>2. table[f] = [s \in Slots |-> SinksAt(f, s)] /\ table[f] # NoSocket
  BY OutcomeAt
<1>3. \A s \in Slots : \A c \in table[f][s] : \E k \in 1..Len(d) : d[k].slot = s /\ d[k].chan = c
  BY <1>1, <1>2
<1> DEFINE empty == [table EXCEPT ![f] = NewSocket]
<1>4. Leads(d, table, empty)
  BY <1>1, <1>2, <1>3, DisconnectsLead
<1>5. q = d \o BundleRemoval(f)
  BY <1>0 DEF Departure
<1>6. CASE ~IsBundle(f)
  <2>1. q = d
    BY <1>1, <1>5, <1>6 DEF BundleRemoval
  <2>2. QED
    BY <1>1, <1>4, <1>6, <2>1
<1>7. CASE IsBundle(f)
  <2> DEFINE remove == RxCommand("RemoveSocket", f, NoSlot, NoChannel)
             r == <<remove>>
  <2>1. q = d \o r
    BY <1>5, <1>7 DEF BundleRemoval
  <2>2. remove \in Commands /\ remove.op = "RemoveSocket" /\ remove.flow = f
    BY DEF RxCommand, Commands
  <2> HIDE DEF remove
  <2>3. empty \in Tables /\ empty[f] = NewSocket
    BY DEF Tables, NewSocket
  <2>4. SinksOf(empty, f) = {} /\ empty[f] # NoSocket
    <3>1. NewSocket # NoSocket
      BY SlotsAssumption DEF NewSocket, NoSocket
    <3>2. QED
      BY <2>3, <3>1, NewSocketIsVacant
  <2>5. Fits(empty, remove)
    BY <2>2, <2>4 DEF Fits, Applicable
  <2>6. Executed(empty, remove) = [table EXCEPT ![f] = NoSocket]
    <3>1. Executed(empty, remove) = [empty EXCEPT ![f] = NoSocket]
      BY <2>2 DEF Executed
    <3>2. [empty EXCEPT ![f] = NoSocket] = [table EXCEPT ![f] = NoSocket]
      BY DEF Tables
    <3>3. QED
      BY <3>1, <3>2
  <2>7. r \in Seq(Commands) /\ Len(r) = 1 /\ r[1] = remove
    BY <2>2
  <2> HIDE DEF empty
  <2>8. Leads(r, empty, [table EXCEPT ![f] = NoSocket])
    BY <2>3, <2>5, <2>6, OneLeads
  <2> HIDE DEF r
  <2>9. Leads(q, table, [table EXCEPT ![f] = NoSocket])
    BY <1>1, <1>4, <2>1, <2>7, <2>8, LeadsOn
  <2>10. q \in Seq(Commands) /\ Len(q) = Len(d) + 1
         /\ \A k \in 1..Len(q) : q[k] = IF k = Len(d) + 1 THEN remove ELSE d[k]
    <3>1. q \in Seq(Commands) /\ Len(q) = Len(d) + Len(r)
      BY <1>1, <2>1, <2>7, ConcatProperties
    <3>2. \A k \in 1..Len(d) : q[k] = d[k]
      BY <1>1, <2>1, <2>7, ConcatProperties
    <3>3. q[Len(d) + 1] = remove
      <4>1. 1 \in 1..Len(r)
        BY <2>7
      <4>2. q[Len(d) + 1] = r[1]
        BY <1>1, <2>1, <2>7, <4>1, ConcatProperties
      <4>3. QED
        BY <2>7, <4>2
    <3>4. Len(q) = Len(d) + 1
      BY <2>7, <3>1
    <3>5. \A k \in 1..Len(q) : k \in 1..Len(d) \/ k = Len(d) + 1
      BY <1>1, <3>4
    <3>6. \A k \in 1..Len(d) : k # Len(d) + 1
      BY <1>1
    <3>7. QED
      BY <3>1, <3>2, <3>3, <3>4, <3>5, <3>6
  <2>11. \A k \in 1..Len(q) : q[k].op # "AddSocket"
    BY <1>1, <2>2, <2>10
  <2>12. QED
    BY <1>1, <1>7, <2>9, <2>10, <2>11
<1>8. QED
  BY <1>6, <1>7

\* The table when the flows listed up to the i-th one are done with.
ScannedUpto(order, i) ==
    [f \in FlowIds |-> IF \E k \in 1..i : order[k] = f
                       THEN IF IsBundle(f) THEN NoSocket ELSE NewSocket ELSE Outcome[f]]

DeparturesOf(order, orphans) == FlattenSeq([i \in DOMAIN order |-> Departure(order[i], orphans)])

LEMMA DeparturesLead ==
    ASSUME PlanInv, NEW orphans \in SUBSET Connected, NEW order \in Seq(FlowIds),
           \A k, m \in 1..Len(order) : order[k] = order[m] => k = m,
           \A k \in 1..Len(order) : Open(order[k]) /\ \A s \in Slots : SinksAt(order[k], s) \subseteq orphans,
           NEW more, more = DeparturesOf(order, orphans)
    PROVE  /\ more \in Seq(Commands) /\ \A k \in 1..Len(more) : more[k].op # "AddSocket"
           /\ Leads(more, Outcome, ScannedUpto(order, Len(order)))
<1> DEFINE n == Len(order)
           seqs == [i \in DOMAIN order |-> Departure(order[i], orphans)]
           After(i) == ScannedUpto(order, i)
<1>1. n \in Nat /\ DOMAIN order = 1..n /\ \A k \in 1..n : order[k] \in FlowIds
  <2>1. \A k \in 1..n : order[k] \in FlowIds
    BY ElementOfSeq
  <2>2. QED
    BY <2>1
<1>2. \A i \in 1..n : seqs[i] = Departure(order[i], orphans)
  BY <1>1
<1>3. Outcome \in Tables
  BY OutcomeIs DEF PlanInv
<1>4. \A i \in 0..n : After(i) \in Tables
  <2>1. NewSocket \in [Slots -> SUBSET Channels]
    BY DEF NewSocket
  <2>2. QED
    BY <1>3, <2>1 DEF ScannedUpto, Tables
<1>5. \A i \in 1..n : /\ Open(order[i])
                      /\ \A s \in Slots : SinksAt(order[i], s) \subseteq orphans
                      /\ \A k \in 1..n : order[k] = order[i] => k = i
  OBVIOUS
<1>6. ASSUME NEW i \in 1..n
      PROVE  /\ seqs[i] \in Seq(Commands) /\ \A k \in 1..Len(seqs[i]) : seqs[i][k].op # "AddSocket"
             /\ Leads(seqs[i], After(i - 1), After(i))
  <2>0. PICK f \in FlowIds : f = order[i]
    BY <1>1
  <2>a. PICK table \in Tables : table = After(i - 1)
    <3>1. i - 1 \in 0..n
      BY <1>1
    <3>2. QED
      BY <1>4, <3>1
  <2>1. table[f] = Outcome[f]
    <3>1. \A k \in 1..i - 1 : order[k] # f
      BY <1>1, <1>5, <2>0
    <3>2. QED
      BY <2>a, <3>1 DEF ScannedUpto
  <2>2. Open(f) /\ \A s \in Slots : SinksAt(f, s) \subseteq orphans
    BY <1>5, <2>0
  <2>3. PICK q : q = Departure(f, orphans)
    OBVIOUS
  <2>4. /\ q \in Seq(Commands) /\ Len(q) \in Nat
        /\ \A k \in 1..Len(q) : q[k].op # "AddSocket"
        /\ Leads(q, table, [table EXCEPT ![f] = IF IsBundle(f) THEN NoSocket ELSE NewSocket])
    BY <2>1, <2>2, <2>3, DepartureLeads
  <2>5. After(i) = [table EXCEPT ![f] = IF IsBundle(f) THEN NoSocket ELSE NewSocket]
    <3> DEFINE next == [table EXCEPT ![f] = IF IsBundle(f) THEN NoSocket ELSE NewSocket]
    <3>1. next \in Tables /\ next[f] = (IF IsBundle(f) THEN NoSocket ELSE NewSocket)
          /\ \A g \in FlowIds : g # f => next[g] = table[g]
      BY DEF Tables, NewSocket
    <3>2. After(i) \in Tables
      BY <1>1, <1>4
    <3>3. After(i)[f] = IF IsBundle(f) THEN NoSocket ELSE NewSocket
      <4>1. i \in 1..i
        BY <1>1
      <4>2. QED
        BY <2>0, <4>1 DEF ScannedUpto
    <3>4. \A g \in FlowIds : g # f => After(i)[g] = table[g]
      <4> SUFFICES ASSUME NEW g \in FlowIds, g # f
                   PROVE  After(i)[g] = table[g]
        OBVIOUS
      <4>1. (\E k \in 1..i : order[k] = g) <=> \E k \in 1..i - 1 : order[k] = g
        BY <1>1, <2>0
      <4>2. QED
        BY <2>a, <4>1 DEF ScannedUpto
    <3> HIDE DEF next
    <3>5. \A g \in FlowIds : After(i)[g] = next[g]
      BY <3>1, <3>3, <3>4
    <3>6. QED
      BY <3>1, <3>2, <3>5, TableSame DEF next
  <2>6. seqs[i] = q
    BY <1>2, <2>0, <2>3
  <2> HIDE DEF seqs, After
  <2>7. QED
    BY <2>a, <2>4, <2>5, <2>6
<1>7. seqs \in Seq(Seq(Commands)) /\ Len(seqs) = n
  <2>1. \A i \in 1..n : seqs[i] \in Seq(Commands)
    BY <1>6
  <2>2. seqs = [i \in 1..n |-> seqs[i]]
    BY <1>1
  <2> HIDE DEF seqs
  <2>3. seqs \in [1..n -> Seq(Commands)]
    BY <2>1, <2>2
  <2>4. QED
    BY <1>1, <2>3
<1>8. more = FlattenSeq(seqs)
  BY DEF DeparturesOf
<1> HIDE DEF seqs, After, n
<1>9. PICK g \in [0..n -> Seq(Commands)] : Joins(g, seqs) /\ more = g[n]
  BY <1>7, <1>8, FlattenIs
<1>10. g[0] = << >> /\ \A i \in 1..n : g[i] = g[i - 1] \o seqs[i]
  BY <1>7, <1>9 DEF Joins
<1> DEFINE Good(i) == i <= n => /\ \A k \in 1..Len(g[i]) : g[i][k].op # "AddSocket"
                                /\ Leads(g[i], Outcome, After(i))
<1>11. Good(0)
  <2>1. After(0) = Outcome
    <3>1. \A f \in FlowIds : After(0)[f] = Outcome[f]
      BY DEF After, ScannedUpto
    <3>2. After(0) \in Tables
      BY <1>1, <1>4
    <3>3. QED
      BY <1>3, <3>1, <3>2, TableSame
  <2>2. QED
    BY <1>3, <1>10, <2>1, NothingLeads
<1>12. ASSUME NEW i \in Nat, Good(i)
       PROVE  Good(i + 1)
  <2> SUFFICES ASSUME i + 1 <= n
               PROVE  /\ \A k \in 1..Len(g[i + 1]) : g[i + 1][k].op # "AddSocket"
                      /\ Leads(g[i + 1], Outcome, After(i + 1))
    OBVIOUS
  <2>1. i \in 0..n /\ i + 1 \in 1..n /\ i <= n /\ (i + 1) - 1 = i
    BY <1>1
  <2>2. PICK a \in Seq(Commands) : a = g[i]
    BY <2>1
  <2>3. PICK b : b = seqs[i + 1]
    OBVIOUS
  <2>4. /\ b \in Seq(Commands) /\ \A k \in 1..Len(b) : b[k].op # "AddSocket"
        /\ Leads(b, After(i), After(i + 1))
    BY <1>6, <2>1, <2>3
  <2>5. g[i + 1] = a \o b
    BY <1>10, <2>1, <2>2, <2>3
  <2>6. Leads(a, Outcome, After(i)) /\ \A k \in 1..Len(a) : a[k].op # "AddSocket"
    BY <1>12, <2>1, <2>2
  <2>7. Leads(a \o b, Outcome, After(i + 1))
    BY <2>2, <2>4, <2>6, LeadsOn
  <2>8. \A k \in 1..Len(a \o b) : (a \o b)[k].op # "AddSocket"
    <3> SUFFICES ASSUME NEW k \in 1..Len(a \o b)
                 PROVE  (a \o b)[k].op # "AddSocket"
      OBVIOUS
    <3>1. Len(a \o b) = Len(a) + Len(b) /\ Len(a) \in Nat /\ Len(b) \in Nat
      BY <2>2, <2>4, ConcatProperties
    <3>2. CASE k \in 1..Len(a)
      BY <2>2, <2>4, <2>6, <3>2, ConcatProperties
    <3>3. CASE k \notin 1..Len(a)
      <4>1. k - Len(a) \in 1..Len(b) /\ Len(a) + (k - Len(a)) = k
        BY <3>1, <3>3
      <4>2. (a \o b)[Len(a) + (k - Len(a))] = b[k - Len(a)]
        BY <2>2, <2>4, <4>1, ConcatProperties
      <4>3. QED
        BY <2>4, <4>1, <4>2
    <3>4. QED
      BY <3>2, <3>3
  <2>9. QED
    BY <2>5, <2>7, <2>8
<1> DEFINE All == {m \in Nat : Good(m)}
<1> HIDE DEF Good
<1>13. 0 \in All /\ \A m \in Nat : m \in All => m + 1 \in All
  BY <1>11, <1>12
<1> HIDE DEF All
<1>14. n \in All
  BY <1>1, <1>13, EveryNumber
<1>15. /\ \A k \in 1..Len(more) : more[k].op # "AddSocket"
       /\ Leads(more, Outcome, After(n))
  <2>1. Good(n) /\ n <= n
    BY <1>1, <1>14 DEF All
  <2>2. /\ \A k \in 1..Len(g[n]) : g[n][k].op # "AddSocket"
        /\ Leads(g[n], Outcome, After(n))
    BY <2>1 DEF Good
  <2>3. QED
    BY <1>9, <2>2
<1>16. more \in Seq(Commands)
  BY <1>1, <1>9
<1>17. QED
  BY <1>15, <1>16 DEF After, n

LEMMA ScanRx ==
    ASSUME PlanInv, RxInv, NEW silent \in SUBSET FlowIds, NEW receiving \in SUBSET FlowIds, Scan(silent, receiving)
    PROVE  RxInv' /\ front'.poisoned = front.poisoned
<1>0. PICK gone : gone = Gone(silent)
  OBVIOUS
<1>a. PICK bundles : bundles = GoneBundles(silent)
  OBVIOUS
<1>b. PICK orphans : orphans = Orphans(silent)
  OBVIOUS
<1>c. PICK order : order = Ascending(silent \cup bundles)
  OBVIOUS
<1>1. /\ at = "scan" /\ gone \in SUBSET FlowIds /\ silent \subseteq gone
      /\ \A f \in gone : There(f)
      /\ \A f \in FlowIds, s \in Slots : SinksAt(f, s)' = IF f \in gone THEN {} ELSE SinksAt(f, s)
      /\ requests' = requests
  BY <1>0, <1>a, ScanIs
<1>2. /\ PlanInv'
      /\ \A f \in FlowIds : /\ Ready(f)' <=> Ready(f) /\ f \notin gone
                            /\ Leaving(f)' <=> f \in gone \ bundles
                            /\ ~Leaving(f) /\ (Ready(f) <=> There(f))
  <2>1. PlanInv'
    BY <1>0, <1>a, ScanPlan
  <2>2. \A f \in FlowIds : /\ Ready(f)' <=> Ready(f) /\ f \notin gone
                           /\ Leaving(f)' <=> f \in gone \ bundles
                           /\ ~Leaving(f) /\ (Ready(f) <=> There(f))
    BY <1>0, <1>a, ScanPlan
  <2>3. QED
    BY <2>1, <2>2
<1>3. PICK more : more = DeparturesOf(order, orphans)
  OBVIOUS
<1>4. /\ tasks' = tasks \o more
      /\ front' = front /\ sockets' = sockets /\ silence' = silence
  BY <1>0, <1>a, <1>b, <1>c, <1>3 DEF Scan, Gone, GoneBundles, Orphans, There, rxVars, DeparturesOf
<1>5. Places' = {}
  BY <1>1 DEF Places, PlanInv, PhaseInv
<1>6. bundles \subseteq gone /\ \A f \in gone : f \in bundles <=> IsBundle(f)
  BY <1>0, <1>a DEF GoneBundles
<1>7. silent \cup bundles \in SUBSET FlowIds /\ orphans \in SUBSET Connected
  BY <1>1, <1>6, <1>b DEF Orphans
<1>8. /\ Lists(order, silent \cup bundles) /\ order \in Seq(FlowIds)
  BY <1>7, <1>c, AscendingFlows
<1>9. /\ order \in Seq(silent \cup bundles)
      /\ \A x \in silent \cup bundles : \E k \in 1..Len(order) : order[k] = x
      /\ \A k, m \in 1..Len(order) : order[k] = order[m] => k = m
  BY <1>8 DEF Lists
<1>10. \A k \in 1..Len(order) : order[k] \in silent \cup bundles
  BY <1>9, ElementOfSeq
<1>11. ASSUME NEW f \in gone, f \notin silent, NEW s \in Slots
       PROVE  SinksAt(f, s) = {}
  <2>1. f \in FlowIds /\ There(f) /\ ~IsUsed(f)
    BY <1>0, <1>1, <1>11 DEF Gone
  <2>2. QED
    BY <2>1, UnusedIsUnheard DEF PlanInv
<1>12. \A f \in gone : Open(f)
  BY <1>1, <1>2 DEF Open
<1>13. ASSUME NEW f \in gone, NEW s \in Slots
       PROVE  SinksAt(f, s) \subseteq orphans
  <2>1. CASE f \in silent
    <3> SUFFICES ASSUME NEW c \in SinksAt(f, s)
                 PROVE  c \in orphans
      OBVIOUS
    <3>1. c \in Connected /\ channels[c].remote = Remote(f, s)
      BY DEF SinksAt
    <3>2. channels[c].remote.flow = f
      BY <3>1 DEF Remote
    <3>3. QED
      BY <1>b, <2>1, <3>1, <3>2 DEF Orphans
  <2>2. CASE f \notin silent
    BY <1>11, <2>2
  <2>3. QED
    BY <2>1, <2>2
<1>14. \A k \in 1..Len(order) : Open(order[k]) /\ \A s \in Slots : SinksAt(order[k], s) \subseteq orphans
  BY <1>1, <1>6, <1>10, <1>12, <1>13
<1>15. /\ more \in Seq(Commands) /\ \A k \in 1..Len(more) : more[k].op # "AddSocket"
       /\ Leads(more, Outcome, ScannedUpto(order, Len(order)))
  BY <1>3, <1>7, <1>8, <1>9, <1>14, DeparturesLead
<1>16. Outcome' = ScannedUpto(order, Len(order))
  <2>1. PICK table : table = ScannedUpto(order, Len(order))
    OBVIOUS
  <2>2. Outcome \in Tables /\ Outcome' \in Tables
    BY <1>2, OutcomeIs, OutcomeNext DEF PlanInv
  <2>3. \A f \in FlowIds : table[f] = IF f \in silent \cup bundles
                                      THEN IF IsBundle(f) THEN NoSocket ELSE NewSocket ELSE Outcome[f]
    BY <1>9, <1>10, <2>1 DEF ScannedUpto
  <2>4. table \in Tables
    <3>1. table = [f \in FlowIds |-> table[f]]
      BY <2>1 DEF ScannedUpto
    <3>2. \A f \in FlowIds : table[f] \in {NoSocket} \cup [Slots -> SUBSET Channels]
      BY <2>2, <2>3 DEF Tables, NewSocket
    <3>3. QED
      BY <3>1, <3>2 DEF Tables
  <2>5. ASSUME NEW f \in FlowIds
        PROVE  Outcome'[f] = table[f]
    <3>1. CASE f \in bundles
      <4>1. ~Open(f)' /\ IsBundle(f)
        BY <1>2, <1>6, <3>1 DEF Open
      <4>2. QED
        BY <2>3, <3>1, <4>1 DEF Outcome
    <3>2. CASE f \in gone \ bundles
      <4>1. Open(f)' /\ \A s \in Slots : SinksAt(f, s)' = {}
        BY <1>1, <1>2, <3>2 DEF Open
      <4>2. Outcome'[f] = NewSocket
        BY <4>1 DEF Outcome, NewSocket
      <4>3. CASE f \in silent
        BY <1>6, <2>3, <3>2, <4>2, <4>3
      <4>4. CASE f \notin silent
        <5>1. \A s \in Slots : SinksAt(f, s) = {}
          BY <1>11, <3>2, <4>4
        <5>2. Outcome[f] = NewSocket
          BY <1>12, <3>2, <5>1, OutcomeAt DEF NewSocket
        <5>3. QED
          BY <2>3, <3>2, <4>2, <4>4, <5>2
      <4>5. QED
        BY <4>3, <4>4
    <3>3. CASE f \notin gone
      <4>1. Open(f)' <=> Open(f)
        BY <1>2, <3>3 DEF Open
      <4>2. \A s \in Slots : SinksAt(f, s)' = SinksAt(f, s)
        BY <1>1, <3>3
      <4>3. Outcome'[f] = Outcome[f]
        BY <4>1, <4>2 DEF Outcome
      <4>4. QED
        BY <1>1, <1>6, <2>3, <3>3, <4>3
    <3>4. QED
      BY <1>6, <3>1, <3>2, <3>3
  <2>6. QED
    BY <2>1, <2>2, <2>4, <2>5, TableSame
<1>17. Leads(more, Outcome, Outcome')
  BY <1>15, <1>16
<1>18. RxInv'
  BY <1>4, <1>5, <1>15, <1>17, MoreTasks
<1>19. QED
  BY <1>4, <1>18

LEMMA RxInitially == Init => RxInv /\ ~front.poisoned
<1> SUFFICES ASSUME Init PROVE RxInv /\ ~front.poisoned
  OBVIOUS
<1>1. /\ front = [info |-> {}, commands |-> << >>, poisoned |-> FALSE]
      /\ sockets = [f \in FlowIds |-> NoSocket] /\ silence = {} /\ tasks = << >>
      /\ flows = [f \in FlowIds |-> NoFlow] /\ stops = [o \in Origins |-> << >>]
  BY DEF Init, RxInit, NothingPending
<1>2. RxTypes
  BY <1>1 DEF RxTypes, FrontRecord, Tables
<1>3. sockets \in Tables
  BY <1>2 DEF RxTypes
<1>4. \A f \in FlowIds : ~Open(f)
  BY <1>1 DEF Open, Ready, There, Leaving
<1>5. Outcome = sockets
  BY <1>1, <1>4 DEF Outcome
<1>6. Leads(<< >>, sockets, sockets)
  BY <1>3, NothingLeads
<1>7. CommandsInv
  BY <1>1, <1>3, <1>5, <1>6 DEF CommandsInv
<1>8. QED
  BY <1>1, <1>2, <1>7 DEF RxInv, TasksInv

LEMMA QuietRx ==
    ASSUME PlanInv, RxInv, UNCHANGED <<front, sockets, silence, tasks, channels, flows, requests, stops>>
    PROVE  RxInv' /\ front'.poisoned = front.poisoned
<1>1. Outcome' = Outcome /\ Places' = Places
  BY SetsSame, PlacesSame, OutcomeSame
<1>2. silence' \in SUBSET Channels
  BY DEF RxInv, RxTypes
<1>3. QED
  BY <1>1, <1>2, RxSame

LEMMA QueryRx ==
    ASSUME PlanInv, RxInv, FlowsSuffice, NEW found \in SUBSET queried, QueryAnswered(found)
    PROVE  RxInv' /\ front'.poisoned = front.poisoned
<1>1. /\ front' = front /\ sockets' = sockets /\ silence' = silence /\ tasks' = tasks
      /\ channels' = channels /\ tasks = << >>
  BY DEF QueryAnswered, rxVars, Resumes
<1>2. \A f \in FlowIds : (Ready(f)' <=> Ready(f)) /\ (Leaving(f)' <=> Leaving(f))
  BY QueryPlan
<1>3. Outcome' = Outcome
  BY <1>1, <1>2, SetsSame, OutcomeSame DEF Open
<1>4. silence' \in SUBSET Channels
  BY <1>1 DEF RxInv, RxTypes
<1>5. QED
  BY <1>1, <1>3, <1>4, RxSame

LEMMA ThreadRx ==
    ASSUME PlanInv, RxInv, Thread
    PROVE  RxInv' /\ front'.poisoned = front.poisoned
<1>1. tasks' = tasks /\ channels' = channels /\ flows' = flows /\ requests' = requests /\ stops' = stops
  BY DEF Thread, subVars
<1>2. Outcome' = Outcome /\ Places' = Places
  BY <1>1, SetsSame, PlacesSame, OutcomeSame
<1>3. CASE ExecuteRx
  BY <1>1, <1>2, <1>3, ExecuteStep
<1>4. CASE \E c \in Channels : SilenceEnds(c)
  <2>1. front' = front /\ sockets' = sockets /\ silence' \in SUBSET Channels
    BY <1>4 DEF SilenceEnds, RxInv, RxTypes
  <2>2. QED
    BY <1>1, <1>2, <2>1, RxSame
<1>5. QED
  BY <1>3, <1>4 DEF Thread, RxThread

LEMMA RxStep ==
    ASSUME PlanInv, RxInv, FlowsSuffice, "unreachable" \notin Races, [Next]_vars
    PROVE  RxInv' /\ front'.poisoned = front.poisoned
<1>1. CASE HandleCommand
  BY <1>1, HandleRx
<1>2. CASE TakeResult
  BY <1>2, TakeRx
<1>3. CASE \E silent, receiving \in SUBSET FlowIds : Scan(silent, receiving)
  BY <1>3, ScanRx
<1>4. CASE \E unreachable \in SUBSET Origins : StopFlows(unreachable)
  BY <1>4, StopFlowsRx
<1>5. CASE \E o \in Origins : StopReply(o)
  BY <1>5, StopReplyRx
<1>6. CASE Executor
  BY <1>6, RequestRx DEF Executor
<1>7. CASE \E found \in SUBSET queried : QueryAnswered(found)
  BY <1>7, QueryRx
<1>8. CASE RunTask
  <2>1. Outcome' = Outcome /\ Places' = Places
    <3>1. channels' = channels /\ flows' = flows /\ requests' = requests /\ stops' = stops
      BY <1>8 DEF RunTask
    <3>2. QED
      BY <3>1, SetsSame, PlacesSame, OutcomeSame
  <2>2. QED
    BY <1>8, <2>1, RunStep
<1>9. CASE Thread
  BY <1>9, ThreadRx
<1>10. CASE User \/ WakeUp \/ SkipResolve \/ ResolveEnds \/ ClockReady \/ Resolve \/ UNCHANGED vars
  <2>1. UNCHANGED <<front, sockets, silence, tasks, channels, flows, requests, stops>>
    BY <1>10 DEF User, UserSubscribe, UserUnsubscribe, WakeUp, SkipResolve, ResolveEnds, ClockReady, Resolve,
                 vars, subVars, rxVars
  <2>2. QED
    BY <2>1, QuietRx
<1>11. QED
  BY <1>1, <1>2, <1>3, <1>4, <1>5, <1>6, <1>7, <1>8, <1>9, <1>10 DEF Next, Worker

\* The commands reach flows_rx in an order in which each applies: add_socket finds
\* its index vacant, remove_socket no sink left, connect_channel no other place
\* that feeds the channel.  Hypothesis: no control socket fails without a wait
\* (the case that the configuration MCSubscriberUnreachable is about).
THEOREM CommandsApply ==
    ASSUME "unreachable" \notin Races
    PROVE  Spec /\ []FlowsSuffice => []RxCommandsApply
<1> DEFINE I == PlanInv /\ RxInv
<1>1. Init => I
  BY PlanInit, RxInitially
<1>2. I /\ FlowsSuffice /\ [Next]_vars => I'
  BY PlanStep, RxStep
<1>3. I => RxCommandsApply
  <2> SUFFICES ASSUME RxInv, front.commands # << >>
               PROVE  Applicable(sockets, Head(front.commands))
    BY DEF RxCommandsApply
  <2>1. PICK middle \in Tables : Meets(middle)
    BY CommandsMeet DEF RxInv
  <2>2. Fits(sockets, Head(front.commands))
    BY <2>1, FrontIs, FirstLeads DEF Meets, RxInv
  <2>3. QED
    BY <2>2 DEF Fits
<1>4. QED
  BY <1>1, <1>2, <1>3, PTL DEF Spec

\* No task panics with flows_info or subscriptions_info locked: connect_channel and
\* disconnect_channel find the flow they unwrap, and a failed request finds its
\* channels listed.  Hypotheses: the same, and nobody subscribes a channel again
\* before its unsubscription is handled.
THEOREM LocksAreSound ==
    ASSUME "unreachable" \notin Races, "resubscribe" \notin Races
    PROVE  Spec /\ []FlowsSuffice => []NoLockIsPoisoned
<1> DEFINE I == PlanInv /\ RxInv /\ InfoTypes /\ InfoInv /\ ~infoPoisoned /\ ~front.poisoned
<1>1. Init => I
  BY PlanInit, RxInitially, InfoInit
<1>2. I /\ FlowsSuffice /\ [Next]_vars => I'
  BY PlanStep, RxStep, InfoStep
<1>3. I => NoLockIsPoisoned
  BY DEF NoLockIsPoisoned, Poisoned
<1>4. QED
  BY <1>1, <1>2, <1>3, PTL DEF Spec

LEMMA SettledIs ==
    ASSUME PlanInv, RxInv
    PROVE  Settled = Outcome
<1>1. PICK middle \in Tables : Meets(middle)
  BY CommandsMeet DEF RxInv
<1>2. front.commands \in Seq(Commands) /\ tasks \in Seq(Commands)
  BY FrontIs DEF RxInv
<1>3. Leads(front.commands \o tasks, sockets, Outcome)
  BY <1>1, <1>2, LeadsOn DEF Meets
<1>4. front.commands \o tasks \in Seq(Commands)
  BY <1>2
<1>5. QED
  BY <1>3, <1>4, FoldLeads DEF Settled

\* When the commands on their way are carried out, a channel's ring buffer is fed
\* by the slot its subscription says and by no other: connects and disconnects,
\* spawned one by one, are neither lost nor overtaken on their way to flows_rx.
THEOREM SinksFollow ==
    ASSUME "unreachable" \notin Races
    PROVE  Spec /\ []FlowsSuffice => []SinksFollowSubscriptions
<1> DEFINE I == PlanInv /\ RxInv
<1>1. Init => I
  BY PlanInit, RxInitially
<1>2. I /\ FlowsSuffice /\ [Next]_vars => I'
  BY PlanStep, RxStep
<1>3. I => SinksFollowSubscriptions
  <2> SUFFICES ASSUME PlanInv, RxInv, NEW c \in Channels
               PROVE  {p \in FlowIds \X Slots : p[2] \in DOMAIN Settled[p[1]] /\ c \in Settled[p[1]][p[2]]}
                        = IF c \in Connected THEN {<<channels[c].remote.flow, channels[c].remote.slot>>} ELSE {}
    BY DEF SinksFollowSubscriptions
  <2>1. Settled = Outcome
    BY SettledIs
  <2>2. ASSUME NEW f \in FlowIds, NEW s \in Slots
        PROVE  (s \in DOMAIN Outcome[f] /\ c \in Outcome[f][s]) <=> c \in SinksAt(f, s)
    <3>1. CASE Open(f)
      BY <3>1, OutcomeAt
    <3>2. CASE ~Open(f)
      <4>1. Outcome[f] = NoSocket /\ DOMAIN NoSocket = {}
        BY <3>2, OutcomeAt DEF NoSocket
      <4>2. SinksAt(f, s) = {}
        BY <3>2, NoSinks DEF Open
      <4>3. QED
        BY <4>1, <4>2
    <3>3. QED
      BY <3>1, <3>2
  <2>3. ASSUME NEW f \in FlowIds, NEW s \in Slots
        PROVE  c \in SinksAt(f, s) <=> c \in Connected /\ f = channels[c].remote.flow /\ s = channels[c].remote.slot
    <3>1. Remote(f, s).flow = f /\ Remote(f, s).slot = s
      BY DEF Remote
    <3>2. c \in Connected => channels[c].remote = Remote(channels[c].remote.flow, channels[c].remote.slot)
      BY SubscriptionIs DEF PlanInv
    <3>3. QED
      BY <3>1, <3>2 DEF SinksAt
  <2>4. c \in Connected => channels[c].remote.flow \in FlowIds /\ channels[c].remote.slot \in Slots
    BY SubscriptionIs DEF PlanInv
  <2>5. \A p \in FlowIds \X Slots : p[1] \in FlowIds /\ p[2] \in Slots /\ p = <<p[1], p[2]>>
    OBVIOUS
  <2>6. \A p \in FlowIds \X Slots :
           (p[2] \in DOMAIN Settled[p[1]] /\ c \in Settled[p[1]][p[2]])
               <=> c \in Connected /\ p = <<channels[c].remote.flow, channels[c].remote.slot>>
    BY <2>1, <2>2, <2>3, <2>5
  <2>7. QED
    BY <2>4, <2>6
<1>4. QED
  BY <1>1, <1>2, <1>3, PTL DEF Spec

-----------------------------------------------------------------------------
(* The writers of the ring buffers *)

FedBy(table, f, s) == IF table[f] = NoSocket THEN {} ELSE table[f][s]
\* A ring buffer is fed in one place, and there it has no silence writer.
FedOnce ==
    /\ \A f, g \in FlowIds : \A s, r \in Slots :
          FedBy(sockets, f, s) \cap FedBy(sockets, g, r) # {} => f = g /\ s = r
    /\ \A f \in FlowIds : \A s \in Slots : FedBy(sockets, f, s) \cap silence = {}

LEMMA SinksAre ==
    ASSUME NEW table \in Tables, NEW f \in FlowIds
    PROVE  /\ \A c : c \in SinksOf(table, f) <=> \E s \in Slots : c \in FedBy(table, f, s)
           /\ DOMAIN table[f] = IF table[f] = NoSocket THEN {} ELSE Slots
<1>1. DOMAIN NoSocket = {}
  BY DEF NoSocket
<1>2. table[f] = NoSocket \/ table[f] \in [Slots -> SUBSET Channels]
  BY DEF Tables
<1>3. QED
  BY <1>1, <1>2 DEF SinksOf, FedBy

LEMMA OneWriter == RxTypes /\ FedOnce => SingleWriter
<1> SUFFICES ASSUME RxTypes, FedOnce, NEW f \in FlowIds, NEW c \in SinksOf(sockets, f), c \in silence
             PROVE  FALSE
  BY DEF SingleWriter
<1>1. PICK s \in Slots : c \in FedBy(sockets, f, s)
  BY SinksAre DEF RxTypes
<1>2. QED
  BY <1>1 DEF FedOnce

LEMMA FedAfter ==
    ASSUME NEW table \in Tables, NEW command \in Commands, Fits(table, command),
           NEW f \in FlowIds, NEW s \in Slots, NEW c, c \in FedBy(Executed(table, command), f, s)
    PROVE  \/ c \in FedBy(table, f, s)
           \/ command.op = "ConnectChannel" /\ f = command.flow /\ s = command.slot /\ c = command.chan
<1> DEFINE after == Executed(table, command)
<1>1. after \in Tables /\ \A g \in FlowIds : g # command.flow => after[g] = table[g]
  BY ExecutedIs
<1>2. command.flow \in FlowIds /\ command.op \in {"AddSocket", "RemoveSocket", "ConnectChannel", "DisconnectChannel"}
  BY CommandIs
<1>3. CASE f # command.flow
  <2>1. after[f] = table[f]
    BY <1>1, <1>3
  <2> HIDE DEF after
  <2>2. QED
    BY <2>1 DEF FedBy, after
<1>4. CASE f = command.flow /\ command.op = "AddSocket"
  <2>1. after[f] = NewSocket
    BY <1>4, ExecutedIs
  <2>2. NewSocket # NoSocket
    BY SlotsAssumption DEF NewSocket, NoSocket
  <2>3. FedBy(after, f, s) = {}
    BY <2>1, <2>2 DEF FedBy, NewSocket
  <2>4. QED
    BY <2>3
<1>5. CASE f = command.flow /\ command.op = "RemoveSocket"
  <2>1. after[f] = NoSocket
    BY <1>5, ExecutedIs
  <2>2. FedBy(after, f, s) = {}
    BY <2>1 DEF FedBy
  <2>3. QED
    BY <2>2
<1>6. CASE f = command.flow /\ command.op = "ConnectChannel"
  <2>1. table[f] # NoSocket /\ table[f] \in [Slots -> SUBSET Channels]
    BY <1>6 DEF Fits, Tables
  <2>2. after[f] = Fed(table[f], command)
    BY <1>6, <2>1, ExecutedIs
  <2>3. after[f][s] = IF s = command.slot THEN table[f][s] \cup {command.chan} ELSE table[f][s]
    BY <2>1, <2>2 DEF Fed
  <2>4. FedBy(table, f, s) = table[f][s] /\ (after[f] = NoSocket => FedBy(after, f, s) = {})
        /\ (after[f] # NoSocket => FedBy(after, f, s) = after[f][s])
    BY <2>1 DEF FedBy
  <2> HIDE DEF after
  <2>5. c \in FedBy(after, f, s)
    BY DEF after
  <2>6. QED
    BY <1>6, <2>3, <2>4, <2>5
<1>7. CASE f = command.flow /\ command.op = "DisconnectChannel"
  <2>1. table[f] # NoSocket /\ table[f] \in [Slots -> SUBSET Channels]
    BY <1>7 DEF Fits, Tables
  <2>2. after[f] = Left(table[f], command)
    BY <1>7, <2>1, ExecutedIs
  <2>3. after[f][s] = IF s = command.slot THEN table[f][s] \ {command.chan} ELSE table[f][s]
    BY <2>1, <2>2 DEF Left
  <2>4. FedBy(table, f, s) = table[f][s] /\ (after[f] = NoSocket => FedBy(after, f, s) = {})
        /\ (after[f] # NoSocket => FedBy(after, f, s) = after[f][s])
    BY <2>1 DEF FedBy
  <2> HIDE DEF after
  <2>5. c \in FedBy(after, f, s)
    BY DEF after
  <2>6. QED
    BY <2>3, <2>4, <2>5
<1>8. QED
  BY <1>2, <1>3, <1>4, <1>5, <1>6, <1>7

LEMMA LeftIsOut ==
    ASSUME NEW table \in Tables, NEW command \in Commands, Fits(table, command), command.op = "DisconnectChannel"
    PROVE  command.chan \notin FedBy(Executed(table, command), command.flow, command.slot)
<1> DEFINE after == Executed(table, command)
           f == command.flow
<1>1. f \in FlowIds /\ command.slot \in Slots
  BY CommandIs
<1>2. table[f] # NoSocket /\ table[f] \in [Slots -> SUBSET Channels]
  BY <1>1 DEF Fits, Tables
<1>3. after[f] = Left(table[f], command)
  BY <1>2, ExecutedIs
<1>4. after[f][command.slot] = table[f][command.slot] \ {command.chan}
  BY <1>1, <1>2, <1>3 DEF Left
<1> HIDE DEF after, f
<1>5. FedBy(after, f, command.slot) \subseteq after[f][command.slot]
  BY DEF FedBy
<1>6. QED
  BY <1>4, <1>5 DEF after, f

LEMMA WriterStep ==
    ASSUME RxInv, FedOnce, ExecuteRx
    PROVE  FedOnce'
<1>0. PICK command : command = Head(front.commands)
  OBVIOUS
<1>1. /\ sockets' = Executed(sockets, command) /\ sockets \in Tables
      /\ \/ silence' = SilenceAfter(command)
         \/ command.op = "DisconnectChannel" /\ silence' = silence
  BY <1>0 DEF ExecuteRx, RxInv, RxTypes
<1>2. Fits(sockets, command) /\ command \in Commands
  <2>1. PICK middle \in Tables : Meets(middle)
    BY CommandsMeet DEF RxInv
  <2>2. front.commands \in Seq(Commands) /\ front.commands # << >>
    BY FrontIs DEF RxInv, ExecuteRx
  <2>3. Fits(sockets, command)
    BY <1>0, <2>1, <2>2, FirstLeads DEF Meets
  <2>4. QED
    BY <2>3 DEF Fits
<1> DEFINE Same(f, s, c) == command.op = "ConnectChannel" /\ f = command.flow /\ s = command.slot /\ c = command.chan
<1>3. \A f \in FlowIds, s \in Slots : \A c \in FedBy(sockets', f, s) : c \in FedBy(sockets, f, s) \/ Same(f, s, c)
  BY <1>1, <1>2, FedAfter
<1>4. command.op = "ConnectChannel" => \A f \in FlowIds, s \in Slots : command.chan \notin FedBy(sockets, f, s)
  <2>1. command.op = "ConnectChannel" => \A g \in FlowIds : command.chan \notin SinksOf(sockets, g)
    BY <1>2 DEF Fits, Applicable
  <2>2. QED
    BY <1>1, <2>1, SinksAre
<1>5. ASSUME NEW f \in FlowIds, NEW g \in FlowIds, NEW s \in Slots, NEW r \in Slots,
             NEW c \in FedBy(sockets', f, s), c \in FedBy(sockets', g, r)
      PROVE  f = g /\ s = r
  <2>1. c \in FedBy(sockets, f, s) \/ Same(f, s, c)
    BY <1>3
  <2>2. c \in FedBy(sockets, g, r) \/ Same(g, r, c)
    BY <1>3, <1>5
  <2>3. c \in FedBy(sockets, f, s) /\ c \in FedBy(sockets, g, r) => f = g /\ s = r
    BY DEF FedOnce
  <2>4. QED
    BY <1>4, <2>1, <2>2, <2>3
<1>6. ASSUME NEW f \in FlowIds, NEW s \in Slots, NEW c \in FedBy(sockets', f, s), c \in silence'
      PROVE  FALSE
  <2>1. c \in FedBy(sockets, f, s) \/ Same(f, s, c)
    BY <1>3
  <2>2. c \in FedBy(sockets, f, s) => c \notin silence
    BY DEF FedOnce
  <2>3. CASE Same(f, s, c)
    <3>1. silence' = silence \ {c}
      BY <1>1, <2>3 DEF SilenceAfter
    <3>2. QED
      BY <1>6, <3>1
  <2>4. CASE c \in FedBy(sockets, f, s) /\ ~Same(f, s, c)
    <3>1. silence' = silence \ {command.chan} \/ silence' = silence \cup {command.chan} \/ silence' = silence
      BY <1>1 DEF SilenceAfter
    <3>2. c \notin silence /\ c = command.chan /\ silence' = silence \cup {command.chan}
          /\ silence' = SilenceAfter(command)
      BY <1>1, <1>6, <2>2, <2>4, <3>1
    <3>3. /\ command.op = "DisconnectChannel"
          /\ command.slot \in DOMAIN sockets[command.flow]
          /\ command.chan \in sockets[command.flow][command.slot]
      BY <3>2 DEF SilenceAfter
    <3>4. command.flow \in FlowIds /\ command.slot \in Slots
      BY <1>2, <3>3, CommandIs
    <3>5. c \in FedBy(sockets, command.flow, command.slot)
      BY <1>2, <3>2, <3>3 DEF FedBy, Fits
    <3>6. f = command.flow /\ s = command.slot
      BY <2>4, <3>4, <3>5 DEF FedOnce
    <3>7. c \notin FedBy(sockets', f, s)
      BY <1>1, <1>2, <3>2, <3>3, <3>6, LeftIsOut
    <3>8. QED
      BY <1>6, <3>7
  <2>5. QED
    BY <2>1, <2>3, <2>4
<1>7. QED
  BY <1>5, <1>6 DEF FedOnce

\* A ring buffer that a flow feeds has no silence writer: connect_channel takes the
\* one that disconnect_channel has left away, and no slot of another flow feeds it.
THEOREM OneWriterEach ==
    ASSUME "unreachable" \notin Races
    PROVE  Spec /\ []FlowsSuffice => []SingleWriter
<1> DEFINE I == PlanInv /\ RxInv /\ FedOnce
<1>1. Init => I
  <2>1. Init => FedOnce
    BY DEF Init, RxInit, FedOnce, FedBy
  <2>2. QED
    BY <2>1, PlanInit, RxInitially
<1>2. I /\ FlowsSuffice /\ [Next]_vars => I'
  <2> SUFFICES ASSUME PlanInv, RxInv, FedOnce, FlowsSuffice, [Next]_vars
               PROVE  I'
    OBVIOUS
  <2>1. PlanInv' /\ RxInv'
    BY PlanStep, RxStep
  <2>2. FedOnce'
    <3>1. CASE ExecuteRx
      BY <3>1, WriterStep
    <3>2. CASE sockets' = sockets /\ silence' \subseteq silence
      <4>1. \A f, s : FedBy(sockets', f, s) = FedBy(sockets, f, s)
        BY <3>2
      <4>2. QED
        BY <3>2, <4>1 DEF FedOnce
    <3>3. ExecuteRx \/ (sockets' = sockets /\ silence' \subseteq silence)
      BY DEF Next, User, UserSubscribe, UserUnsubscribe, Worker, HandleCommand, WakeUp, Resolve, SkipResolve,
             TakeResult, ResolveEnds, QueryAnswered, Scan, StopFlows, StopReply, Executor, RequestUpdate,
             RequestCreate, RequestJoin, RunTask, ClockReady, Thread, RxThread, SilenceEnds, vars, rxVars
    <3>4. QED
      BY <3>1, <3>2, <3>3
  <2>3. QED
    BY <2>1, <2>2
<1>3. I => SingleWriter
  BY OneWriter DEF RxInv
<1>4. QED
  BY <1>1, <1>2, <1>3, PTL DEF Spec

-----------------------------------------------------------------------------
(* The sources that are heard *)

\* What a flow will carry once it is asked for, and what is to be heard in a slot,
\* now and when the requests are answered.
Given(p) == IF Asked(p).kind = "join" THEN CarriedBy[p[1]] ELSE Asked(p).tx
HeardFrom(f, s, x) ==
    /\ flows[f].heard[s] = x
    /\ \A p \in Places : Asked(p).flow = f => Given(p)[s] = x

Hears(c) ==
    LET remote == channels[c].remote
    IN  /\ HeardFrom(remote.flow, remote.slot, channels[c].source)
        /\ flows[remote.flow].tx[remote.slot] = channels[c].source
ConnectedHear == \A c \in Connected : Hears(c)
AssignedAt(f, s) == \E i \in 1..Len(results) : \E a \in results[i] : a.flow = f /\ a.slot = s
ResultsHear == \A i \in 1..Len(results) : \A a \in results[i] : HeardFrom(a.flow, a.slot, a.source)
Keeps(p) ==
    /\ \A a \in Asked(p).updates : Given(p)[a.slot] = a.source
    /\ Asked(p).kind = "join" <=> p[1] \in Bundles
    /\ Asked(p).kind = "create" => flows[Asked(p).flow].tx = Asked(p).tx
    /\ Asked(p).kind = "update" =>
          /\ clockReady
          /\ \A s \in Slots : \/ Asked(p).tx[s] = flows[Asked(p).flow].tx[s]
                              \/ \E a \in Asked(p).updates : a.slot = s
RequestsKeep == \A p \in Places : Keeps(p)

\* A bundle carries what it carries; another flow what the worker has noted, or
\* is about to note.
FlowHears(f) ==
    IF IsBundle(f) THEN flows[f].heard = CarriedBy[flows[f].origin]
    ELSE \A s \in Slots : flows[f].tx[s] = flows[f].heard[s] \/ (clockReady /\ AssignedAt(f, s))
FlowsHear == \A f \in FlowIds : Ready(f) => FlowHears(f)

\* Without the time nothing is connected, and no flow outlives its round.
NoneBefore ==
    ~clockReady => /\ Connected = {}
                   /\ at \notin {"results", "waiting", "scan"} => \A f \in FlowIds : ~There(f)

HeardInv == ConnectedHear /\ ResultsHear /\ RequestsKeep /\ FlowsHear /\ NoneBefore

LEMMA HeardInit == Init => HeardInv
<1> SUFFICES ASSUME Init PROVE HeardInv
  OBVIOUS
<1>1. PICK loaded \in [Channels -> Sources \cup {NoSource}] :
         channels = [c \in Channels |-> Subscription(loaded[c], NoRemote)]
  BY DEF Init
<1>2. Connected = {}
  BY <1>1 DEF Connected, Subscribed, Subscription
<1>3. requests = [o \in Origins |-> << >>] /\ results = << >> /\ flows = [f \in FlowIds |-> NoFlow]
  BY DEF Init, NothingPending
<1>4. Places = {} /\ \A f \in FlowIds : ~There(f)
  BY <1>3 DEF Places, There
<1>5. QED
  BY <1>2, <1>3, <1>4 DEF HeardInv, ConnectedHear, Hears, ResultsHear, RequestsKeep, FlowsHear, NoneBefore, Ready

LEMMA HeardSame ==
    ASSUME HeardInv, UNCHANGED <<channels, flows, requests, results>>, clockReady => clockReady',
           at' \notin {"results", "waiting", "scan"} => at \notin {"results", "waiting", "scan"}
    PROVE  HeardInv'
<1>0. channels' = channels /\ flows' = flows /\ requests' = requests /\ results' = results
  OBVIOUS
<1>1. Connected' = Connected
  BY <1>0, SetsSame
<1>2. Places' = Places /\ \A p : Asked(p)' = Asked(p)
  BY <1>0 DEF Places, Asked
<1>3. \A f : There(f)' = There(f) /\ Ready(f)' = Ready(f)
  BY <1>0, <1>2 DEF There, Ready, Coming
<1>4. \A p : Given(p)' = Given(p)
  BY <1>2, CarriedSame DEF Given
<1>5. \A f, s, x : HeardFrom(f, s, x)' = HeardFrom(f, s, x)
  BY <1>0, <1>2, <1>4 DEF HeardFrom
<1>6. ConnectedHear' /\ ResultsHear'
  BY <1>0, <1>1, <1>5 DEF HeardInv, ConnectedHear, Hears, ResultsHear
<1>7. RequestsKeep'
  BY <1>0, <1>2, <1>4 DEF HeardInv, RequestsKeep, Keeps
<1>8. FlowsHear'
  BY <1>0, <1>3, CarriedSame DEF HeardInv, FlowsHear, FlowHears, AssignedAt, IsBundle
<1>9. NoneBefore'
  BY <1>1, <1>3 DEF HeardInv, NoneBefore
<1>10. QED
  BY <1>6, <1>7, <1>8, <1>9 DEF HeardInv

LEMMA HeardQuiet ==
    ASSUME HeardInv,
           \/ QuietStep
           \/ \E unreachable \in SUBSET Origins : StopFlows(unreachable)
           \/ \E o \in Origins : StopReply(o)
    PROVE  HeardInv'
<1>1. UNCHANGED <<channels, flows, requests, results>>
  BY DEF QuietStep, User, UserSubscribe, UserUnsubscribe, WakeUp, SkipResolve, ResolveEnds, RunTask,
         ClockReady, Thread, subVars, vars, StopFlows, StopReply
<1>2. clockReady => clockReady'
  BY DEF QuietStep, User, UserSubscribe, UserUnsubscribe, WakeUp, SkipResolve, ResolveEnds, RunTask,
         ClockReady, Thread, subVars, vars, environment, StopFlows, StopReply
<1>3. at' \notin {"results", "waiting", "scan"} => at \notin {"results", "waiting", "scan"}
  BY DEF QuietStep, User, UserSubscribe, UserUnsubscribe, WakeUp, SkipResolve, ResolveEnds, RunTask,
         ClockReady, Thread, subVars, vars, StopFlows, StopReply
<1>4. QED
  BY <1>1, <1>2, <1>3, HeardSame

\* What is found in a peer's slot is given that slot.
LEMMA ReusedFrom ==
    ASSUME PlanTypes, NEW a \in Reused
    PROVE  \E d \in Connected : /\ a.flow = channels[d].remote.flow /\ a.slot = channels[d].remote.slot
                                /\ a.source = channels[d].source
<1>1. PICK c \in Needed : /\ Peers(channels[c].source) # {}
                          /\ LET remote == channels[Min(Peers(channels[c].source))].remote
                             IN  a = Assignment(c, remote.flow, remote.slot)
  BY DEF Reused
<1>2. PICK x, d : x = channels[c].source /\ d = Min(Peers(x))
  OBVIOUS
<1>3. a.flow = channels[d].remote.flow /\ a.slot = channels[d].remote.slot /\ a.source = x
  BY <1>1, <1>2 DEF Assignment
<1>4. Peers(x) \subseteq Nat /\ Peers(x) # {}
  BY <1>1, <1>2, ChannelSets, ChannelsAssumption DEF Peers
<1>5. QED
  BY <1>2, <1>3, <1>4, MinOf DEF Peers

LEMMA HeardResolve ==
    ASSUME PlanInv, HeardInv, Resolve
    PROVE  HeardInv'
<1>1. UNCHANGED <<channels, flows, requests, clockReady>> /\ at = "decide" /\ at' \in {"results", "query"}
  BY DEF Resolve, environment
<1>2. Places = {} /\ results = << >>
  BY <1>1 DEF PlanInv, PhaseInv
<1>3. results' = results \/ results' = <<Reused>>
  BY DEF Resolve
<1>4. CASE results' = results
  BY <1>1, <1>4, HeardSame
<1>5. CASE results' = <<Reused>>
  <2>1. Connected' = Connected /\ Places' = {} /\ Places' = Places /\ \A p : Asked(p)' = Asked(p)
    BY <1>1, <1>2, SetsSame DEF Places, Asked
  <2>2. \A f : There(f)' = There(f) /\ Ready(f)' = Ready(f)
    BY <1>1, <2>1 DEF There, Ready, Coming
  <2>3. \A f, s, x : HeardFrom(f, s, x) => HeardFrom(f, s, x)'
    BY <1>1, <2>1 DEF HeardFrom
  <2>4. ConnectedHear'
    BY <1>1, <2>1, <2>3 DEF HeardInv, ConnectedHear, Hears
  <2>5. ResultsHear'
    <3>1. \A i \in 1..Len(results)' : results'[i] = Reused
      BY <1>5
    <3>2. \A a \in Reused : HeardFrom(a.flow, a.slot, a.source)
      BY ReusedFrom DEF PlanInv, HeardInv, ConnectedHear, Hears
    <3>3. QED
      BY <2>3, <3>1, <3>2 DEF ResultsHear
  <2>6. RequestsKeep'
    BY <2>1 DEF RequestsKeep
  <2>7. FlowsHear'
    <3>1. \A f, s : ~AssignedAt(f, s)
      BY <1>2 DEF AssignedAt
    <3>2. QED
      BY <1>1, <2>2, <3>1, CarriedSame DEF HeardInv, FlowsHear, FlowHears, IsBundle
  <2>8. NoneBefore'
    BY <1>1, <2>1, <2>2 DEF HeardInv, NoneBefore
  <2>9. QED
    BY <2>4, <2>5, <2>6, <2>7, <2>8 DEF HeardInv
<1>6. QED
  BY <1>3, <1>4, <1>5

LEMMA HeardHandle ==
    ASSUME PlanInv, HeardInv, HandleCommand
    PROVE  HeardInv'
<1> DEFINE c == Head(queue).chan
<1>1. /\ at = "batch" /\ \A d \in Channels : d # c => channels'[d] = channels[d]
      /\ Connected' = Connected \ {c}
      /\ flows' = [f \in FlowIds |->
             IF c \in Connected /\ channels[c].remote.flow = f
             THEN [flows[f] EXCEPT !.refcount[channels[c].remote.slot] = @ - 1] ELSE flows[f]]
      /\ at' \in {"batch", "decide"} /\ UNCHANGED <<requests, results>>
  BY HandleIs DEF PlanInv
<1>2. \A f \in FlowIds : (Ready(f)' <=> Ready(f)) /\ (There(f)' <=> There(f))
  BY HandlePlan
<1>3. clockReady' = clockReady
  BY DEF HandleCommand, environment
<1> HIDE DEF c
<1>4. Places = {} /\ Places' = {} /\ results = << >> /\ results' = << >>
  BY <1>1 DEF PlanInv, PhaseInv, Places
<1>5. ASSUME NEW f \in FlowIds, There(f)
      PROVE  flows'[f].heard = flows[f].heard /\ flows'[f].tx = flows[f].tx /\ flows'[f].origin = flows[f].origin
  <2>1. flows[f] \in FlowRecord
    BY <1>5, FlowIs DEF PlanInv
  <2>2. QED
    BY <1>1, <2>1 DEF FlowRecord
<1>6. ConnectedHear'
  <2> SUFFICES ASSUME NEW d \in Connected'
               PROVE  Hears(d)'
    BY DEF ConnectedHear
  <2>1. d \in Connected /\ channels'[d] = channels[d]
    BY <1>1, ChannelSets
  <2>2. channels[d].remote.flow \in FlowIds /\ There(channels[d].remote.flow)
    BY <2>1, ChannelSets, SubscriptionIs DEF PlanInv, CoreInv, ConnectedInv, Ready
  <2>3. QED
    BY <1>4, <1>5, <2>1, <2>2 DEF HeardInv, ConnectedHear, Hears, HeardFrom
<1>7. ResultsHear' /\ RequestsKeep'
  BY <1>4 DEF ResultsHear, RequestsKeep
<1>8. FlowsHear'
  <2> SUFFICES ASSUME NEW f \in FlowIds, Ready(f)'
               PROVE  FlowHears(f)'
    BY DEF FlowsHear
  <2>1. There(f) /\ FlowHears(f) /\ ~\E s : AssignedAt(f, s)
    BY <1>2, <1>4 DEF HeardInv, FlowsHear, Ready, AssignedAt
  <2>2. QED
    BY <1>5, <2>1, CarriedSame DEF FlowHears, IsBundle
<1>9. NoneBefore'
  BY <1>1, <1>2, <1>3 DEF HeardInv, NoneBefore
<1>10. QED
  BY <1>6, <1>7, <1>8, <1>9 DEF HeardInv

LEMMA HeardScan ==
    ASSUME PlanInv, HeardInv, NEW silent \in SUBSET FlowIds, NEW receiving \in SUBSET FlowIds, Scan(silent, receiving)
    PROVE  HeardInv'
<1> DEFINE gone == Gone(silent)
<1>1. /\ at = "scan" /\ Connected' = Connected \ Orphans(silent)
      /\ \A c \in Connected' : channels'[c] = channels[c] /\ channels[c].remote.flow \notin gone
      /\ flows' = [f \in FlowIds |-> IF f \in gone THEN NoFlow ELSE flows[f]]
      /\ requests' = requests /\ results' = results
  BY ScanIs
<1>2. \A f \in FlowIds : Ready(f)' <=> Ready(f) /\ f \notin gone
  BY ScanPlan
<1>3. clockReady' = clockReady
  BY DEF Scan
<1>4. Places = {} /\ Places' = {} /\ results = << >> /\ results' = << >>
  BY <1>1 DEF PlanInv, PhaseInv, Places
<1>5. \A f \in FlowIds : f \notin gone => flows'[f] = flows[f]
  BY <1>1
<1>6. ~clockReady => \A f \in FlowIds : ~There(f)'
  <2> SUFFICES ASSUME ~clockReady, NEW f \in FlowIds, There(f)
               PROVE  f \in gone
    BY <1>1 DEF There
  <2>1. Connected = {}
    BY DEF HeardInv, NoneBefore
  <2>2. \A s \in Slots : flows[f].refcount[s] = Cardinality({c \in Connected : channels[c].remote = Remote(f, s)})
    BY DEF PlanInv, CoreInv, RefcountsAreExact, There
  <2>3. \A s \in Slots : flows[f].refcount[s] = 0
    BY <2>1, <2>2, FS_EmptySet
  <2>4. ~IsUsed(f)
    BY <2>3 DEF IsUsed
  <2>5. QED
    BY <2>4 DEF Gone
<1> HIDE DEF gone
<1>7. ConnectedHear'
  <2> SUFFICES ASSUME NEW c \in Connected'
               PROVE  Hears(c)'
    BY DEF ConnectedHear
  <2>1. c \in Connected /\ channels'[c] = channels[c] /\ channels[c].remote.flow \notin gone
    BY <1>1
  <2>2. channels[c].remote.flow \in FlowIds
    BY <2>1, ChannelSets, SubscriptionIs DEF PlanInv
  <2>3. QED
    BY <1>4, <1>5, <2>1, <2>2 DEF HeardInv, ConnectedHear, Hears, HeardFrom
<1>8. ResultsHear' /\ RequestsKeep'
  BY <1>4 DEF ResultsHear, RequestsKeep
<1>9. FlowsHear'
  <2> SUFFICES ASSUME NEW f \in FlowIds, Ready(f)'
               PROVE  FlowHears(f)'
    BY DEF FlowsHear
  <2>1. flows'[f] = flows[f] /\ FlowHears(f) /\ ~\E s : AssignedAt(f, s)
    BY <1>2, <1>4, <1>5 DEF HeardInv, FlowsHear, AssignedAt
  <2>2. QED
    BY <2>1, CarriedSame DEF FlowHears, IsBundle
<1>10. NoneBefore'
  BY <1>1, <1>3, <1>6 DEF HeardInv, NoneBefore
<1>11. QED
  BY <1>7, <1>8, <1>9, <1>10 DEF HeardInv

LEMMA HeardTake ==
    ASSUME PlanInv, HeardInv, TakeResult
    PROVE  HeardInv'
<1> DEFINE batch == IF clockReady THEN Head(results) ELSE {}
           first(f, s) == CHOOSE a \in batch : a.flow = f /\ a.slot = s
<1>1. /\ results # << >> /\ results' = Tail(results) /\ at \in {"results", "waiting"}
      /\ batch \in SUBSET AssignmentRecord /\ Sound(batch)
      /\ \A a \in batch : Ready(a.flow)
      /\ \A i \in 1..Len(results') : results'[i] = results[i + 1] /\ i + 1 \in 1..Len(results)
      /\ \A c \in Channels : channels'[c] =
             IF c \in ChansOf(batch)
             THEN Subscription(channels[c].source, Remote(AssignedIn(batch)[c].flow, AssignedIn(batch)[c].slot))
             ELSE channels[c]
      /\ Connected' = Connected \cup ChansOf(batch)
  BY TakeIs
<1>2. \A f \in FlowIds : Ready(f)' <=> Ready(f)
  BY TakePlan
<1>3. /\ flows' = [f \in FlowIds |->
             IF flows[f] = NoFlow THEN NoFlow
             ELSE [flows[f] EXCEPT
                      !.refcount = [s \in Slots |-> @[s] + Counted(batch, f, s)],
                      !.tx = [s \in Slots |-> IF Counted(batch, f, s) = 0 THEN @[s] ELSE first(f, s).source]]]
      /\ at' \in {"results", "waiting", "scan"} /\ requests' = requests /\ clockReady' = clockReady
  BY DEF TakeResult, environment
<1>4. /\ \A a \in batch : AssignedIn(batch)[a.chan] = a
      /\ \A c \in ChansOf(batch) : AssignedIn(batch)[c] \in batch /\ AssignedIn(batch)[c].chan = c
      /\ \A f, s : Counted(batch, f, s) = 0 <=> \A a \in batch : ~(a.flow = f /\ a.slot = s)
  BY <1>1, AssignedIs DEF PlanInv
<1>5. /\ clockReady => 1 \in 1..Len(results) /\ batch = results[1]
      /\ ~clockReady => batch = {}
  <2>1. results \in Seq(SUBSET AssignmentRecord)
    BY DEF PlanInv, PlanTypes
  <2>2. 1 \in 1..Len(results) /\ Head(results) = results[1]
    BY <1>1, <2>1
  <2>3. QED
    BY <2>2
<1> HIDE DEF batch
<1>6. Places' = Places /\ \A p : Asked(p)' = Asked(p)
  BY <1>3 DEF Places, Asked
<1>7. \A p : Given(p)' = Given(p)
  BY <1>6, CarriedSame DEF Given
<1>8. \A a \in batch : HeardFrom(a.flow, a.slot, a.source) /\ a.flow \in FlowIds /\ a.slot \in Slots /\ There(a.flow)
  <2>1. \A a \in batch : HeardFrom(a.flow, a.slot, a.source)
    BY <1>5 DEF HeardInv, ResultsHear
  <2>2. QED
    BY <1>1, <2>1, AssignmentIs DEF Ready
\* What the worker notes is what is heard.
<1>9. ASSUME NEW f \in FlowIds, There(f)
      PROVE  /\ flows'[f].heard = flows[f].heard /\ flows'[f].origin = flows[f].origin
             /\ \A s \in Slots : \/ /\ \E a \in batch : a.flow = f /\ a.slot = s
                                    /\ flows'[f].tx[s] = flows[f].heard[s]
                                 \/ /\ \A a \in batch : ~(a.flow = f /\ a.slot = s)
                                    /\ flows'[f].tx[s] = flows[f].tx[s]
             /\ (\A a \in batch : a.flow # f) => flows'[f].tx = flows[f].tx
  <2>1. flows[f] \in FlowRecord /\ flows[f] # NoFlow
    BY <1>9, FlowIs DEF PlanInv, There
  <2> DEFINE tx == [s \in Slots |-> IF Counted(batch, f, s) = 0 THEN flows[f].tx[s] ELSE first(f, s).source]
  <2>2. flows'[f].heard = flows[f].heard /\ flows'[f].origin = flows[f].origin /\ flows'[f].tx = tx
    BY <1>3, <2>1 DEF FlowRecord
  <2>3. ASSUME NEW s \in Slots, Counted(batch, f, s) # 0
        PROVE  (\E a \in batch : a.flow = f /\ a.slot = s) /\ first(f, s).source = flows[f].heard[s]
    <3>1. \E a \in batch : a.flow = f /\ a.slot = s
      BY <1>4, <2>3
    <3>2. first(f, s) \in batch /\ first(f, s).flow = f /\ first(f, s).slot = s
      BY <3>1
    <3> HIDE DEF first
    <3>3. QED
      BY <1>8, <3>1, <3>2 DEF HeardFrom
  <2> HIDE DEF first
  <2>4. \A s \in Slots : Counted(batch, f, s) = 0 => \A a \in batch : ~(a.flow = f /\ a.slot = s)
    BY <1>4
  <2>5. (\A a \in batch : a.flow # f) => tx = flows[f].tx
    <3>1. (\A a \in batch : a.flow # f) => \A s \in Slots : Counted(batch, f, s) = 0
      BY <1>4
    <3>2. flows[f].tx \in [Slots -> Sources \cup {NoSource}]
      BY <2>1 DEF FlowRecord
    <3>3. QED
      BY <3>1, <3>2
  <2>6. QED
    BY <2>2, <2>3, <2>4, <2>5
<1>10. ASSUME NEW f \in FlowIds, There(f), NEW s, NEW x, HeardFrom(f, s, x)
       PROVE  HeardFrom(f, s, x)'
  BY <1>6, <1>7, <1>9, <1>10 DEF HeardFrom
<1>11. ConnectedHear'
  <2> SUFFICES ASSUME NEW c \in Connected'
               PROVE  Hears(c)'
    BY DEF ConnectedHear
  <2>1. CASE c \in ChansOf(batch)
    <3>1. PICK a \in batch : a = AssignedIn(batch)[c] /\ a.chan = c
      BY <1>4, <2>1
    <3>2. c \in Channels /\ a.source = channels[c].source
      BY <1>1, <3>1, AssignmentIs DEF Sound
    <3>3. channels'[c] = Subscription(a.source, Remote(a.flow, a.slot))
      BY <1>1, <2>1, <3>1, <3>2
    <3>4. channels'[c].source = a.source /\ channels'[c].remote.flow = a.flow /\ channels'[c].remote.slot = a.slot
      BY <3>3 DEF Subscription, Remote
    <3>5. HeardFrom(a.flow, a.slot, a.source) /\ a.flow \in FlowIds /\ a.slot \in Slots /\ There(a.flow)
      BY <1>8
    <3>6. flows'[a.flow].tx[a.slot] = flows[a.flow].heard[a.slot]
      BY <1>9, <3>5
    <3>7. HeardFrom(a.flow, a.slot, a.source)'
      BY <1>10, <3>5
    <3>8. QED
      BY <3>4, <3>5, <3>6, <3>7 DEF HeardFrom, Hears
  <2>2. CASE c \notin ChansOf(batch)
    <3>1. c \in Connected /\ c \in Channels /\ channels'[c] = channels[c]
      BY <1>1, <2>2, ChannelSets
    <3>2. PICK f \in FlowIds, s \in Slots, x \in {channels[c].source} :
              f = channels[c].remote.flow /\ s = channels[c].remote.slot
      BY <3>1, SubscriptionIs DEF PlanInv
    <3>3. There(f)
      BY <3>1, <3>2 DEF PlanInv, CoreInv, ConnectedInv, Ready
    <3>4. HeardFrom(f, s, x) /\ flows[f].tx[s] = x
      BY <3>1, <3>2 DEF HeardInv, ConnectedHear, Hears
    <3>5. HeardFrom(f, s, x)'
      BY <1>10, <3>3, <3>4
    <3>6. flows'[f].tx[s] = x
      BY <1>9, <3>3, <3>4 DEF HeardFrom
    <3>7. QED
      BY <3>1, <3>2, <3>5, <3>6 DEF Hears, HeardFrom
  <2>3. QED
    BY <2>1, <2>2
<1>12. ResultsHear'
  <2> SUFFICES ASSUME NEW i \in 1..Len(results'), NEW a \in results'[i]
               PROVE  HeardFrom(a.flow, a.slot, a.source)'
    BY DEF ResultsHear
  <2>1. i + 1 \in 1..Len(results) /\ a \in results[i + 1]
    BY <1>1
  <2>2. HeardFrom(a.flow, a.slot, a.source) /\ There(a.flow)
    BY <2>1 DEF HeardInv, ResultsHear, PlanInv, CoreInv, ResultsInv, Ready
  <2>3. a.flow \in FlowIds
    BY <2>1, ResultIs, AssignmentIs DEF PlanInv
  <2>4. QED
    BY <1>10, <2>2, <2>3
<1>13. RequestsKeep'
  <2> SUFFICES ASSUME NEW p \in Places
               PROVE  Keeps(p)'
    BY <1>6 DEF RequestsKeep
  <2>1. Keeps(p) /\ There(Asked(p).flow) /\ Asked(p).flow \in FlowIds
    BY RequestIs DEF HeardInv, RequestsKeep, PlanInv, CoreInv, RequestsInv
  <2> DEFINE f == Asked(p).flow
  <2>2. Asked(p).kind = "create" => flows'[f].tx = flows[f].tx
    <3> SUFFICES ASSUME Asked(p).kind = "create"
                 PROVE  flows'[f].tx = flows[f].tx
      OBVIOUS
    <3>1. ~Ready(f)
      BY DEF Ready, Coming
    <3>2. \A a \in batch : a.flow # f
      BY <1>1, <3>1
    <3>3. QED
      BY <1>9, <2>1, <3>2
  <2>3. Asked(p).kind = "update" =>
            \A s \in Slots : \/ Asked(p).tx[s] = flows'[f].tx[s] \/ \E a \in Asked(p).updates : a.slot = s
    <3> SUFFICES ASSUME Asked(p).kind = "update", NEW s \in Slots, ~\E a \in Asked(p).updates : a.slot = s
                 PROVE  Asked(p).tx[s] = flows'[f].tx[s]
      OBVIOUS
    <3>1. Asked(p).tx[s] = flows[f].tx[s] /\ Given(p) = Asked(p).tx
      BY <2>1 DEF Keeps, Given
    <3>2. CASE \E a \in batch : a.flow = f /\ a.slot = s
      <4>1. PICK a \in batch : a.flow = f /\ a.slot = s
        BY <3>2
      <4>2. HeardFrom(f, s, a.source)
        BY <1>8, <4>1
      <4>3. flows[f].heard[s] = a.source /\ Given(p)[s] = a.source
        BY <4>2 DEF HeardFrom
      <4>4. flows'[f].tx[s] = flows[f].heard[s]
        BY <1>9, <2>1, <3>2
      <4>5. QED
        BY <3>1, <4>3, <4>4
    <3>3. CASE ~\E a \in batch : a.flow = f /\ a.slot = s
      BY <1>9, <2>1, <3>1, <3>3
    <3>4. QED
      BY <3>2, <3>3
  <2>4. QED
    BY <1>3, <1>6, <1>7, <2>1, <2>2, <2>3 DEF Keeps
<1>14. FlowsHear'
  <2> SUFFICES ASSUME NEW f \in FlowIds, Ready(f)'
               PROVE  FlowHears(f)'
    BY DEF FlowsHear
  <2>1. There(f) /\ FlowHears(f)
    BY <1>2 DEF HeardInv, FlowsHear, Ready
  <2>2. ASSUME NEW s \in Slots, flows[f].tx[s] = flows[f].heard[s] \/ (clockReady /\ AssignedAt(f, s))
        PROVE  flows'[f].tx[s] = flows'[f].heard[s] \/ (clockReady /\ AssignedAt(f, s)')
    <3>1. CASE \E a \in batch : a.flow = f /\ a.slot = s
      BY <1>9, <2>1, <3>1
    <3>2. CASE ~(\E a \in batch : a.flow = f /\ a.slot = s) /\ clockReady /\ AssignedAt(f, s)
      <4>1. PICK i \in 1..Len(results) : \E a \in results[i] : a.flow = f /\ a.slot = s
        BY <3>2 DEF AssignedAt
      <4>2. i # 1
        BY <1>5, <3>2, <4>1
      <4>3. results \in Seq(SUBSET AssignmentRecord) /\ Len(results) \in Nat
        BY DEF PlanInv, PlanTypes
      <4>4. i - 1 \in 1..Len(results') /\ results'[i - 1] = results[i]
        BY <1>1, <4>2, <4>3
      <4>5. QED
        BY <3>2, <4>1, <4>4 DEF AssignedAt
    <3>3. CASE ~(\E a \in batch : a.flow = f /\ a.slot = s) /\ flows[f].tx[s] = flows[f].heard[s]
      BY <1>9, <2>1, <3>3
    <3>4. QED
      BY <2>2, <3>1, <3>2, <3>3
  <2>3. flows'[f].heard = flows[f].heard /\ flows'[f].origin = flows[f].origin
    BY <1>9, <2>1
  <2>4. QED
    BY <1>3, <2>1, <2>2, <2>3, CarriedSame DEF FlowHears, IsBundle
<1>15. NoneBefore'
  <2>1. ~clockReady => Connected' = {}
    <3>1. ~clockReady => ChansOf(batch) = {}
      BY <1>5 DEF ChansOf
    <3>2. QED
      BY <1>1, <3>1 DEF HeardInv, NoneBefore
  <2>2. QED
    BY <1>3, <2>1 DEF NoneBefore
<1>16. QED
  BY <1>11, <1>12, <1>13, <1>14, <1>15 DEF HeardInv

LEMMA CarriedTypes == CarriedBy \in [Origins -> [Slots -> Sources \cup {NoSource}]]
<1> DEFINE source(o, s) ==
        IF \E x \in Sources : Origin[x] = o /\ SlotInBundle[x] = s
        THEN CHOOSE x \in Sources : Origin[x] = o /\ SlotInBundle[x] = s ELSE NoSource
<1>1. \A o, s : source(o, s) \in Sources \cup {NoSource}
  OBVIOUS
<1>2. CarriedBy = [o \in Origins |-> [s \in Slots |-> source(o, s)]]
  BY DEF CarriedBy
<1> HIDE DEF source
<1>3. QED
  BY <1>1, <1>2

\* What a request makes of the flow: what it was asked for is in its slots from
\* then on, unless the request failed.
LEMMA AnswerHeard ==
    ASSUME PlanInv, "lostReply" \notin Races, NEW o \in Origins,
           RequestUpdate(o) \/ RequestCreate(o) \/ RequestJoin(o),
           NEW r, r = <<o, 1>>, NEW f, f = Asked(r).flow
    PROVE  \/ /\ flows'[f].origin = flows[f].origin /\ flows'[f].tx = flows[f].tx /\ flows'[f].heard = Given(r)
              /\ results' = Append(results, Asked(r).updates)
           \/ Asked(r).kind = "update" /\ flows' = flows /\ results' = results
           \/ Asked(r).kind = "create" /\ ~There(f)' /\ results' = results
<1> DEFINE heard(tx) == [flows EXCEPT ![f].heard = tx]
<1>1. requests[o] # << >> /\ Answered(o)
  BY DEF RequestUpdate, RequestCreate, RequestJoin, Asking
<1>2. r \in Places /\ Asked(r) = Head(requests[o]) /\ r[1] = o
  BY <1>1, AnsweredPlaces DEF PlanInv
<1>3. f \in FlowIds /\ Asked(r).tx \in [Slots -> Sources \cup {NoSource}] /\ There(f)
  BY <1>2, RequestIs DEF PlanInv, CoreInv, RequestsInv
<1>4. \A tx \in [Slots -> Sources \cup {NoSource}] :
         heard(tx)[f].origin = flows[f].origin /\ heard(tx)[f].tx = flows[f].tx /\ heard(tx)[f].heard = tx
  <2> SUFFICES ASSUME NEW tx \in [Slots -> Sources \cup {NoSource}]
               PROVE  heard(tx)[f].origin = flows[f].origin /\ heard(tx)[f].tx = flows[f].tx /\ heard(tx)[f].heard = tx
    OBVIOUS
  <2>1. flows \in [FlowIds -> {NoFlow} \cup FlowRecord] /\ flows[f] \in FlowRecord
    BY <1>3, FlowIs DEF PlanInv, PlanTypes
  <2>2. QED
    BY <1>3, <2>1 DEF FlowRecord
<1>5. CASE RequestUpdate(o)
  <2>1. /\ Asked(r).kind = "update"
        /\ \/ flows' = heard(Asked(r).tx) /\ results' = Append(results, Asked(r).updates)
           \/ flows' = flows /\ results' = results
    BY <1>2, <1>5 DEF RequestUpdate
  <2> HIDE DEF heard
  <2>2. Given(r) = Asked(r).tx
    BY <2>1 DEF Given
  <2>3. QED
    BY <1>3, <1>4, <2>1, <2>2
<1>6. CASE RequestCreate(o)
  <2>1. /\ Asked(r).kind = "create"
        /\ \/ flows' = heard(Asked(r).tx) /\ results' = Append(results, Asked(r).updates)
           \/ flows' = [flows EXCEPT ![f] = NoFlow] /\ results' = results
    BY <1>2, <1>6 DEF RequestCreate
  <2> HIDE DEF heard
  <2>2. Given(r) = Asked(r).tx
    BY <2>1 DEF Given
  <2>3. flows' = [flows EXCEPT ![f] = NoFlow] => ~There(f)'
    BY <1>3 DEF There, PlanInv, PlanTypes
  <2>4. QED
    BY <1>3, <1>4, <2>1, <2>2, <2>3
<1>7. CASE RequestJoin(o)
  <2>1. Asked(r).kind = "join" /\ flows' = heard(CarriedBy[o]) /\ results' = Append(results, Asked(r).updates)
    BY <1>2, <1>7 DEF RequestJoin, CarriedBy
  <2> HIDE DEF heard
  <2>2. Given(r) = CarriedBy[o] /\ CarriedBy[o] \in [Slots -> Sources \cup {NoSource}]
    BY <1>2, <2>1, CarriedTypes DEF Given
  <2>3. QED
    BY <1>4, <2>1, <2>2
<1>8. QED
  BY <1>5, <1>6, <1>7

LEMMA HeardRequest ==
    ASSUME PlanInv, HeardInv, "lostReply" \notin Races, NEW o \in Origins,
           RequestUpdate(o) \/ RequestCreate(o) \/ RequestJoin(o)
    PROVE  HeardInv'
<1>1. PICK r, f : r = <<o, 1>> /\ f = Asked(r).flow
  OBVIOUS
<1>2. requests[o] # << >> /\ Answered(o) /\ at = "waiting" /\ at' = at /\ channels' = channels /\ clockReady' = clockReady
  BY DEF RequestUpdate, RequestCreate, RequestJoin, Asking, environment
<1>3. /\ r \in Places /\ Asked(r) = Head(requests[o]) /\ r[1] = o
      /\ \A p \in Places' : /\ Behind(o, p) \in Places /\ Behind(o, p) # r /\ Behind(o, p)[1] = p[1]
                            /\ Asked(p)' = Asked(Behind(o, p))
  BY <1>1, <1>2, AnsweredPlaces DEF PlanInv
<1>4. /\ There(f) /\ f \in FlowIds
      /\ \A g \in FlowIds : g # f => (Ready(g)' <=> Ready(g))
      /\ Ready(f)' <=> There(f)'
      /\ Ready(f) <=> Asked(r).kind = "update"
  BY <1>1, <1>3, RequestPlan
<1>5. \A g \in FlowIds : g # f => flows'[g] = flows[g]
  <2>1. PICK request : request = Head(requests[o])
    OBVIOUS
  <2>2. f = request.flow
    BY <1>1, <1>3, <2>1
  <2>3. QED
    BY <2>1, <2>2, AnswerIs
<1>6. \/ /\ flows'[f].origin = flows[f].origin /\ flows'[f].tx = flows[f].tx /\ flows'[f].heard = Given(r)
         /\ results' = Append(results, Asked(r).updates)
      \/ Asked(r).kind = "update" /\ flows' = flows /\ results' = results
      \/ Asked(r).kind = "create" /\ ~There(f)' /\ results' = results
  BY <1>1, AnswerHeard
<1>7. /\ Keeps(r) /\ flows[f].origin = o
      /\ \A a \in Asked(r).updates : a.flow = f
      /\ \A p \in Places' : Asked(p)'.flow # f
  <2>1. \A p \in Places : p # r => Asked(p).flow # f
    BY <1>1, <1>3 DEF PlanInv, CoreInv, RequestsInv
  <2>2. QED
    BY <1>1, <1>3, <2>1 DEF HeardInv, RequestsKeep, PlanInv, CoreInv, RequestsInv
<1>8. \A p \in Places' : Given(p)' = Given(Behind(o, p))
  <2> SUFFICES ASSUME NEW p \in Places'
               PROVE  Given(p)' = Given(Behind(o, p))
    OBVIOUS
  <2>1. PICK q : q = Behind(o, p)
    OBVIOUS
  <2>2. Asked(p)' = Asked(q) /\ q[1] = p[1]
    BY <1>3, <2>1
  <2>3. Given(p)' = Given(q)
    BY <2>2, CarriedSame DEF Given
  <2>4. QED
    BY <2>1, <2>3
<1>9. Connected' = Connected
  BY <1>2, SetsSame
<1>10. /\ results \in Seq(SUBSET AssignmentRecord) /\ Len(results) \in Nat
       /\ Asked(r).updates \in SUBSET AssignmentRecord
  BY <1>3, RequestIs DEF PlanInv, PlanTypes
<1>11. /\ \A i \in 1..Len(results) : i \in 1..Len(results') /\ results'[i] = results[i]
       /\ \A i \in 1..Len(results') : \/ i \in 1..Len(results) /\ results'[i] = results[i]
                                      \/ results' = Append(results, Asked(r).updates) /\ results'[i] = Asked(r).updates
  BY <1>6, <1>10
\* What is to be heard in a flow that is there still is.
<1>12. ASSUME NEW g \in FlowIds, Ready(g), NEW s, NEW x, HeardFrom(g, s, x)
       PROVE  HeardFrom(g, s, x)'
  <2>1. flows'[g].heard[s] = x
    <3>1. CASE g # f
      BY <1>5, <1>12, <3>1 DEF HeardFrom
    <3>2. CASE g = f
      <4>1. Asked(r).kind = "update" /\ Given(r)[s] = x
        BY <1>1, <1>3, <1>4, <1>12, <3>2 DEF HeardFrom
      <4>2. QED
        BY <1>6, <1>12, <3>2, <4>1 DEF HeardFrom
    <3>3. QED
      BY <3>1, <3>2
  <2>2. \A p \in Places' : Asked(p)'.flow = g => Given(p)'[s] = x
    BY <1>3, <1>8, <1>12 DEF HeardFrom
  <2>3. QED
    BY <2>1, <2>2 DEF HeardFrom
<1>13. ConnectedHear'
  <2> SUFFICES ASSUME NEW c \in Connected
               PROVE  Hears(c)'
    BY <1>9 DEF ConnectedHear
  <2>1. PICK g \in FlowIds, s \in Slots, x \in {channels[c].source} :
            g = channels[c].remote.flow /\ s = channels[c].remote.slot
    BY ChannelSets, SubscriptionIs DEF PlanInv
  <2>2. Ready(g) /\ HeardFrom(g, s, x) /\ flows[g].tx[s] = x
    BY <2>1 DEF PlanInv, CoreInv, ConnectedInv, HeardInv, ConnectedHear, Hears
  <2>3. HeardFrom(g, s, x)'
    BY <1>12, <2>2
  <2>4. flows'[g].tx[s] = x
    <3>1. g = f => flows'[g].tx = flows[g].tx
      BY <1>4, <1>6, <2>2
    <3>2. QED
      BY <1>5, <2>2, <3>1
  <2>5. QED
    BY <1>2, <2>1, <2>3, <2>4 DEF Hears, HeardFrom
<1>14. ResultsHear'
  <2> SUFFICES ASSUME NEW i \in 1..Len(results'), NEW a \in results'[i]
               PROVE  HeardFrom(a.flow, a.slot, a.source)'
    BY DEF ResultsHear
  <2>1. CASE i \in 1..Len(results) /\ results'[i] = results[i]
    <3>1. HeardFrom(a.flow, a.slot, a.source) /\ Ready(a.flow)
      BY <2>1 DEF HeardInv, ResultsHear, PlanInv, CoreInv, ResultsInv
    <3>2. a.flow \in FlowIds
      BY <2>1, ResultIs, AssignmentIs DEF PlanInv
    <3>3. QED
      BY <1>12, <3>1, <3>2
  <2>2. CASE results' = Append(results, Asked(r).updates) /\ results'[i] = Asked(r).updates
    <3>1. flows'[f].heard = Given(r)
      <4>1. results' # results
        BY <1>10, <2>2
      <4>2. QED
        BY <1>6, <4>1
    <3>2. a.flow = f /\ Given(r)[a.slot] = a.source
      BY <1>7, <2>2 DEF Keeps
    <3>3. QED
      BY <1>7, <3>1, <3>2 DEF HeardFrom
  <2>3. QED
    BY <1>11, <2>1, <2>2
<1>15. RequestsKeep'
  <2> SUFFICES ASSUME NEW p \in Places'
               PROVE  Keeps(p)'
    BY DEF RequestsKeep
  <2>1. PICK q \in Places : q = Behind(o, p)
    BY <1>3
  <2>2. Asked(p)' = Asked(q) /\ Given(p)' = Given(q) /\ q[1] = p[1] /\ Keeps(q)
    BY <1>3, <1>8, <2>1 DEF HeardInv, RequestsKeep
  <2>3. flows'[Asked(q).flow] = flows[Asked(q).flow]
    <3>1. Asked(q).flow \in FlowIds
      BY RequestIs DEF PlanInv
    <3>2. Asked(q).flow # f
      BY <1>7, <2>2
    <3>3. QED
      BY <1>5, <3>1, <3>2
  <2>4. QED
    BY <1>2, <2>2, <2>3 DEF Keeps
<1>16. FlowsHear'
  <2> SUFFICES ASSUME NEW g \in FlowIds, Ready(g)'
               PROVE  FlowHears(g)'
    BY DEF FlowsHear
  <2>1. \A s : AssignedAt(g, s) => AssignedAt(g, s)'
    BY <1>11 DEF AssignedAt
  <2>2. CASE flows'[g] = flows[g] /\ Ready(g)
    <3>1. FlowHears(g)
      BY <2>2 DEF HeardInv, FlowsHear
    <3>2. QED
      BY <1>2, <2>1, <2>2, <3>1, CarriedSame DEF FlowHears, IsBundle
  <2>3. CASE g = f /\ flows'[f].origin = flows[f].origin /\ flows'[f].tx = flows[f].tx /\ flows'[f].heard = Given(r)
             /\ results' = Append(results, Asked(r).updates)
    <3>1. Asked(r).kind \in {"update", "create", "join"} /\ (Asked(r).kind = "join" <=> o \in Bundles)
      BY <1>3, <1>7, RequestIs DEF PlanInv, Keeps
    <3>2. CASE Asked(r).kind = "join"
      <4>1. flows'[f].heard = CarriedBy[o] /\ flows'[f].origin = o /\ o \in Bundles
        BY <1>3, <1>7, <2>3, <3>1, <3>2 DEF Given
      <4>2. QED
        BY <2>3, <4>1, CarriedSame DEF FlowHears, IsBundle
    <3>3. CASE Asked(r).kind = "create"
      <4>1. flows'[f].heard = flows'[f].tx /\ flows'[f].origin = o /\ o \notin Bundles
        BY <1>1, <1>7, <2>3, <3>1, <3>3 DEF Given, Keeps
      <4>2. QED
        BY <2>3, <4>1 DEF FlowHears, IsBundle
    <3>4. CASE Asked(r).kind = "update"
      <4>1. flows'[f].heard = Asked(r).tx /\ flows'[f].origin = o /\ o \notin Bundles /\ clockReady
            /\ \A s \in Slots : \/ Asked(r).tx[s] = flows[f].tx[s]
                                \/ \E a \in Asked(r).updates : a.slot = s
        BY <1>1, <1>7, <2>3, <3>1, <3>4 DEF Given, Keeps
      <4>2. ASSUME NEW s \in Slots, \E a \in Asked(r).updates : a.slot = s
            PROVE  AssignedAt(f, s)'
        <5>1. PICK a \in Asked(r).updates : a.slot = s /\ a.flow = f
          BY <1>7, <4>2
        <5>2. Len(results') = Len(results) + 1 /\ results'[Len(results) + 1] = Asked(r).updates
          BY <1>10, <2>3
        <5>3. Len(results) + 1 \in 1..Len(results')
          BY <1>10, <5>2
        <5>4. QED
          BY <5>1, <5>2, <5>3 DEF AssignedAt
      <4>3. QED
        BY <1>2, <2>3, <4>1, <4>2 DEF FlowHears, IsBundle
    <3>5. QED
      BY <3>1, <3>2, <3>3, <3>4
  <2>4. QED
    BY <1>4, <1>5, <1>6, <2>2, <2>3
<1>17. NoneBefore'
  BY <1>2, <1>9 DEF HeardInv, NoneBefore
<1>18. QED
  BY <1>13, <1>14, <1>15, <1>16, <1>17 DEF HeardInv

\* A place where a source is heard, and stays to be heard whatever is found.
Settles(found, f, s, x) ==
    /\ f \in FlowIds /\ s \in Slots /\ There(f)
    /\ flows[f].heard[s] = x
    /\ \/ IsBundle(f)
       \/ flows[f].tx[s] = x /\ \A o : <<f, s>> \notin DOMAIN Matched(o, found)

LEMMA NotMatched ==
    ASSUME PlanTypes, NEW found \in SUBSET SourcesOf(Needed), NEW f, NEW s, s \notin FreeSlots(f, found), NEW o
    PROVE  <<f, s>> \notin DOMAIN Matched(o, found)
<1>1. \A p \in DOMAIN Matched(o, found) : p[2] \in FreeSlots(p[1], found)
  BY MatchedIs
<1>2. QED
  BY <1>1

LEMMA ConnectedSettles ==
    ASSUME PlanInv, ConnectedHear, NEW found \in SUBSET SourcesOf(Needed), NEW c \in Connected
    PROVE  Settles(found, channels[c].remote.flow, channels[c].remote.slot, channels[c].source)
<1>1. PICK f \in FlowIds, s \in Slots : f = channels[c].remote.flow /\ s = channels[c].remote.slot
                                        /\ channels[c].remote = Remote(f, s)
  BY ChannelSets, SubscriptionIs DEF PlanInv
<1>2. There(f) /\ flows[f].heard[s] = channels[c].source /\ flows[f].tx[s] = channels[c].source
  BY <1>1 DEF PlanInv, CoreInv, ConnectedInv, Ready, ConnectedHear, Hears, HeardFrom
<1> DEFINE sinks == {d \in Connected : channels[d].remote = Remote(f, s)}
<1>3. flows[f].refcount[s] = Cardinality(sinks)
  BY <1>2 DEF PlanInv, CoreInv, RefcountsAreExact, There
<1>4. Cardinality(sinks) \in Nat /\ Cardinality(sinks) # 0
  <2>1. sinks \subseteq Channels /\ c \in sinks
    BY <1>1, ChannelSets
  <2> HIDE DEF sinks
  <2>2. IsFiniteSet(sinks)
    BY <2>1, ChannelsAssumption, FS_Subset
  <2>3. QED
    BY <2>1, <2>2, FS_CardinalityType, FS_EmptySet
<1> HIDE DEF sinks
<1>5. s \notin FreeSlots(f, found)
  <2>1. ~(flows[f].refcount[s] <= 0)
    BY <1>3, <1>4
  <2>2. QED
    BY <2>1 DEF FreeSlots
<1>6. \A o : <<f, s>> \notin DOMAIN Matched(o, found)
  BY <1>5, NotMatched DEF PlanInv
<1>7. QED
  BY <1>1, <1>2, <1>6 DEF Settles

LEMMA CarriedSettles ==
    ASSUME PlanInv, NEW found \in SUBSET SourcesOf(Needed), NEW a \in Carried(found),
           \A f \in FlowIds : There(f) /\ ~IsBundle(f) => \A s \in Slots : flows[f].tx[s] = flows[f].heard[s]
    PROVE  Settles(found, a.flow, a.slot, a.source)
<1>1. PICK x \in Flowing(found) : a \in Assignments(x, Min(Carrying(x)), Min(CarriedAt(Min(Carrying(x)), x)))
  BY DEF Carried
<1>2. PICK f, s : f = Min(Carrying(x)) /\ s = Min(CarriedAt(f, x))
  OBVIOUS
<1>3. a \in Assignments(x, f, s)
  BY <1>1, <1>2
<1>4. a.flow = f /\ a.slot = s /\ a.source = x
  BY <1>3 DEF Assignments, Assignment, NeededAs
<1>5. f \in Carrying(x)
  <2>1. Carrying(x) \in SUBSET Nat /\ Carrying(x) # {}
    BY <1>1, SlotsAre DEF Carrying, Flowing
  <2>2. QED
    BY <1>2, <2>1, MinOf
<1>6. f \in FlowIds /\ There(f) /\ flows[f].origin = Origin[x] /\ CarriedAt(f, x) # {}
  BY <1>5 DEF Carrying, There
<1>7. s \in CarriedAt(f, x)
  <2>1. CarriedAt(f, x) \in SUBSET Nat
    BY SlotsAre DEF CarriedAt
  <2>2. QED
    BY <1>2, <1>6, <2>1, MinOf
<1>8. s \in Slots /\ flows[f].tx[s] = x
  BY <1>7 DEF CarriedAt
<1>9. ~IsBundle(f)
  BY <1>1, <1>6 DEF IsBundle, Flowing
<1>10. s \notin FreeSlots(f, found)
  BY <1>1, <1>2 DEF FreeSlots, UsedSlots
<1>11. \A o : <<f, s>> \notin DOMAIN Matched(o, found)
  BY <1>10, NotMatched DEF PlanInv
<1>12. QED
  BY <1>4, <1>6, <1>8, <1>9, <1>11 DEF Settles

LEMMA BundledSettles ==
    ASSUME PlanInv, NEW found \in SUBSET SourcesOf(Needed), NEW a \in Bundled(found),
           \A f \in FlowIds : There(f) /\ IsBundle(f) => flows[f].heard = CarriedBy[flows[f].origin]
    PROVE  Settles(found, a.flow, a.slot, a.source)
<1>1. PICK y \in Joined(found) : a \in InBundle(Origin[y], FlowOfBundle(Origin[y]), found)
  BY DEF Bundled
<1>2. PICK o, f : o = Origin[y] /\ f = FlowOfBundle(o)
  OBVIOUS
<1>3. PICK x \in found : Origin[x] = o /\ a \in Assignments(x, f, SlotInBundle[x])
  BY <1>1, <1>2 DEF InBundle
<1>4. a.flow = f /\ a.slot = SlotInBundle[x] /\ a.source = x
  BY <1>3 DEF Assignments, Assignment, NeededAs
<1>5. o \in Bundles /\ \E g \in FlowIds : flows[g] # NoFlow /\ flows[g].origin = o
  BY <1>1, <1>2 DEF Joined
<1>6. f \in FlowIds /\ There(f) /\ flows[f].origin = o
  BY <1>2, <1>5 DEF FlowOfBundle, There
<1>7. x \in Sources /\ SlotInBundle[x] \in Slots
  BY <1>3, <1>5, NeededAre, OriginsAssumption DEF PlanInv
<1>8. flows[f].heard[SlotInBundle[x]] = x
  BY <1>3, <1>5, <1>6, <1>7, BundleCarries DEF IsBundle
<1>9. QED
  BY <1>4, <1>5, <1>6, <1>7, <1>8 DEF Settles, IsBundle

LEMMA HeardQuery ==
    ASSUME PlanInv, HeardInv, FlowsSuffice, NEW found \in SUBSET queried, QueryAnswered(found)
    PROVE  HeardInv'
<1> DEFINE new == NewFlows(found)
           local == Reused \cup Carried(found) \cup Bundled(found)
<1>0. PlanTypes
  BY DEF PlanInv
<1>1. /\ at = "query" /\ found \in SUBSET SourcesOf(Needed) /\ queried \subseteq SourcesOf(Needed)
      /\ Places = {} /\ results = << >>
  BY DEF QueryAnswered, PlanInv, PhaseInv
<1>2. at' = "results" /\ channels' = channels /\ clockReady' = clockReady /\ results' = <<local>>
  BY <1>1 DEF QueryAnswered, Carried, Bundled, PlanInv, PhaseInv
<1>3. Connected' = Connected
  BY <1>2, SetsSame
<1>4. \A f \in FlowIds : There(f) => flows'[f] = flows[f]
  BY QueryFlows DEF PlanInv
<1>5. \A f \in FlowIds : Ready(f)' <=> There(f)
  <2>1. \A f : Ready(f) <=> There(f)
    BY <1>1, NoPlaces
  <2>2. QED
    BY <2>1, QueryPlan
<1>6. \A p \in Places' :
         \/ /\ IsUpdate(p, found) /\ p[1] \notin Bundles /\ p[2] \in 1..Len(Updates(p[1], found))
            /\ Asked(p)' = Updates(p[1], found)[p[2]]
         \/ /\ ~IsUpdate(p, found) /\ NumberOf(p, found) \in 1..Len(new)
            /\ new[NumberOf(p, found)][1] = p[1]
            /\ Asked(p)' = Creation(new[NumberOf(p, found)], FreeFlowIds[NumberOf(p, found)], found)
  BY QueryPlaces DEF PlanInv
<1>7. \A p \in Places' : /\ There(Asked(p)'.flow) <=> IsUpdate(p, found)
                         /\ Asked(p)'.kind = "update" <=> IsUpdate(p, found)
                         /\ IsUpdate(p, found) => flows[Asked(p)'.flow].origin = p[1]
                         /\ ~IsUpdate(p, found) => Asked(p)'.flow = FreeFlowIds[NumberOf(p, found)]
  BY QueryRequests DEF PlanInv
<1>8. /\ \A f \in FlowIds : There(f) => FlowHears(f)
      /\ \A f, s : ~AssignedAt(f, s)
      /\ ~clockReady => \A f \in FlowIds : ~There(f)
  BY <1>1, NoPlaces DEF HeardInv, FlowsHear, NoneBefore, AssignedAt
\* The new flows are there with what they are asked for with.
<1>9. ASSUME NEW k \in 1..Len(new)
      PROVE  /\ FreeFlowIds[k] \in FlowIds /\ Chunked(new[k], found)
             /\ flows'[FreeFlowIds[k]].tx = Creation(new[k], FreeFlowIds[k], found).tx
  <2>1. FreeFlowIds[k] \in FlowIds
    BY <1>1, FreshIs DEF PlanInv
  <2>2. Chunked(new[k], found)
    <3>1. \E tag : IsNew(new, tag, found)
      BY <1>1, NewIs DEF PlanInv
    <3> HIDE DEF new
    <3>2. QED
      BY <1>1, <3>1, NewApart DEF PlanInv
  <2>3. flows'[FreeFlowIds[k]].tx = Creation(new[k], FreeFlowIds[k], found).tx
    BY QueryFlows DEF PlanInv
  <2>4. QED
    BY <2>1, <2>2, <2>3
<1> HIDE DEF new, local
<1>10. ASSUME NEW p \in Places', IsUpdate(p, found)
       PROVE  /\ Asked(p)'.kind = "update" /\ p[1] \notin Bundles /\ Given(p)' = Asked(p)'.tx
              /\ Asked(p)'.flow \in FlowIds /\ There(Asked(p)'.flow) /\ flows[Asked(p)'.flow].origin = p[1]
              /\ \A a \in Asked(p)'.updates : Asked(p)'.tx[a.slot] = a.source
              /\ \A s \in Slots :
                    \/ <<Asked(p)'.flow, s>> \in DOMAIN Matched(p[1], found) /\ \E a \in Asked(p)'.updates : a.slot = s
                    \/ /\ <<Asked(p)'.flow, s>> \notin DOMAIN Matched(p[1], found)
                       /\ Asked(p)'.tx[s] = flows[Asked(p)'.flow].tx[s]
  <2>1. PICK o, i, r : o = p[1] /\ i = p[2] /\ r = Asked(p)'
    OBVIOUS
  <2>2. o \notin Bundles /\ i \in 1..Len(Updates(o, found)) /\ r = Updates(o, found)[i]
    BY <1>6, <1>10, <2>1
  <2>3. Refills(r, o, found)
    BY <1>0, <1>1, <2>2, UpdateIs
  <2>4. r.kind = "update" /\ There(r.flow) /\ flows[r.flow].origin = o
    BY <2>3 DEF Refills
  <2>5. r.flow \in FlowIds
    <3>1. Updates(o, found) \in Seq(RequestRecord)
      BY <1>0, <1>1, UpdatesAre
    <3>2. r \in RequestRecord
      BY <2>2, <3>1, ElementOfSeq
    <3>3. QED
      BY <3>2 DEF RequestRecord
  <2>6. Given(p)' = r.tx
    BY <2>1, <2>4 DEF Given
  <2>7. QED
    BY <2>1, <2>2, <2>3, <2>4, <2>5, <2>6 DEF Refills
<1>11. ASSUME NEW p \in Places', ~IsUpdate(p, found)
       PROVE  /\ Asked(p)'.kind = IF p[1] \in Bundles THEN "join" ELSE "create"
              /\ ~There(Asked(p)'.flow)
              /\ flows'[Asked(p)'.flow].tx = Asked(p)'.tx
              /\ \A a \in Asked(p)'.updates : Given(p)'[a.slot] = a.source
  <2>1. PICK k, f, r : k = NumberOf(p, found) /\ f = FreeFlowIds[k] /\ r = Asked(p)'
    OBVIOUS
  <2>2. k \in 1..Len(new) /\ new[k][1] = p[1] /\ r = Creation(new[k], f, found)
    BY <1>6, <1>11, <2>1
  <2>3. f \in FlowIds /\ Chunked(new[k], found) /\ flows'[f].tx = r.tx
    BY <1>9, <2>1, <2>2
  <2>4. r.flow = f /\ ~There(f)
    BY <1>7, <1>11, <2>1
  <2>5. FillsSlots(r, p[1])
    <3>1. PICK n : n = new[k]
      OBVIOUS
    <3>2. FillsSlots(r, n[1])
      BY <1>0, <1>1, <2>2, <2>3, <3>1, CreationIs
    <3>3. QED
      BY <2>2, <3>1, <3>2
  <2>6. Given(p)' = IF p[1] \in Bundles THEN CarriedBy[p[1]] ELSE r.tx
    BY <2>1, <2>5, CarriedSame DEF Given, FillsSlots
  <2>7. QED
    BY <2>1, <2>3, <2>4, <2>5, <2>6 DEF FillsSlots
<1>12. ASSUME NEW f, NEW s, NEW x, Settles(found, f, s, x)
       PROVE  HeardFrom(f, s, x)'
  <2>1. f \in FlowIds /\ s \in Slots /\ There(f) /\ flows[f].heard[s] = x /\ flows'[f] = flows[f]
    BY <1>4, <1>12 DEF Settles
  <2>2. ASSUME NEW p \in Places', Asked(p)'.flow = f
        PROVE  Given(p)'[s] = x
    <3>1. IsUpdate(p, found)
      BY <1>7, <2>1, <2>2
    <3>2. p[1] \notin Bundles /\ Given(p)' = Asked(p)'.tx /\ flows[f].origin = p[1]
          /\ \/ <<f, s>> \in DOMAIN Matched(p[1], found)
             \/ Asked(p)'.tx[s] = flows[f].tx[s]
      BY <1>10, <2>1, <2>2, <3>1
    <3>3. flows[f].tx[s] = x /\ <<f, s>> \notin DOMAIN Matched(p[1], found)
      BY <1>12, <3>2 DEF Settles, IsBundle
    <3>4. QED
      BY <3>2, <3>3
  <2>3. QED
    BY <2>1, <2>2 DEF HeardFrom
<1>13. ConnectedHear'
  <2> SUFFICES ASSUME NEW c \in Connected
               PROVE  Hears(c)'
    BY <1>3 DEF ConnectedHear
  <2>1. PICK f, s, x : f = channels[c].remote.flow /\ s = channels[c].remote.slot /\ x = channels[c].source
    OBVIOUS
  <2>2. Settles(found, f, s, x)
    BY <1>1, <2>1, ConnectedSettles DEF HeardInv
  <2>3. HeardFrom(f, s, x)' /\ flows'[f] = flows[f]
    BY <1>4, <1>12, <2>2 DEF Settles
  <2>4. flows[f].tx[s] = x
    BY <2>1 DEF HeardInv, ConnectedHear, Hears
  <2>5. QED
    BY <1>2, <2>1, <2>3, <2>4 DEF Hears, HeardFrom
<1>14. ResultsHear'
  <2>1. \A i \in 1..Len(results)' : results'[i] = local
    BY <1>2
  <2>2. ASSUME NEW a \in local
        PROVE  Settles(found, a.flow, a.slot, a.source)
    <3>1. CASE a \in Reused
      <4>1. PICK d \in Connected : /\ a.flow = channels[d].remote.flow /\ a.slot = channels[d].remote.slot
                                   /\ a.source = channels[d].source
        BY <1>0, <3>1, ReusedFrom
      <4>2. QED
        BY <1>1, <4>1, ConnectedSettles DEF HeardInv
    <3>2. CASE a \in Carried(found)
      <4>1. \A f \in FlowIds : There(f) /\ ~IsBundle(f) => \A s \in Slots : flows[f].tx[s] = flows[f].heard[s]
        BY <1>8 DEF FlowHears
      <4>2. QED
        BY <1>1, <3>2, <4>1, CarriedSettles
    <3>3. CASE a \in Bundled(found)
      <4>1. \A f \in FlowIds : There(f) /\ IsBundle(f) => flows[f].heard = CarriedBy[flows[f].origin]
        BY <1>8 DEF FlowHears
      <4>2. QED
        BY <1>1, <3>3, <4>1, BundledSettles
    <3>4. QED
      BY <3>1, <3>2, <3>3 DEF local
  <2>3. QED
    BY <1>12, <2>1, <2>2 DEF ResultsHear
<1>15. RequestsKeep'
  <2> SUFFICES ASSUME NEW p \in Places'
               PROVE  Keeps(p)'
    BY DEF RequestsKeep
  <2>1. CASE IsUpdate(p, found)
    <3>1. /\ Asked(p)'.kind = "update" /\ p[1] \notin Bundles /\ Given(p)' = Asked(p)'.tx
          /\ Asked(p)'.flow \in FlowIds /\ There(Asked(p)'.flow)
          /\ \A a \in Asked(p)'.updates : Asked(p)'.tx[a.slot] = a.source
          /\ \A s \in Slots : \/ \E a \in Asked(p)'.updates : a.slot = s
                              \/ Asked(p)'.tx[s] = flows[Asked(p)'.flow].tx[s]
      BY <1>10, <2>1
    <3>2. clockReady /\ flows'[Asked(p)'.flow] = flows[Asked(p)'.flow]
      BY <1>4, <1>8, <3>1
    <3>3. QED
      BY <1>2, <3>1, <3>2 DEF Keeps
  <2>2. CASE ~IsUpdate(p, found)
    <3>1. /\ Asked(p)'.kind = IF p[1] \in Bundles THEN "join" ELSE "create"
          /\ flows'[Asked(p)'.flow].tx = Asked(p)'.tx
          /\ \A a \in Asked(p)'.updates : Given(p)'[a.slot] = a.source
      BY <1>11, <2>2
    <3>2. QED
      BY <3>1 DEF Keeps
  <2>3. QED
    BY <2>1, <2>2
<1>16. FlowsHear'
  <2> SUFFICES ASSUME NEW f \in FlowIds, Ready(f)'
               PROVE  FlowHears(f)'
    BY DEF FlowsHear
  <2>1. flows'[f] = flows[f] /\ FlowHears(f) /\ ~\E s : AssignedAt(f, s)
    BY <1>4, <1>5, <1>8
  <2>2. QED
    BY <2>1, CarriedSame DEF FlowHears, IsBundle
<1>17. NoneBefore'
  BY <1>2, <1>3 DEF HeardInv, NoneBefore
<1>18. QED
  BY <1>13, <1>14, <1>15, <1>16, <1>17 DEF HeardInv

LEMMA HeardStep ==
    ASSUME PlanInv, HeardInv, FlowsSuffice, "lostReply" \notin Races, [Next]_vars
    PROVE  HeardInv'
<1>1. CASE QuietStep \/ (\E unreachable \in SUBSET Origins : StopFlows(unreachable)) \/ \E o \in Origins : StopReply(o)
  BY <1>1, HeardQuiet
<1>2. CASE HandleCommand
  BY <1>2, HeardHandle
<1>3. CASE Resolve
  BY <1>3, HeardResolve
<1>4. CASE TakeResult
  BY <1>4, HeardTake
<1>5. CASE \E found \in SUBSET queried : QueryAnswered(found)
  BY <1>5, HeardQuery
<1>6. CASE \E silent, receiving \in SUBSET FlowIds : Scan(silent, receiving)
  BY <1>6, HeardScan
<1>7. CASE Executor
  BY <1>7, HeardRequest DEF Executor
<1>8. QED
  BY <1>1, <1>2, <1>3, <1>4, <1>5, <1>6, <1>7 DEF Next, Worker, QuietStep

\* A channel that is connected hears the source it is subscribed to: the slot the
\* worker noted is the one the transmitter was asked to fill with it, whichever way
\* the source was found (a peer's slot, a flow that carries it, a free slot, a new
\* flow, a bundle) and whatever was asked of that flow since.  The hypothesis: no
\* reply comes after its time (the case that MCSubscriberLostReply is about).
THEOREM SourcesAreHeard ==
    ASSUME "lostReply" \notin Races
    PROVE  Spec /\ []FlowsSuffice => []HearsItsSource
<1> DEFINE I == PlanInv /\ HeardInv
<1>1. Init => I
  BY PlanInit, HeardInit
<1>2. I /\ FlowsSuffice /\ [Next]_vars => I'
  BY PlanStep, HeardStep
<1>3. I => HearsItsSource
  BY DEF HeardInv, ConnectedHear, Hears, HeardFrom, HearsItsSource
<1>4. QED
  BY <1>1, <1>2, <1>3, PTL DEF Spec

-----------------------------------------------------------------------------
(* Types *)

SavedTypes == saved \in [Channels -> Sources \cup {NoSource}]

LEMMA SavedStep ==
    ASSUME SavedTypes, PlanTypes', [Next]_vars
    PROVE  SavedTypes'
<1>1. CASE HandleCommand
  <2>1. saved' = saved \/ saved' = Stored(channels')
    BY <1>1 DEF HandleCommand
  <2>2. \A c \in Channels : channels'[c].source \in Sources \cup {NoSource}
    <3>1. channels' \in [Channels -> {NoSub} \cup Subscriptions]
      BY DEF PlanTypes
    <3>2. NoSub.source = NoSource /\ \A sub \in Subscriptions : sub.source \in Sources
      BY DEF NoSub, Subscription, Subscriptions
    <3>3. QED
      BY <3>1, <3>2
  <2>3. QED
    BY <2>1, <2>2 DEF SavedTypes, Stored
<1>2. CASE ~HandleCommand
  <2>1. saved' = saved
    BY <1>2 DEF Next, User, UserSubscribe, UserUnsubscribe, Worker, WakeUp, Resolve, SkipResolve,
           TakeResult, ResolveEnds, QueryAnswered, Scan, StopFlows, StopReply, Executor, RequestUpdate,
           RequestCreate, RequestJoin, RunTask, ClockReady, Thread, vars, subVars
  <2>2. QED
    BY <2>1 DEF SavedTypes
<1>3. QED
  BY <1>1, <1>2

LEMMA TypesAre == PlanTypes /\ RxTypes /\ InfoTypes /\ SavedTypes => TypeOK
<1> SUFFICES ASSUME PlanTypes, RxTypes, InfoTypes, SavedTypes PROVE TypeOK
  OBVIOUS
<1>1. info \in [Channels -> {NoInfo} \cup [source : Sources, status : Status]]
  BY DEF InfoTypes, InfoRecord
<1>2. channels \in [Channels ->
         [source : Sources, remote : {NoRemote} \cup [flow : FlowIds, slot : Slots]] \cup {NoSub}]
  BY DEF PlanTypes, Subscriptions
<1>3. \A f \in FlowIds : flows[f] # NoFlow =>
         /\ flows[f].origin \in Origins
         /\ flows[f].refcount \in [Slots -> Int]
         /\ flows[f].tx \in [Slots -> Sources \cup {NoSource}]
         /\ flows[f].heard \in [Slots -> Sources \cup {NoSource}]
  BY FlowIs DEF There
<1>4. (\A i \in DOMAIN tasks : tasks[i] \in Commands) /\ \A i \in DOMAIN front.commands : front.commands[i] \in Commands
  <2>1. tasks \in Seq(Commands) /\ front.commands \in Seq(Commands)
    BY DEF RxTypes, FrontRecord
  <2>2. DOMAIN tasks = 1..Len(tasks) /\ DOMAIN front.commands = 1..Len(front.commands)
    BY <2>1
  <2>3. QED
    BY <2>1, <2>2, ElementOfSeq
<1>5. front.info \subseteq FlowIds
  BY DEF RxTypes, FrontRecord
<1>6. \A f \in FlowIds : sockets[f] = NoSocket \/ sockets[f] \in [Slots -> SUBSET Channels]
  BY DEF RxTypes, Tables
<1>7. silence \subseteq Channels /\ saved \in [Channels -> Sources \cup {NoSource}]
  BY DEF RxTypes, SavedTypes
<1>8. at \in {"idle", "batch", "decide", "query", "waiting", "results", "scan", "stop", "stopping"}
  BY DEF PlanTypes
<1>9. QED
  BY <1>1, <1>2, <1>3, <1>4, <1>5, <1>6, <1>7, <1>8 DEF TypeOK

\* Every variable of the subscriber and of the RX thread keeps its type: the
\* worker's tables, the commands and the thread's sockets name only channels, flows
\* and slots that there are.
THEOREM SubscriberTypes ==
    ASSUME "unreachable" \notin Races, "resubscribe" \notin Races
    PROVE  Spec /\ []FlowsSuffice => []TypeOK
<1> DEFINE I == PlanInv /\ RxInv /\ InfoTypes /\ InfoInv /\ SavedTypes
<1>1. Init => I
  <2>1. Init => SavedTypes
    BY DEF Init, SavedTypes
  <2>2. QED
    BY <2>1, PlanInit, RxInitially, InfoInit
<1>2. I /\ FlowsSuffice /\ [Next]_vars => I'
  <2>1. PlanInv /\ FlowsSuffice /\ [Next]_vars => PlanInv'
    BY PlanStep
  <2>2. I /\ FlowsSuffice /\ [Next]_vars => RxInv' /\ InfoTypes' /\ InfoInv'
    BY RxStep, InfoStep
  <2>3. I /\ PlanInv' /\ [Next]_vars => SavedTypes'
    BY SavedStep DEF PlanInv
  <2>4. QED
    BY <2>1, <2>2, <2>3
<1>3. I => TypeOK
  BY TypesAre DEF PlanInv, RxInv
<1>4. QED
  BY <1>1, <1>2, <1>3, PTL DEF Spec

-----------------------------------------------------------------------------
(* How many flows there are *)

LEMMA NewSome ==
    ASSUME PlanTypes, NEW found \in SUBSET SourcesOf(Needed), NEW new, NEW tag, IsNew(new, tag, found),
           NEW k \in 1..Len(new)
    PROVE  NewSources(new[k], found) # {}
<1>1. CASE new[k][1] \in Bundles
  <2>1. \E x \in found : Origin[x] = new[k][1]
    BY <1>1 DEF IsNew
  <2>2. QED
    BY <1>1, <2>1 DEF NewSources
<1>2. CASE new[k][1] \notin Bundles
  <2>1. tag[k] \in DOMAIN Chunks(new[k][1], found) /\ new[k][2] = Chunks(new[k][1], found)[tag[k]]
    BY <1>2 DEF IsNew
  <2>2. Len(new[k][2]) \in 0..Cardinality(Slots) /\ Len(new[k][2]) # 0
    BY <2>1, ChunkIs
  <2>3. Cardinality(Slots) \in Nat
    BY SlotsAre
  <2>4. 1 \in 1..Len(new[k][2])
    BY <2>2, <2>3
  <2>5. new[k][2][1] \in NewSources(new[k], found)
    BY <1>2, <2>4 DEF NewSources
  <2>6. QED
    BY <2>5
<1>3. QED
  BY <1>1, <1>2

\* A plan has at most one new flow for each channel that needs one.
LEMMA FewNewFlows ==
    ASSUME PlanTypes, NEW found \in SUBSET SourcesOf(Needed)
    PROVE  Len(NewFlows(found)) \in Nat /\ Len(NewFlows(found)) <= Cardinality(Channels)
<1> DEFINE new == NewFlows(found)
           n == Len(new)
<1>1. n \in Nat
  BY NewIs
<1>2. PICK tag : IsNew(new, tag, found)
  BY NewIs
<1> HIDE DEF new
<1> DEFINE through(k, c) == c \in Channels /\ channels[c].source \in NewSources(new[k], found)
           first == [k \in 1..n |-> CHOOSE c \in Channels : through(k, c)]
<1>3. ASSUME NEW k \in 1..n
      PROVE  first[k] \in Channels /\ through(k, first[k])
  <2>0. NewSources(new[k], found) # {}
    BY <1>2, NewSome
  <2>1. PICK x \in NewSources(new[k], found) : x \in found
    BY <1>2, <2>0, NewApart
  <2>2. PICK c \in Needed : channels[c].source = x
    BY <2>1 DEF SourcesOf
  <2>3. c \in Channels /\ through(k, c)
    BY <2>1, <2>2, ChannelSets
  <2> HIDE DEF through
  <2>4. QED
    BY <2>3
<1>4. ASSUME NEW k \in 1..n, NEW m \in 1..n, first[k] = first[m]
      PROVE  k = m
  <2>1. through(k, first[k]) /\ through(m, first[k])
    BY <1>3, <1>4
  <2>2. k # m => NewSources(new[k], found) \cap NewSources(new[m], found) = {}
    BY <1>2, NewApart
  <2> HIDE DEF first
  <2>3. QED
    BY <2>1, <2>2
<1>5. first \in Injection(1..n, Channels)
  <2>1. first \in [1..n -> Channels]
    BY <1>3
  <2> HIDE DEF first
  <2>2. QED
    BY <1>4, <2>1 DEF Injection, IsInjective
<1>6. Cardinality(1..n) = n
  BY <1>1, FS_Interval
<1> HIDE DEF first
<1>7. Cardinality(1..n) <= Cardinality(Channels)
  BY <1>5, ChannelsAssumption, FS_Injection
<1> HIDE DEF n
<1>8. QED
  BY <1>1, <1>6, <1>7 DEF n, new

FlowsThere == {f \in FlowIds : There(f)}
\* scan_flows leaves at most one flow for each channel, and until a plan is made
\* no flow comes.
FewFlows == at \notin {"results", "waiting", "scan"} => Cardinality(FlowsThere) <= Cardinality(Channels)

LEMMA FlowsCounted ==
    /\ IsFiniteSet(FlowsThere) /\ Cardinality(FlowsThere) \in Nat
    /\ Cardinality(Channels) \in Nat /\ Cardinality(FlowIds) \in Nat
<1>1. FlowsThere \in SUBSET FlowIds
  BY DEF FlowsThere
<1>2. IsFiniteSet(FlowsThere)
  BY <1>1, FlowIdsAssumption, FS_Subset
<1>3. QED
  BY <1>2, FlowIdsAssumption, ChannelsAssumption, FS_CardinalityType

\* With twice as many indices as channels a plan finds one for each new flow.
LEMMA FewSuffice ==
    ASSUME PlanInv, FewFlows, 2 * Cardinality(Channels) <= Cardinality(FlowIds)
    PROVE  FlowsSuffice
<1> SUFFICES ASSUME at = "query", NEW found \in SUBSET queried
             PROVE  Len(NewFlows(found)) <= Len(FreeFlowIds)
  BY DEF FlowsSuffice
<1> DEFINE free == {f \in FlowIds : flows[f] = NoFlow}
           C == Cardinality(Channels)
           F == Cardinality(FlowIds)
           T == Cardinality(FlowsThere)
           N == Len(NewFlows(found))
           L == Len(FreeFlowIds)
<1>1. N \in Nat /\ N <= C
  <2>1. found \in SUBSET SourcesOf(Needed)
    BY DEF PlanInv, PhaseInv
  <2>2. QED
    BY <2>1, FewNewFlows DEF PlanInv
<1>2. T <= C /\ T \in Nat /\ C \in Nat /\ F \in Nat /\ 2 * C <= F
  BY FlowsCounted DEF FewFlows
<1>3. free = FlowIds \ FlowsThere /\ FlowIds \cap FlowsThere = FlowsThere
  BY DEF FlowsThere, There
<1>4. Cardinality(free) = F - T
  BY <1>3, FlowIdsAssumption, FS_Difference
<1>5. L = Cardinality(free)
  <2>1. FreeFlowIds = [i \in 1..Cardinality(free) |-> CHOOSE x \in free : Cardinality({y \in free : y < x}) = i - 1]
    BY DEF FreeFlowIds, Ascending, InOrder
  <2>2. Cardinality(free) \in Nat
    BY <1>2, <1>3, FlowIdsAssumption, FS_Difference, FS_CardinalityType
  <2> HIDE DEF free
  <2>3. QED
    BY <2>1, <2>2
<1> HIDE DEF free, C, F, T, N, L
<1>6. N <= L
  BY <1>1, <1>2, <1>4, <1>5
<1>7. QED
  BY <1>6 DEF N, L

\* After scan_flows every flow has a channel of its own.
LEMMA ScanFew ==
    ASSUME PlanInv, PlanInv', NEW silent \in SUBSET FlowIds, NEW receiving \in SUBSET FlowIds, Scan(silent, receiving)
    PROVE  Cardinality(FlowsThere') <= Cardinality(Channels)
<1>1. flows' = [f \in FlowIds |-> IF f \in Gone(silent) THEN NoFlow ELSE flows[f]]
  BY ScanIs
<1> DEFINE of(f, c) == c \in Connected' /\ channels'[c].remote.flow = f
<1>2. ASSUME NEW f \in FlowsThere'
      PROVE  \E c \in Channels : of(f, c)
  <2>1. f \in FlowIds /\ flows'[f] # NoFlow
    BY DEF FlowsThere, There
  <2>2. f \notin Gone(silent) /\ flows'[f] = flows[f] /\ flows[f] # NoFlow
    BY <1>1, <2>1
  <2>3. PICK s \in Slots : flows[f].refcount[s] > 0
    BY <2>1, <2>2 DEF Gone, There, IsUsed
  <2> DEFINE connected == {c \in Connected' : channels'[c].remote = Remote(f, s)}
  <2>4. flows'[f].refcount[s] = Cardinality(connected)
    BY <2>1 DEF PlanInv, CoreInv, RefcountsAreExact
  <2>5. Cardinality({}) = 0
    BY FS_EmptySet
  <2>6. connected # {}
    <3> HIDE DEF connected
    <3>1. Cardinality(connected) > 0
      BY <2>2, <2>3, <2>4
    <3>2. QED
      BY <2>5, <3>1
  <2>7. PICK c \in connected : TRUE
    BY <2>6
  <2>8. of(f, c)
    BY <2>7 DEF Remote
  <2>9. c \in Channels
    BY <2>7 DEF Connected, Subscribed
  <2> HIDE DEF of
  <2>10. QED
    BY <2>8, <2>9
<1> DEFINE T == FlowsThere'
           one == [f \in T |-> CHOOSE c \in Channels : of(f, c)]
<1>3. \A f \in T : one[f] \in Channels /\ of(f, one[f])
  <2> HIDE DEF of
  <2>1. QED
    BY <1>2
<1> HIDE DEF T
<1>4. one \in [T -> Channels]
  BY <1>3
<1>5. \A f, g \in T : one[f] = one[g] => f = g
  <2>1. \A f, g, c : of(f, c) /\ of(g, c) => f = g
    OBVIOUS
  <2> HIDE DEF of, one
  <2>2. QED
    BY <1>3, <2>1
<1> HIDE DEF one
<1>6. one \in Injection(T, Channels)
  BY <1>4, <1>5 DEF Injection, IsInjective
<1>7. QED
  BY <1>6, ChannelsAssumption, FS_Injection DEF T

LEMMA FewStep ==
    ASSUME PlanInv, PlanInv', FewFlows, [Next]_vars
    PROVE  FewFlows'
<1>1. CASE \E silent, receiving \in SUBSET FlowIds : Scan(silent, receiving)
  BY <1>1, ScanFew DEF FewFlows
<1>2. CASE HandleCommand
  <2>1. at = "batch"
    BY <1>2 DEF HandleCommand
  <2>2. \A f \in FlowIds : There(f)' <=> There(f)
    BY <1>2, HandlePlan
  <2>3. FlowsThere' \in SUBSET FlowsThere
    BY <2>2 DEF FlowsThere
  <2>4. Cardinality(FlowsThere') <= Cardinality(FlowsThere) /\ Cardinality(FlowsThere') \in Nat
    BY <2>3, FlowsCounted, FS_Subset, FS_CardinalityType
  <2>5. QED
    BY <2>1, <2>4, FlowsCounted DEF FewFlows
<1>3. CASE flows' = flows /\ (at' \notin {"results", "waiting", "scan"} => at \notin {"results", "waiting", "scan"})
  <2>1. FlowsThere' = FlowsThere
    BY <1>3 DEF FlowsThere, There
  <2>2. QED
    BY <1>3, <2>1 DEF FewFlows
<1>4. CASE at' \in {"results", "waiting", "scan"}
  BY <1>4 DEF FewFlows
<1>5. \/ \E silent, receiving \in SUBSET FlowIds : Scan(silent, receiving)
      \/ HandleCommand
      \/ flows' = flows /\ (at' \notin {"results", "waiting", "scan"} => at \notin {"results", "waiting", "scan"})
      \/ at' \in {"results", "waiting", "scan"}
  BY DEF Next, User, UserSubscribe, UserUnsubscribe, Worker, WakeUp, Resolve, SkipResolve,
         TakeResult, ResolveEnds, QueryAnswered, StopFlows, StopReply, Executor, RequestUpdate, Asking,
         RequestCreate, RequestJoin, RunTask, ClockReady, Thread, Pause, vars, subVars
<1>6. QED
  BY <1>1, <1>2, <1>3, <1>4, <1>5

\* With no more than half as many channels as MAX_FLOWS (the 16 channels of the
\* default configuration, the 32 entries of flows_info) a plan always finds an index
\* for each new flow: the hypothesis of the theorems above is met.
THEOREM FlowsDoSuffice ==
    ASSUME 2 * Cardinality(Channels) <= Cardinality(FlowIds)
    PROVE  Spec => []FlowsSuffice
<1> DEFINE I == PlanInv /\ FewFlows
<1>1. Init => I
  <2>1. Init => FewFlows
    <3> SUFFICES ASSUME Init PROVE Cardinality(FlowsThere) <= Cardinality(Channels)
      BY DEF FewFlows
    <3>1. FlowsThere = {}
      BY DEF Init, FlowsThere, There
    <3>2. Cardinality({}) = 0
      BY FS_EmptySet
    <3>3. QED
      BY <3>1, <3>2, FlowsCounted
  <2>2. QED
    BY <2>1, PlanInit
<1>2. I => FlowsSuffice
  BY FewSuffice
<1>3. I /\ [Next]_vars => I'
  <2>1. I /\ [Next]_vars => PlanInv'
    BY <1>2, PlanStep
  <2>2. I /\ PlanInv' /\ [Next]_vars => FewFlows'
    BY FewStep
  <2>3. QED
    BY <2>1, <2>2
<1>4. QED
  BY <1>1, <1>2, <1>3, PTL DEF Spec
=============================================================================
