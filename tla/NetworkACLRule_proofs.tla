------------------------ MODULE NetworkACLRule_proofs ------------------------
(***************************************************************************)
(* For any rules, lists, faults and bounds: no rule that the resource made *)
(* is forgotten, an operation that reports success has every configured    *)
(* rule in the ACL, and an update leaves alone what it has no reason to    *)
(* touch, with the exceptions that the properties name.                    *)
(***************************************************************************)
EXTENDS NetworkACLRule, FiniteSetTheorems, TLAPS

-----------------------------------------------------------------------------
(* The inductive invariant: what holds as long as nothing shifted.         *)

IsRule(r) ==
  /\ r = [f \in Fields |-> r[f]] /\ r.port \notin Reserved
  /\ ~PortProtocol(r) => r.port = NoPort

IsList(es) == \E n \in Nat : DOMAIN es = 1..n
Blocks(es) == IsList(es) /\ \A i \in DOMAIN es : IsRule(es[i].rule)

\* The ACL: every rule has a uuid of its own, and what the resource made is of a protocol
\* it makes calls for.
CloudOK ==
  /\ IsFiniteSet(cloud)
  /\ \A c \in cloud : IsRule(c.rule) /\ (c.ours => Handled(c.rule))
  /\ \A c, d \in cloud : c.uuid = d.uuid => c = d

ListsOK == Blocks(saved.rules) /\ Blocks(news) /\ config.rules \in Seq(Rules)

\* A uuid of a rule that exists is kept under the rule's key; that of a foreign one only in
\* a dummy.
Fits(x, c) == IF c.ours THEN x = Key(c.rule) ELSE x = "unknown"
FitsAll(es) ==
  \A i \in DOMAIN es : \A x \in DOMAIN es[i].uuids : \A c \in cloud :
    c.uuid = es[i].uuids[x] => Fits(x, c)
KeysFit == FitsAll(saved.rules) /\ FitsAll(news)

\* The blocks whose rules are still to be made.
Pending == todo.creates \cup {k \in DOMAIN stage : stage[k] \in {"spawned", "working"}}

\* A rule of the resource is wanted by a block that is not to be made any more, or
\* about to be deleted.
Listed ==
  \A c \in Own :
    IF Idle THEN c.uuid \in Wanted(saved.rules)
    ELSE \/ c.uuid \in todo.deletes
         \/ op # "destroy" /\ \E k \in DOMAIN news \ Pending : c.uuid \in Wants(news[k])

\* Which parts of the handler's state are in use when.
CallKinds == {"deletes", "updates", "creates"}
HandlerOK ==
  /\ op \in {"idle", "create", "update", "migrate", "destroy"}
  /\ ~saved.id => saved.rules = <<>>
  /\ op = "idle" => todo = Nothing /\ DOMAIN stage = {} /\ news = <<>> /\ ~failed
  /\ op = "destroy" => todo.creates = {} /\ DOMAIN stage = {} /\ ~failed
  /\ op # "update" => todo.updates = {}
  /\ DOMAIN todo = CallKinds /\ todo.deletes \subseteq UuidsIn(saved.rules) /\ todo.creates \subseteq DOMAIN news
  /\ DOMAIN stage \subseteq DOMAIN news /\ DOMAIN tries = DOMAIN stage
  /\ DOMAIN stage # {} => todo = Nothing
  /\ failed => todo.deletes = {}
  /\ failed /\ op \in {"create", "migrate"} =>
       \E i \in DOMAIN stage : news[i].rule \in Invalid \/ LastTry(i)

\* What an update will change is of the kind it will be, and it is changed once.
UpdatesOK ==
  /\ \A x, y \in todo.updates : x.uuid = y.uuid => x = y
  /\ \A x \in todo.updates :
       /\ IsRule(x.rule)
       /\ \A c \in cloud : c.uuid = x.uuid => c.ours /\ Handled(x.rule) /\ Key(x.rule) = Key(c.rule)

\* After a refresh each block shows the rule it wants, and no two want the same.
Shows(es) ==
  /\ \A i \in DOMAIN es : Handled(es[i].rule) =>
       \E c \in cloud : c.uuid \in Wants(es[i]) /\ c.rule = es[i].rule
  /\ \A i, j \in DOMAIN es : Wants(es[i]) \cap Wants(es[j]) # {} => i = j
Synced == Idle /\ fresh => Shows(saved.rules)

\* The handler works on the configured rules.
Working == op \in {"create", "update", "migrate"}
PlanOK == Working => Plain(news) = config.rules

\* A configured rule is there to stay, or will be there.
Present(r) == \E c \in cloud : c.rule = r /\ c.uuid \notin todo.deletes \cup Ids(todo.updates)
Changing(r) == \E x \in todo.updates : x.rule = r
Progress ==
  Working /\ ~failed /\ Clear =>
    \A k \in DOMAIN news : Handled(news[k].rule) =>
      k \in Pending \/ Present(news[k].rule) \/ Changing(news[k].rule)

\* No port waits for its rule with a uuid.
NothingSkipped ==
  Working /\ Clear =>
    \A k \in Pending : HasPort(news[k].rule) => Key(news[k].rule) \notin DOMAIN news[k].uuids

\* What stays is not among what is to be deleted.
Spares == op = "update" /\ Clear => \A c \in Own : Stays(c) => c.uuid \notin todo.deletes

Calm ==
  /\ CloudOK /\ ListsOK /\ KeysFit /\ Listed /\ HandlerOK /\ UpdatesOK
  /\ Synced /\ PlanOK /\ Progress /\ NothingSkipped /\ Spares
  /\ OkMeansApplied

IInv == ~Shifted => Calm

-----------------------------------------------------------------------------
(* Positions in order.                                                     *)

\* The place of a number among those of a finite set.
LEMMA PlaceFacts ==
  ASSUME NEW S, S \subseteq Nat, IsFiniteSet(S), NEW m \in S
  PROVE  /\ Cardinality({j \in S : j <= m}) \in 1..Cardinality(S)
         /\ \A n \in S : m < n => Cardinality({j \in S : j <= m}) < Cardinality({j \in S : j <= n})
<1> DEFINE Upto(i) == {j \in S : j <= i}
<1>1. \A i : IsFiniteSet(Upto(i)) /\ Cardinality(Upto(i)) \in Nat /\ Cardinality(Upto(i)) <= Cardinality(S)
  <2>1. TAKE i
  <2>2. Upto(i) \in SUBSET S
    OBVIOUS
  <2> HIDE DEF Upto
  <2> QED
    BY <2>2, FS_Subset, FS_CardinalityType
<1>2. m \in Upto(m)
  OBVIOUS
<1>3. ASSUME NEW n \in S, m < n PROVE Upto(m) \in SUBSET Upto(n) /\ n \in Upto(n) /\ n \notin Upto(m)
  <2>1. m \in Nat /\ n \in Nat /\ \A j \in S : j \in Nat
    OBVIOUS
  <2>2. \A j \in S : j <= m => j <= n
    BY <1>3, <2>1
  <2>3. n <= n /\ ~(n <= m)
    BY <1>3, <2>1
  <2> QED
    BY <2>2, <2>3
<1> HIDE DEF Upto
<1>4. Cardinality(Upto(m)) # 0
  BY <1>1, <1>2, FS_EmptySet
<1>5. ASSUME NEW n \in S, m < n PROVE Cardinality(Upto(m)) < Cardinality(Upto(n))
  <2>1. Cardinality(Upto(m)) <= Cardinality(Upto(n)) /\ Cardinality(Upto(m)) # Cardinality(Upto(n))
    BY <1>1, <1>3, <1>5, FS_Subset
  <2> QED
    BY <1>1, <2>1
<1>6. Cardinality(S) \in Nat
  BY FS_CardinalityType
<1>7. Cardinality(Upto(m)) \in 1..Cardinality(S)
  BY <1>1, <1>4, <1>6
<1> QED
  BY <1>5, <1>7 DEF Upto

LEMMA InOrderFacts ==
  ASSUME NEW S, S \subseteq Nat, IsFiniteSet(S)
  PROVE  /\ Cardinality(S) \in Nat /\ InOrder(S) \in [1..Cardinality(S) -> S]
         /\ \A m, n \in 1..Cardinality(S) : m < n => InOrder(S)[m] < InOrder(S)[n]
         /\ \A i \in S : \E n \in 1..Cardinality(S) : InOrder(S)[n] = i
<1>0. \A i \in S : i \in Nat
  OBVIOUS
<1> DEFINE size == Cardinality(S)
           place == [i \in S |-> Cardinality({j \in S : j <= i})]
           inverse == [n \in 1..size |-> CHOOSE i \in S : place[i] = n]
           order == InOrder(S)
<1>1. size \in Nat
  BY FS_CardinalityType
<1>2. place \in [S -> 1..size] /\ \A m, n \in S : m < n => place[m] < place[n]
  BY PlaceFacts
<1> HIDE DEF size, place
<1>3. IsFiniteSet(1..size) /\ Cardinality(1..size) = size
  BY <1>1, FS_Interval
<1>4. \A n \in 1..size : \E i \in S : place[i] = n
  <2>1. \A m, n \in S : place[m] = place[n] => m = n
    BY <1>1, <1>2
  <2>2. place \in Injection(S, 1..size)
    BY <1>2, <2>1 DEF Injection, IsInjective
  <2>3. place \in Surjection(S, 1..size)
    BY <1>3, <2>2, FS_Injection DEF size
  <2> QED
    BY <2>3 DEF Surjection
<1>5. inverse \in [1..size -> S] /\ \A n \in 1..size : place[inverse[n]] = n
  BY <1>4
<1> HIDE DEF inverse
<1>6. \A m, n \in DOMAIN inverse : m < n => inverse[m] < inverse[n]
  <2>1. TAKE m, n \in DOMAIN inverse
  <2>2. m \in 1..size /\ n \in 1..size
    BY <1>5
  <2>3. inverse[m] \in S /\ inverse[n] \in S /\ place[inverse[m]] = m /\ place[inverse[n]] = n
    BY <1>5, <2>2
  <2>4. inverse[m] \in Nat /\ inverse[n] \in Nat
    BY <1>0, <2>3
  <2>5. m \in Nat /\ n \in Nat
    BY <1>1, <2>2
  <2>6. inverse[n] < inverse[m] => n < m
    BY <1>2, <2>3
  <2> QED
    BY <2>3, <2>4, <2>5, <2>6
<1>7. order \in [1..size -> S] /\ \A m, n \in DOMAIN order : m < n => order[m] < order[n]
  BY <1>5, <1>6 DEF InOrder, size
<1> HIDE DEF order
<1>8. \A i \in S : \E n \in 1..size : order[n] = i
  <2>1. \A m, n \in 1..size : order[m] = order[n] => m = n
    <3>1. TAKE m, n \in 1..size
    <3>2. order[m] \in S /\ order[n] \in S /\ DOMAIN order = 1..size
      BY <1>7
    <3>3. order[m] \in Nat /\ order[n] \in Nat
      BY <1>0, <3>2
    <3>4. m \in Nat /\ n \in Nat
      BY <1>1
    <3>5. (m < n => order[m] < order[n]) /\ (n < m => order[n] < order[m])
      BY <1>7, <3>2
    <3> QED
      BY <3>3, <3>4, <3>5
  <2>2. order \in Injection(1..size, S)
    BY <1>7, <2>1 DEF Injection, IsInjective
  <2>3. order \in Surjection(1..size, S)
    BY <1>3, <2>2, FS_Injection DEF size
  <2> QED
    BY <2>3 DEF Surjection
<1> QED
  BY <1>1, <1>7, <1>8 DEF size, order

-----------------------------------------------------------------------------
(* Lists of blocks.                                                        *)

\* Select renumbers the blocks at the positions S.
LEMMA SelectFacts ==
  ASSUME NEW es, NEW S, S \subseteq Nat, IsFiniteSet(S)
  PROVE  /\ Cardinality(S) \in Nat /\ DOMAIN Select(es, S) = 1..Cardinality(S)
         /\ InOrder(S) \in [1..Cardinality(S) -> S]
         /\ \A n \in 1..Cardinality(S) : Select(es, S)[n] = es[InOrder(S)[n]]
         /\ \A m, n \in 1..Cardinality(S) : InOrder(S)[m] = InOrder(S)[n] => m = n
         /\ \A i \in S : \E n \in 1..Cardinality(S) : InOrder(S)[n] = i
<1> DEFINE size == Cardinality(S)
           order == InOrder(S)
<1>1. /\ size \in Nat /\ order \in [1..size -> S]
      /\ \A m, n \in 1..size : m < n => order[m] < order[n]
      /\ \A i \in S : \E n \in 1..size : order[n] = i
  BY InOrderFacts
<1>2. Select(es, S) = [n \in 1..size |-> es[order[n]]]
  BY DEF Select
<1>3. \A i \in S : i \in Nat
  OBVIOUS
<1> HIDE DEF size, order
<1>4. \A m, n \in 1..size : order[m] = order[n] => m = n
  <2>1. TAKE m, n \in 1..size
  <2>2. order[m] \in Nat /\ order[n] \in Nat
    BY <1>1, <1>3
  <2>3. m \in Nat /\ n \in Nat
    BY <1>1
  <2>4. (m < n => order[m] < order[n]) /\ (n < m => order[n] < order[m])
    BY <1>1
  <2> QED
    BY <2>2, <2>3, <2>4
<1> QED
  BY <1>1, <1>2, <1>4 DEF size, order

LEMMA SetToSeqFacts ==
  ASSUME NEW S, IsFiniteSet(S)
  PROVE  /\ Cardinality(S) \in Nat /\ SetToSeq(S) \in [1..Cardinality(S) -> S]
         /\ \A m, n \in 1..Cardinality(S) : SetToSeq(S)[m] = SetToSeq(S)[n] => m = n
<1>1. Cardinality(S) \in Nat /\ ExistsBijection(1..Cardinality(S), S)
  BY FS_CardinalityType
<1>2. \E f \in [1..Cardinality(S) -> S] : IsInjective(f)
  BY <1>1 DEF ExistsBijection, Bijection, Injection
<1>3. SetToSeq(S) \in [1..Cardinality(S) -> S] /\ IsInjective(SetToSeq(S))
  BY <1>2 DEF SetToSeq
<1> QED
  BY <1>1, <1>3 DEF IsInjective

LEMMA ConcatFacts ==
  ASSUME NEW m \in Nat, NEW n \in Nat, NEW s, NEW t, NEW S, s \in [1..m -> S], t \in [1..n -> S]
  PROVE  /\ DOMAIN (s \o t) = 1..(m + n)
         /\ \A i \in 1..m : (s \o t)[i] = s[i]
         /\ \A i \in 1..(m + n) : i > m => i - m \in 1..n /\ (s \o t)[i] = t[i - m]
<1>1. s \in Seq(S) /\ t \in Seq(S) /\ Len(s) = m /\ Len(t) = n
  OBVIOUS
<1>2. DOMAIN (s \o t) = 1..(m + n)
  BY <1>1
<1>3. \A i \in 1..m : (s \o t)[i] = s[i]
  BY <1>1
<1>4. \A i \in 1..(m + n) : i > m => i - m \in 1..n /\ (s \o t)[i] = t[i - m]
  BY <1>1
<1> QED
  BY <1>2, <1>3, <1>4

\* What is in a list of blocks has a natural number for its place.
LEMMA PlacesFacts ==
  ASSUME NEW es, IsList(es), NEW S, S \subseteq DOMAIN es
  PROVE  S \subseteq Nat /\ IsFiniteSet(S)
<1>1. PICK n \in Nat : DOMAIN es = 1..n
  BY DEF IsList
<1>2. IsFiniteSet(1..n)
  BY FS_Interval
<1> QED
  BY <1>1, <1>2, FS_Subset

LEMMA RuleFacts == \A r \in Rules \cup {Foreign} : IsRule(r)
BY NetworkACLRuleAssumption DEF NetworkACLRuleAssumption, IsRule, PortProtocol

\* A port is its own key, and the other keys are no ports.
LEMMA KeyFacts ==
  ASSUME NEW r, IsRule(r), Handled(r)
  PROVE  /\ HasPort(r) => Key(r) = r.port /\ Key(r) \notin Reserved
         /\ ~HasPort(r) => r.port = NoPort /\ Key(r) \in Reserved \ {"unknown"}
         /\ Key(r) # "unknown"
BY DEF IsRule, Handled, HasPort, PortProtocol, Key, Reserved

LEMMA SameKey ==
  ASSUME NEW r, NEW s, IsRule(r), IsRule(s), Handled(r), Handled(s), Key(r) = Key(s)
  PROVE  r.port = s.port
BY KeyFacts

\* A rule that a block wants was made by the resource, under the key of the block.
LEMMA WantedFacts ==
  ASSUME CloudOK, NEW es, Blocks(es), FitsAll(es), NEW i \in DOMAIN es, NEW c \in cloud,
         c.uuid \in Wants(es[i])
  PROVE  /\ Handled(es[i].rule) /\ Wants(es[i]) = {c.uuid}
         /\ c.ours /\ Handled(c.rule) /\ Key(c.rule) = Key(es[i].rule) /\ c.rule.port = es[i].rule.port
<1>1. /\ Handled(es[i].rule) /\ Key(es[i].rule) \in DOMAIN es[i].uuids
      /\ Wants(es[i]) = {es[i].uuids[Key(es[i].rule)]}
  BY DEF Wants
<1>2. c.uuid = es[i].uuids[Key(es[i].rule)]
  BY <1>1
<1>3. Fits(Key(es[i].rule), c)
  BY <1>1, <1>2 DEF FitsAll
<1>4. IsRule(es[i].rule) /\ IsRule(c.rule) /\ (c.ours => Handled(c.rule))
  BY DEF Blocks, CloudOK
<1>5. c.ours /\ Key(c.rule) = Key(es[i].rule)
  BY <1>1, <1>3, <1>4, KeyFacts DEF Fits
<1> QED
  BY <1>1, <1>2, <1>4, <1>5, SameKey

-----------------------------------------------------------------------------
(* Read.                                                                   *)

\* A block that Read keeps shows the rule it wants.
LEMMA ReadBlockFacts ==
  ASSUME CloudOK, NEW es, Blocks(es), FitsAll(es), NEW i \in Kept(es)
  PROVE  \E c \in cloud :
           /\ Found(es, i) = {c} /\ c.ours /\ Handled(c.rule)
           /\ ReadBlock(es, i) = [rule |-> c.rule, uuids |-> es[i].uuids]
           /\ Wants(es[i]) = {c.uuid} /\ Wants(ReadBlock(es, i)) = {c.uuid}
<1>1. i \in DOMAIN es /\ Found(es, i) # {}
  BY DEF Kept
<1>2. PICK c \in cloud : c \in Found(es, i)
  BY <1>1 DEF Found
<1>3. c.uuid \in Wants(es[i])
  BY <1>2 DEF Found
<1>4. /\ Handled(es[i].rule) /\ Wants(es[i]) = {c.uuid}
      /\ c.ours /\ Handled(c.rule) /\ Key(c.rule) = Key(es[i].rule) /\ c.rule.port = es[i].rule.port
  BY <1>1, <1>3, WantedFacts
<1>5. Found(es, i) = {c}
  BY <1>2, <1>4 DEF Found, CloudOK
<1>6. c.rule = [f \in Fields |-> c.rule[f]]
  BY DEF CloudOK, IsRule
<1>7. [c.rule EXCEPT !.port = es[i].rule.port] = c.rule
  BY <1>4, <1>6
<1>8. ReadBlock(es, i) = [rule |-> c.rule, uuids |-> es[i].uuids]
  BY <1>5, <1>7 DEF ReadBlock
<1>9. Wants(ReadBlock(es, i)) = Wants(es[i])
  BY <1>4, <1>8 DEF Wants
<1> QED
  BY <1>4, <1>5, <1>8, <1>9

\* A dummy wants no rule.
LEMMA DummyFacts ==
  ASSUME NEW u
  PROVE  /\ IsRule(Dummy(u).rule) /\ ~Handled(Dummy(u).rule) /\ Wants(Dummy(u)) = {}
         /\ Dummy(u).uuids = [k \in {"unknown"} |-> u]
<1> DEFINE r == Dummy(u).rule
<1>1. r = [number |-> u, proto |-> "unknown", port |-> NoPort, side |-> "", body |-> ""]
  BY DEF Dummy
<1> HIDE DEF r
<1>2. r = [f \in Fields |-> r[f]]
  BY <1>1 DEF Fields
<1>3. r.proto = "unknown" /\ r.port = "none"
  BY <1>1 DEF NoPort
<1>4. ~PortProtocol(r) /\ ~Handled(r)
  BY <1>3 DEF Handled, PortProtocol
<1>5. r.port \notin Reserved /\ r.port = NoPort
  BY <1>3 DEF Reserved, NoPort
<1>6. IsRule(r)
  BY <1>2, <1>5 DEF IsRule
<1> QED
  BY <1>4, <1>6 DEF Wants, Dummy, r

LEMMA DummiesFacts ==
  ASSUME CloudOK, NEW es, NEW managed
  PROVE  \E d \in Nat : /\ Dummies(es, managed) \in [1..d -> {Dummy(c.uuid) : c \in Left(es)}]
<1> DEFINE dummies == {Dummy(c.uuid) : c \in Left(es)}
           make == [c \in Left(es) |-> Dummy(c.uuid)]
<1>1. Left(es) \in SUBSET cloud
  BY DEF Left
<1>2. IsFiniteSet(Left(es))
  BY <1>1, FS_Subset DEF CloudOK
<1>3. make \in Surjection(Left(es), dummies)
  BY DEF Surjection
<1> HIDE DEF make, dummies
<1>4. IsFiniteSet(dummies)
  BY <1>2, <1>3, FS_Surjection
<1>5. CASE managed
  <2>1. Cardinality(dummies) \in Nat /\ SetToSeq(dummies) \in [1..Cardinality(dummies) -> dummies]
    BY <1>4, SetToSeqFacts
  <2>2. Dummies(es, managed) = SetToSeq(dummies)
    BY <1>5 DEF Dummies, dummies
  <2> QED
    BY <2>1, <2>2 DEF dummies
<1>6. CASE ~managed
  <2>1. Dummies(es, managed) = <<>> /\ 0 \in Nat /\ <<>> \in [1..0 -> dummies]
    BY <1>6 DEF Dummies
  <2> QED
    BY <2>1 DEF dummies
<1> QED
  BY <1>5, <1>6

\* What Read returns: k blocks, those it keeps, each once, and then d dummies.
ReadsAs(rs, es, k, d, f) ==
  /\ DOMAIN rs = 1..(k + d)
  /\ \A n \in 1..k : rs[n] = ReadBlock(es, f[n])
  /\ \A m, n \in 1..k : f[m] = f[n] => m = n
  /\ \A i \in Kept(es) : \E n \in 1..k : f[n] = i
  /\ \A n \in 1..(k + d) : n > k => \E c \in Left(es) : rs[n] = Dummy(c.uuid)

LEMMA ReadRulesShape ==
  ASSUME CloudOK, NEW es, Blocks(es), NEW managed
  PROVE  \E k, d \in Nat : \E f \in [1..k -> Kept(es)] : ReadsAs(ReadRules(es, managed), es, k, d, f)
<1> DEFINE dummies == {Dummy(c.uuid) : c \in Left(es)}
           kept == Kept(es)
           blocks == [i \in kept |-> ReadBlock(es, i)]
           all == Range(blocks) \cup dummies
           k == Cardinality(kept)
           first == ReadBlocks(es)
           last == Dummies(es, managed)
<1>1. kept \subseteq Nat /\ IsFiniteSet(kept)
  <2>1. kept \subseteq DOMAIN es
    BY DEF Kept
  <2> QED
    BY <2>1, PlacesFacts DEF Blocks
<1>2. first = Select(blocks, kept)
  BY DEF ReadBlocks
<1>3. PICK d \in Nat : last \in [1..d -> dummies]
  BY DummiesFacts
<1> HIDE DEF kept, k, blocks, first
<1>4. k \in Nat /\ DOMAIN first = 1..k
  BY <1>1, <1>2, SelectFacts DEF k
<1> DEFINE f == InOrder(kept)
<1>5. /\ f \in [1..k -> kept]
      /\ \A n \in 1..k : first[n] = blocks[f[n]]
      /\ \A m, n \in 1..k : f[m] = f[n] => m = n
      /\ \A i \in kept : \E n \in 1..k : f[n] = i
  <2>1. f \in [1..k -> kept]
    BY <1>1, SelectFacts DEF k
  <2>2. \A n \in 1..k : first[n] = blocks[f[n]]
    BY <1>2 DEF Select, k
  <2>3. \A m, n \in 1..k : f[m] = f[n] => m = n
    BY <1>1, SelectFacts DEF k
  <2>4. \A i \in kept : \E n \in 1..k : f[n] = i
    BY <1>1, SelectFacts DEF k
  <2> QED
    BY <2>1, <2>2, <2>3, <2>4
<1> HIDE DEF f
<1>6. \A n \in 1..k : first[n] = ReadBlock(es, f[n]) /\ first[n] \in all
  <2>1. TAKE n \in 1..k
  <2>2. f[n] \in kept /\ first[n] = blocks[f[n]] /\ DOMAIN blocks = kept
    BY <1>5 DEF blocks
  <2>3. blocks[f[n]] = ReadBlock(es, f[n])
    BY <2>2 DEF blocks
  <2> QED
    BY <2>2, <2>3 DEF Range
<1>7. first = [n \in 1..k |-> first[n]]
  <2>1. first = [n \in 1..k |-> blocks[InOrder(kept)[n]]]
    BY <1>2 DEF Select, k
  <2> QED
    BY <2>1
<1>8. first \in [1..k -> all]
  BY <1>6, <1>7
<1>9. last \in [1..d -> all]
  BY <1>3
<1>10. ReadRules(es, managed) = first \o last
  BY DEF ReadRules, first, last
<1> HIDE DEF last, all
<1>11. /\ DOMAIN (first \o last) = 1..(k + d)
       /\ \A i \in 1..k : (first \o last)[i] = first[i]
       /\ \A i \in 1..(k + d) : i > k => i - k \in 1..d /\ (first \o last)[i] = last[i - k]
  BY <1>4, <1>8, <1>9, ConcatFacts
<1>12. \A n \in 1..(k + d) : n > k => \E c \in Left(es) : ReadRules(es, managed)[n] = Dummy(c.uuid)
  BY <1>3, <1>10, <1>11
<1>13. \A n \in 1..k : ReadRules(es, managed)[n] = ReadBlock(es, f[n])
  BY <1>6, <1>10, <1>11
<1>14. /\ f \in [1..k -> Kept(es)] /\ DOMAIN ReadRules(es, managed) = 1..(k + d)
       /\ \A m, n \in 1..k : f[m] = f[n] => m = n
       /\ \A i \in Kept(es) : \E n \in 1..k : f[n] = i
  BY <1>5, <1>10, <1>11 DEF kept
<1>15. ReadsAs(ReadRules(es, managed), es, k, d, f)
  BY <1>12, <1>13, <1>14 DEF ReadsAs
<1> QED
  BY <1>3, <1>4, <1>14, <1>15

\* A set of places has a first one.
LEMMA FirstPlace ==
  ASSUME NEW S, S \subseteq Nat, IsFiniteSet(S), S # {}
  PROVE  \E i \in S : \A j \in S : i <= j
<1> DEFINE size == Cardinality(S)
           order == InOrder(S)
<1>1. /\ size \in Nat /\ order \in [1..size -> S]
      /\ \A m, n \in 1..size : m < n => order[m] < order[n]
      /\ \A i \in S : \E n \in 1..size : order[n] = i
  BY InOrderFacts
<1>2. \A i \in S : i \in Nat
  OBVIOUS
<1>3. size # 0
  BY FS_EmptySet
<1> HIDE DEF size, order
<1>4. 1 \in 1..size
  BY <1>1, <1>3
<1>5. ASSUME NEW j \in S PROVE order[1] <= j
  <2>1. PICK n \in 1..size : order[n] = j
    BY <1>1
  <2>2. n = 1 \/ 1 < n
    BY <1>1
  <2>3. order[1] \in Nat /\ j \in Nat
    BY <1>1, <1>2, <1>4
  <2> QED
    BY <1>1, <1>4, <2>1, <2>2, <2>3
<1> QED
  BY <1>1, <1>4, <1>5

\* A wanted rule that exists is kept by the first block that wants it.
LEMMA KeeperFacts ==
  ASSUME CloudOK, NEW es, Blocks(es), FitsAll(es), NEW c \in cloud, c.uuid \in Wanted(es)
  PROVE  \E i \in Kept(es) : Found(es, i) = {c}
<1> DEFINE S == {i \in DOMAIN es : c.uuid \in Wants(es[i])}
<1>1. S # {}
  BY DEF Wanted
<1>2. S \subseteq Nat /\ IsFiniteSet(S)
  BY PlacesFacts DEF Blocks
<1> HIDE DEF S
<1>3. PICK i \in S : \A j \in S : i <= j
  BY <1>1, <1>2, FirstPlace
<1>4. i \in DOMAIN es /\ c.uuid \in Wants(es[i])
  BY DEF S
<1>5. \A j \in DOMAIN es : j < i => c.uuid \notin Wants(es[j])
  <2>1. SUFFICES ASSUME NEW j \in DOMAIN es, j < i, c.uuid \in Wants(es[j]) PROVE FALSE
    OBVIOUS
  <2>2. j \in S
    BY <2>1 DEF S
  <2>3. i \in Nat /\ j \in Nat
    BY <1>2, <2>2
  <2> QED
    BY <1>3, <2>1, <2>2, <2>3
<1>6. c \in Found(es, i)
  BY <1>4, <1>5 DEF Found
<1>7. i \in Kept(es)
  BY <1>4, <1>6 DEF Kept
<1> QED
  BY <1>6, <1>7, ReadBlockFacts

\* What Read returns is as good as what it was given, and shows what it found.
LEMMA ReadRulesFacts ==
  ASSUME CloudOK, NEW es, Blocks(es), FitsAll(es), NEW managed, Ids(Own) \subseteq Wanted(es)
  PROVE  /\ Blocks(ReadRules(es, managed)) /\ FitsAll(ReadRules(es, managed))
         /\ Ids(Own) \subseteq Wanted(ReadRules(es, managed)) /\ Shows(ReadRules(es, managed))
<1> DEFINE rs == ReadRules(es, managed)
<1>1. PICK k, d \in Nat : \E f \in [1..k -> Kept(es)] : ReadsAs(rs, es, k, d, f)
  BY ReadRulesShape
<1> HIDE DEF rs
<1>2. PICK f \in [1..k -> Kept(es)] :
        /\ DOMAIN rs = 1..(k + d)
        /\ \A n \in 1..k : rs[n] = ReadBlock(es, f[n])
        /\ \A m, n \in 1..k : f[m] = f[n] => m = n
        /\ \A i \in Kept(es) : \E n \in 1..k : f[n] = i
        /\ \A n \in 1..(k + d) : n > k => \E c \in Left(es) : rs[n] = Dummy(c.uuid)
  BY <1>1 DEF ReadsAs
<1>3. \A n \in 1..(k + d) : n \in 1..k \/ n > k
  OBVIOUS
<1>4. ASSUME NEW n \in 1..k
      PROVE  \E c \in cloud :
               /\ Found(es, f[n]) = {c} /\ c.ours /\ Handled(c.rule)
               /\ rs[n] = [rule |-> c.rule, uuids |-> es[f[n]].uuids] /\ Wants(rs[n]) = {c.uuid}
  <2>1. f[n] \in Kept(es) /\ rs[n] = ReadBlock(es, f[n])
    BY <1>2
  <2> QED
    BY <2>1, ReadBlockFacts
<1>5. ASSUME NEW n \in 1..(k + d), n > k PROVE \E c \in cloud : ~c.ours /\ rs[n] = Dummy(c.uuid)
  BY <1>2, <1>5 DEF Left, Own, Ids
<1>6. Blocks(rs)
  <2>1. IsList(rs)
    BY <1>2 DEF IsList
  <2>2. ASSUME NEW n \in DOMAIN rs PROVE IsRule(rs[n].rule)
    <3>1. CASE n \in 1..k
      <4>1. PICK c \in cloud : rs[n] = [rule |-> c.rule, uuids |-> es[f[n]].uuids]
        BY <1>4, <3>1
      <4>2. rs[n].rule = c.rule
        BY <4>1
      <4> QED
        BY <4>2 DEF CloudOK
    <3>2. CASE n > k
      BY <1>2, <1>5, <3>2, DummyFacts
    <3> QED
      BY <1>2, <1>3, <3>1, <3>2
  <2> QED
    BY <2>1, <2>2 DEF Blocks
<1>7. FitsAll(rs)
  <2>1. SUFFICES ASSUME NEW n \in DOMAIN rs, NEW x \in DOMAIN rs[n].uuids, NEW e \in cloud, e.uuid = rs[n].uuids[x]
                 PROVE  Fits(x, e)
    BY DEF FitsAll
  <2>2. CASE n \in 1..k
    <3>1. PICK c \in cloud : rs[n] = [rule |-> c.rule, uuids |-> es[f[n]].uuids]
      BY <1>4, <2>2
    <3>2. rs[n].uuids = es[f[n]].uuids
      BY <3>1
    <3>3. f[n] \in DOMAIN es
      BY <1>2, <2>2 DEF Kept
    <3> QED
      BY <2>1, <3>2, <3>3 DEF FitsAll
  <2>3. CASE n > k
    <3>1. PICK c \in cloud : ~c.ours /\ rs[n] = Dummy(c.uuid)
      BY <1>2, <1>5, <2>3
    <3>2. rs[n].uuids = [y \in {"unknown"} |-> c.uuid]
      BY <3>1, DummyFacts
    <3>3. x = "unknown" /\ e.uuid = c.uuid
      BY <2>1, <3>2
    <3> QED
      BY <3>1, <3>3 DEF CloudOK, Fits
  <2> QED
    BY <1>2, <1>3, <2>2, <2>3
<1>8. Ids(Own) \subseteq Wanted(rs)
  <2>1. SUFFICES ASSUME NEW c \in Own PROVE c.uuid \in Wanted(rs)
    BY DEF Ids
  <2>2. c \in cloud /\ c.uuid \in Wanted(es)
    BY DEF Own, Ids
  <2>3. PICK i \in Kept(es) : Found(es, i) = {c}
    BY <2>2, KeeperFacts
  <2>4. PICK n \in 1..k : f[n] = i
    BY <1>2
  <2>5. Wants(rs[n]) = {c.uuid}
    BY <1>4, <2>3, <2>4
  <2>6. n \in DOMAIN rs
    BY <1>2
  <2> QED
    BY <2>5, <2>6 DEF Wanted
<1>9. Shows(rs)
  <2>1. ASSUME NEW n \in DOMAIN rs, Handled(rs[n].rule)
        PROVE  \E c \in cloud : c.uuid \in Wants(rs[n]) /\ c.rule = rs[n].rule
    <3>1. n \in 1..k
      BY <1>2, <1>3, <1>5, <2>1, DummyFacts
    <3>2. PICK c \in cloud : rs[n] = [rule |-> c.rule, uuids |-> es[f[n]].uuids] /\ Wants(rs[n]) = {c.uuid}
      BY <1>4, <3>1
    <3>3. rs[n].rule = c.rule
      BY <3>2
    <3> QED
      BY <3>2, <3>3
  <2>2. ASSUME NEW m \in DOMAIN rs, NEW n \in DOMAIN rs, Wants(rs[m]) \cap Wants(rs[n]) # {} PROVE m = n
    <3>1. m \in 1..k /\ n \in 1..k
      BY <1>2, <1>3, <1>5, <2>2, DummyFacts
    <3>2. PICK c \in cloud : Found(es, f[m]) = {c} /\ Wants(rs[m]) = {c.uuid}
      BY <1>4, <3>1
    <3>3. PICK e \in cloud : Found(es, f[n]) = {e} /\ Wants(rs[n]) = {e.uuid}
      BY <1>4, <3>1
    <3>4. c = e
      BY <2>2, <3>2, <3>3 DEF CloudOK
    <3>5. f[m] \in DOMAIN es /\ f[n] \in DOMAIN es
      BY <3>1 DEF Kept
    <3>6. f[m] \in Nat /\ f[n] \in Nat
      BY <3>5, PlacesFacts DEF Blocks
    <3>7. c.uuid \in Wants(es[f[m]]) /\ c.uuid \in Wants(es[f[n]])
      BY <3>2, <3>3, <3>4 DEF Found
    <3>8. ~(f[m] < f[n]) /\ ~(f[n] < f[m])
      BY <3>2, <3>3, <3>4, <3>5, <3>7 DEF Found
    <3>9. f[m] = f[n]
      BY <3>6, <3>8
    <3> QED
      BY <1>2, <3>1, <3>9
  <2> QED
    BY <2>1, <2>2 DEF Shows
<1> QED
  BY <1>6, <1>7, <1>8, <1>9 DEF rs

-----------------------------------------------------------------------------
(* The matching of old and new blocks.                                     *)

\* Matching rules are kept under the same key.
LEMMA MatchFacts ==
  ASSUME NEW o, NEW n, Match(o, n)
  PROVE  (Handled(o) <=> Handled(n)) /\ (HasPort(o) <=> HasPort(n)) /\ Key(o) = Key(n)
BY DEF Match, Handled, HasPort, PortProtocol, Key

LEMMA PairFacts ==
  ASSUME NEW olds, NEW plan, NEW p \in Pairs(olds, plan)
  PROVE  /\ p[1] \in DOMAIN olds /\ p[2] \in DOMAIN plan /\ p = <<p[1], p[2]>>
         /\ Match(olds[p[1]].rule, plan[p[2]].rule)
BY DEF Pairs

LEMMA StrictSubset ==
  ASSUME NEW S, IsFiniteSet(S), NEW T, T \subseteq S, NEW x \in S, x \notin T
  PROVE  Cardinality(T) # Cardinality(S)
BY FS_Subset

\* No old block has two new ones.
LEMMA OneNew ==
  ASSUME NEW olds, NEW plan, IsList(plan), NEW p \in Pairs(olds, plan), NEW q \in Pairs(olds, plan),
         p[1] = q[1], p[2] < q[2]
  PROVE  FALSE
<1> DEFINE o == olds[p[1]].rule
           Before(l) == {k \in DOMAIN plan : k < l /\ Match(o, plan[k].rule)}
           Alike(l) == {i \in DOMAIN olds : i < p[1] /\ Match(olds[i].rule, plan[l].rule)}
<1>1. /\ p[2] \in DOMAIN plan /\ q[2] \in DOMAIN plan
      /\ Match(o, plan[p[2]].rule) /\ Match(o, plan[q[2]].rule)
  BY PairFacts
<1>2. /\ Cardinality(Alike(p[2])) = Cardinality(Before(p[2]))
      /\ Cardinality(Alike(q[2])) = Cardinality(Before(q[2]))
  BY DEF Pairs
<1>3. Alike(p[2]) = Alike(q[2])
  BY <1>1 DEF Match, PortProtocol
<1>4. DOMAIN plan \subseteq Nat
  BY PlacesFacts
<1>5. \A k \in DOMAIN plan : k < p[2] => k < q[2]
  BY <1>1, <1>4
<1>6. Before(p[2]) \subseteq Before(q[2]) /\ p[2] \in Before(q[2])
  BY <1>1, <1>5
<1>7. p[2] \notin Before(p[2])
  BY <1>1, <1>4
<1>8. IsFiniteSet(Before(q[2]))
  BY PlacesFacts
<1> HIDE DEF Before, Alike
<1> QED
  BY <1>2, <1>3, <1>6, <1>7, <1>8, StrictSubset

\* No new block has two old ones.
LEMMA OneOld ==
  ASSUME NEW olds, NEW plan, IsList(olds), NEW p \in Pairs(olds, plan), NEW q \in Pairs(olds, plan),
         p[2] = q[2], p[1] < q[1]
  PROVE  FALSE
<1> DEFINE n == plan[p[2]].rule
           Before(l) == {i \in DOMAIN olds : i < l /\ Match(olds[i].rule, n)}
           Alike(l) == {k \in DOMAIN plan : k < p[2] /\ Match(olds[l].rule, plan[k].rule)}
<1>1. /\ p[1] \in DOMAIN olds /\ q[1] \in DOMAIN olds
      /\ Match(olds[p[1]].rule, n) /\ Match(olds[q[1]].rule, n)
  BY PairFacts
<1>2. /\ Cardinality(Before(p[1])) = Cardinality(Alike(p[1]))
      /\ Cardinality(Before(q[1])) = Cardinality(Alike(q[1]))
  BY DEF Pairs
<1>3. Alike(p[1]) = Alike(q[1])
  BY <1>1 DEF Match, PortProtocol
<1>4. DOMAIN olds \subseteq Nat
  BY PlacesFacts
<1>5. \A k \in DOMAIN olds : k < p[1] => k < q[1]
  BY <1>1, <1>4
<1>6. Before(p[1]) \subseteq Before(q[1]) /\ p[1] \in Before(q[1])
  BY <1>1, <1>5
<1>7. p[1] \notin Before(p[1])
  BY <1>1, <1>4
<1>8. IsFiniteSet(Before(q[1]))
  BY PlacesFacts
<1> HIDE DEF Before, Alike
<1> QED
  BY <1>2, <1>3, <1>6, <1>7, <1>8, StrictSubset

\* The matching pairs each block with at most one.
LEMMA PairsFacts ==
  ASSUME NEW olds, NEW plan, IsList(olds), IsList(plan),
         NEW p \in Pairs(olds, plan), NEW q \in Pairs(olds, plan), p[1] = q[1] \/ p[2] = q[2]
  PROVE  p = q
<1>1. /\ p[1] \in DOMAIN olds /\ p[2] \in DOMAIN plan /\ p = <<p[1], p[2]>>
      /\ q[1] \in DOMAIN olds /\ q[2] \in DOMAIN plan /\ q = <<q[1], q[2]>>
  BY PairFacts
<1>2. DOMAIN olds \subseteq Nat /\ DOMAIN plan \subseteq Nat
  BY PlacesFacts
<1>3. p[1] \in Nat /\ p[2] \in Nat /\ q[1] \in Nat /\ q[2] \in Nat
  BY <1>1, <1>2
<1>4. ASSUME p[1] = q[1] PROVE p[2] = q[2]
  <2>1. ~(p[2] < q[2]) /\ ~(q[2] < p[2])
    BY <1>4, OneNew
  <2> QED
    BY <1>3, <2>1
<1>5. ASSUME p[2] = q[2] PROVE p[1] = q[1]
  <2>1. ~(p[1] < q[1]) /\ ~(q[1] < p[1])
    BY <1>5, OneOld
  <2> QED
    BY <1>3, <2>1
<1> QED
  BY <1>1, <1>4, <1>5

-----------------------------------------------------------------------------
(* States without a handler.                                               *)

\* A state that knows every rule of the resource.
Good(es) == Blocks(es) /\ FitsAll(es) /\ Ids(Own) \subseteq Wanted(es)

\* No handler is at work.
Still ==
  /\ op = "idle" /\ todo = Nothing /\ news = <<>>
  /\ DOMAIN stage = {} /\ DOMAIN tries = {} /\ ~failed

LEMMA NothingFacts ==
  /\ DOMAIN Nothing = CallKinds
  /\ Nothing.deletes = {} /\ Nothing.updates = {} /\ Nothing.creates = {}
BY DEF Nothing, CallKinds

LEMMA EmptyList == DOMAIN <<>> = {} /\ Blocks(<<>>) /\ FitsAll(<<>>) /\ Wanted(<<>>) = {}
<1>1. DOMAIN <<>> = {} /\ DOMAIN <<>> = 1..0 /\ 0 \in Nat
  OBVIOUS
<1>2. IsList(<<>>)
  BY <1>1 DEF IsList
<1> QED
  BY <1>1, <1>2 DEF Blocks, FitsAll, Wanted

LEMMA StopFacts == Stop => Still'
<1>1. DOMAIN NoJobs = {} /\ DOMAIN Pool!Spawn({}) = {}
  BY DEF NoJobs, Pool!Spawn
<1> QED
  BY <1>1 DEF Stop, Still

LEMMA StillFacts == Calm /\ Idle => Still
BY DEF Calm, HandlerOK, Idle, Still

LEMMA StaysStill == Calm /\ Idle /\ UNCHANGED Handler => Still'
BY StillFacts DEF Still, Handler

\* A step that ends in such a state and makes no rule.
LEMMA Resting ==
  ASSUME Calm, cloud' = cloud, Still', config'.rules \in Seq(Rules), Good(saved'.rules),
         saved'.id \/ saved'.rules = <<>>, fresh' => Shows(saved'.rules), OkMeansApplied'
  PROVE  Calm'
<1>1. CloudOK'
  BY DEF Calm, CloudOK
<1>2. ListsOK'
  BY EmptyList DEF Still, Good, ListsOK
<1>3. KeysFit'
  <2>1. \A es : FitsAll(es)' <=> FitsAll(es)
    BY DEF FitsAll
  <2> QED
    BY <2>1, EmptyList DEF Still, Good, KeysFit, FitsAll
<1>4. Listed'
  BY DEF Still, Good, Listed, Idle, Own, Ids
<1>5. HandlerOK'
  BY EmptyList, NothingFacts DEF Still, HandlerOK
<1>6. UpdatesOK'
  BY NothingFacts DEF Still, UpdatesOK
<1>7. Synced'
  BY DEF Synced, Shows
<1>8. PlanOK' /\ Progress' /\ NothingSkipped' /\ Spares'
  BY DEF Still, PlanOK, Progress, NothingSkipped, Spares, Working
<1> QED
  BY <1>1, <1>2, <1>3, <1>4, <1>5, <1>6, <1>7, <1>8 DEF Calm

LEMMA ReadStateFacts ==
  ASSUME Calm, NEW es, Good(es), NEW tainted, NEW managed
  PROVE  /\ Good(ReadState(es, tainted, managed).rules) /\ Shows(ReadState(es, tainted, managed).rules)
         /\ \/ ReadState(es, tainted, managed).id
            \/ ReadState(es, tainted, managed).rules = <<>>
<1> DEFINE rs == ReadRules(es, managed)
<1>1. Good(rs) /\ Shows(rs)
  BY ReadRulesFacts DEF Calm, Good
<1>2. Gone.rules = <<>>
  BY DEF Gone
<1>3. State(rs, tainted, managed).rules = rs /\ State(rs, tainted, managed).id
  BY DEF State
<1> HIDE DEF rs
<1>4. ReadState(es, tainted, managed) = IF rs = <<>> THEN Gone ELSE State(rs, tainted, managed)
  BY DEF ReadState, rs
<1>5. CASE rs = <<>>
  BY <1>1, <1>2, <1>4, <1>5
<1>6. CASE rs # <<>>
  BY <1>1, <1>3, <1>4, <1>6
<1> QED
  BY <1>5, <1>6

LEMMA IdleFacts ==
  ASSUME Calm, Idle
  PROVE  Good(saved.rules) /\ (~saved.id => Own = {})
<1>1. Good(saved.rules)
  BY DEF Calm, ListsOK, KeysFit, Listed, Good, Ids
<1>2. saved.id \/ saved.rules = <<>>
  BY DEF Calm, HandlerOK
<1> QED
  BY <1>1, <1>2, EmptyList DEF Good, Ids

-----------------------------------------------------------------------------
(* Faults.                                                                 *)

\* What was injected stays injected.
Remembers == faults.kinds \subseteq faults'.kinds

LEMMA FaultFacts ==
  ASSUME NEW kind, Fault(kind)
  PROVE  Remembers /\ (kind \in Blinding \cup {"outOfBand"} => Shifted')
BY DEF Fault, Remembers, Shifted, Blinded

LEMMA NoteFacts ==
  ASSUME NEW kinds, Note(kinds)
  PROVE  Remembers /\ faults'.kinds = faults.kinds \cup kinds
BY DEF Note, Remembers

LEMMA NoFaultFacts == NoFault => Remembers
BY DEF NoFault, Remembers

LEMMA ClearFacts ==
  ASSUME Remembers
  PROVE  (~Shifted' => ~Shifted) /\ (Clear' => Clear /\ ~Shifted')
BY DEF Remembers, Shifted, Blinded, Clear

-----------------------------------------------------------------------------
(* Reads, and what Terraform and the environment do between operations.    *)

\* Every configured rule is in the ACL.
InPlace == {r \in Range(config.rules) : Handled(r)} \subseteq {c.rule : c \in cloud}

LEMMA Finishing ==
  ASSUME Calm, NEW es, Good(es), FinishWithRead(es), ~Shifted', UNCHANGED <<cloud, config>>, Still',
         Clear' => InPlace
  PROVE  Calm'
<1>1. Save(ReadState(es, FALSE, config.managed), "ok")
  <2>1. ~Fault("outage") /\ ~Fault("apiError")
    BY FaultFacts DEF Blinding
  <2> QED
    BY <2>1 DEF FinishWithRead
<1>2. saved' = ReadState(es, FALSE, config.managed) /\ fresh' = FALSE
  BY <1>1 DEF Save
<1>3. Good(saved'.rules) /\ (saved'.id \/ saved'.rules = <<>>)
  BY <1>2, ReadStateFacts
<1>4. OkMeansApplied'
  BY DEF OkMeansApplied, InPlace
<1>5. config'.rules \in Seq(Rules)
  BY DEF Calm, ListsOK
<1> QED
  BY <1>2, <1>3, <1>4, <1>5, Resting

LEMMA RefreshCalm ==
  ASSUME Calm, Refresh, ~Shifted'
  PROVE  Calm'
<1>1. saved' = ReadState(saved.rules, saved.tainted, saved.managed)
  BY FaultFacts DEF Refresh, Blinding
<1>2. Idle /\ UNCHANGED <<cloud, config, Handler>> /\ told' = "read"
  BY DEF Refresh
<1>3. Good(saved'.rules) /\ Shows(saved'.rules) /\ (saved'.id \/ saved'.rules = <<>>)
  BY <1>1, <1>2, IdleFacts, ReadStateFacts
<1>4. OkMeansApplied' /\ config'.rules \in Seq(Rules)
  BY <1>2 DEF OkMeansApplied, Calm, ListsOK
<1> QED
  BY <1>2, <1>3, <1>4, StaysStill, Resting

LEMMA EditCalm ==
  ASSUME Calm, Edit
  PROVE  Calm'
<1>1. Idle /\ UNCHANGED <<cloud, saved, Handler>> /\ told' = "none" /\ fresh' = FALSE
  BY DEF Edit
<1>2. config'.rules \in Seq(Rules)
  <2>1. CASE config' = Absent
    <3>1. <<>> \in Seq(Rules)
      OBVIOUS
    <3> QED
      BY <2>1, <3>1 DEF Absent
  <2>2. ASSUME NEW c \in Configs, config' = [present |-> TRUE, managed |-> c.managed, rules |-> c.rules]
        PROVE  config'.rules \in Seq(Rules)
    BY <2>2, NetworkACLRuleAssumption DEF NetworkACLRuleAssumption
  <2> QED
    BY <2>1, <2>2 DEF Edit
<1>3. Good(saved'.rules) /\ (saved'.id \/ saved'.rules = <<>>)
  BY <1>1, IdleFacts DEF Calm, HandlerOK
<1>4. OkMeansApplied'
  BY <1>1 DEF OkMeansApplied
<1> QED
  BY <1>1, <1>2, <1>3, <1>4, StaysStill, Resting

LEMMA ImportCalm ==
  ASSUME Calm, Import
  PROVE  Calm'
<1>1. /\ Idle /\ ~saved.id /\ UNCHANGED <<cloud, config, Handler>>
      /\ saved' = State(<<>>, FALSE, TRUE) /\ told' = "none" /\ fresh' = FALSE
  BY DEF Import, Save
<1>2. saved'.rules = <<>>
  BY <1>1 DEF State
<1>3. Good(saved'.rules)
  BY <1>1, <1>2, IdleFacts, EmptyList DEF Good, Ids
<1>4. OkMeansApplied' /\ config'.rules \in Seq(Rules)
  BY <1>1 DEF OkMeansApplied, Calm, ListsOK
<1> QED
  BY <1>1, <1>2, <1>3, <1>4, StaysStill, Resting

-----------------------------------------------------------------------------
(* Handlers up to their first call.                                        *)

LEMMA PlannedFacts ==
  ASSUME Calm
  PROVE  /\ DOMAIN Planned = DOMAIN config.rules /\ Plain(Planned) = config.rules
         /\ \A k \in DOMAIN Planned : Planned[k].rule = config.rules[k] /\ config.rules[k] \in Rules
         /\ \A k \in DOMAIN Planned : k \notin DOMAIN saved.rules => Planned[k].uuids = NoUuids
         /\ Blocks(Planned) /\ FitsAll(Planned)
<1>1. config.rules \in Seq(Rules) /\ FitsAll(saved.rules)
  BY DEF Calm, ListsOK, KeysFit
<1>2. DOMAIN config.rules = 1..Len(config.rules) /\ Len(config.rules) \in Nat
  BY <1>1
<1>3. \A k \in DOMAIN config.rules : config.rules[k] \in Rules
  BY <1>1
<1>4. config.rules = [k \in DOMAIN config.rules |-> config.rules[k]]
  BY <1>1
<1>5. DOMAIN Planned = DOMAIN config.rules /\ \A k \in DOMAIN Planned : Planned[k].rule = config.rules[k]
  BY DEF Planned
<1>6. Plain(Planned) = config.rules
  BY <1>4, <1>5 DEF Plain
<1>7. Blocks(Planned)
  BY <1>2, <1>3, <1>5, RuleFacts DEF Blocks, IsList
<1>8. ASSUME NEW k \in DOMAIN Planned
      PROVE  Planned[k].uuids = IF k \in DOMAIN saved.rules THEN saved.rules[k].uuids ELSE NoUuids
  BY DEF Planned
<1>9. FitsAll(Planned)
  <2>1. DOMAIN NoUuids = {}
    BY DEF NoUuids
  <2> QED
    BY <1>1, <1>8, <2>1 DEF FitsAll
<1> QED
  BY <1>3, <1>5, <1>6, <1>7, <1>8, <1>9

\* What a handler starts with, but for what it is to do with the blocks.
LEMMA Beginning ==
  ASSUME Calm, Idle, NEW phase \in {"create", "update", "migrate", "destroy"}, NEW blocks, NEW jobs,
         Begin(phase, blocks, jobs), UNCHANGED <<cloud, config, saved>>,
         Blocks(blocks), FitsAll(blocks), jobs.creates \subseteq DOMAIN blocks,
         DOMAIN jobs = CallKinds, jobs.deletes \subseteq UuidsIn(saved.rules),
         phase = "destroy" => jobs.creates = {}, phase # "update" => jobs.updates = {},
         \A c \in Own :
           \/ c.uuid \in jobs.deletes
           \/ phase # "destroy" /\ \E k \in DOMAIN blocks \ jobs.creates : c.uuid \in Wants(blocks[k])
  PROVE  /\ CloudOK' /\ ListsOK' /\ KeysFit' /\ Listed' /\ HandlerOK' /\ Synced' /\ OkMeansApplied'
         /\ Pending' = jobs.creates
<1>1. /\ op' = phase /\ news' = blocks /\ todo' = jobs /\ ~failed'
      /\ UNCHANGED <<cloud, config, saved, tries, stage>> /\ ~Idle'
  BY DEF Begin, Idle
<1>2. Still
  BY StillFacts
<1>3. CloudOK' /\ ListsOK' /\ Synced' /\ OkMeansApplied'
  BY <1>1 DEF Calm, CloudOK, ListsOK, Synced, OkMeansApplied
<1>4. KeysFit'
  BY <1>1 DEF Calm, KeysFit, FitsAll
<1>5. Pending' = jobs.creates
  BY <1>1, <1>2 DEF Pending, Still
<1>6. Listed'
  BY <1>1, <1>5 DEF Listed, Own
<1>7. HandlerOK'
  BY <1>1, <1>2 DEF HandlerOK, Calm, Still
<1> QED
  BY <1>3, <1>4, <1>5, <1>6, <1>7

\* A handler that makes every block anew.
LEMMA MakesAll ==
  ASSUME Calm, Idle, NEW phase \in {"create", "migrate"}, NEW blocks, NEW jobs,
         Begin(phase, blocks, jobs), UNCHANGED <<cloud, config, saved>>,
         Blocks(blocks), Plain(blocks) = config.rules, \A k \in DOMAIN blocks : blocks[k].uuids = NoUuids,
         DOMAIN jobs = CallKinds, jobs.creates = DOMAIN blocks, jobs.updates = {},
         Ids(Own) \subseteq jobs.deletes, jobs.deletes \subseteq UuidsIn(saved.rules)
  PROVE  Calm'
<1>1. DOMAIN NoUuids = {}
  BY DEF NoUuids
<1>2. FitsAll(blocks)
  BY <1>1 DEF FitsAll
<1>3. /\ CloudOK' /\ ListsOK' /\ KeysFit' /\ Listed' /\ HandlerOK' /\ Synced' /\ OkMeansApplied'
      /\ Pending' = jobs.creates
  <2>1. \A c \in Own : c.uuid \in jobs.deletes
    BY DEF Ids
  <2> QED
    BY <1>2, <2>1, Beginning
<1>4. op' = phase /\ news' = blocks /\ todo' = jobs /\ config' = config
  BY DEF Begin
<1>5. UpdatesOK' /\ PlanOK' /\ Spares'
  BY <1>4 DEF UpdatesOK, PlanOK, Spares
<1>6. Progress' /\ NothingSkipped'
  BY <1>1, <1>3, <1>4 DEF Progress, NothingSkipped
<1> QED
  BY <1>3, <1>5, <1>6 DEF Calm

LEMMA CreateCalm ==
  ASSUME Calm, Create, ~Shifted'
  PROVE  Calm'
<1>1. Idle /\ ~saved.id /\ UNCHANGED <<cloud, config>>
  BY DEF Create
<1>2. Own = {} /\ saved.rules = <<>>
  BY <1>1, IdleFacts DEF Calm, HandlerOK
<1>3. CASE config.rules # <<>>
  <2> DEFINE jobs == [Nothing EXCEPT !.creates = DOMAIN Planned]
  <2>1. Begin("create", Planned, jobs) /\ UNCHANGED saved
    BY <1>3 DEF Create
  <2>2. DOMAIN jobs = CallKinds /\ jobs.creates = DOMAIN Planned /\ jobs.updates = {} /\ jobs.deletes = {}
    BY DEF Nothing, CallKinds
  <2>3. \A k \in DOMAIN Planned : Planned[k].uuids = NoUuids
    BY <1>2, EmptyList, PlannedFacts
  <2>4. Ids(Own) \subseteq jobs.deletes
    BY <1>2 DEF Ids
  <2> HIDE DEF jobs
  <2> QED
    BY <1>1, <2>1, <2>2, <2>3, <2>4, PlannedFacts, MakesAll
<1>4. CASE config.rules = <<>>
  <2>1. FinishWithRead(<<>>) /\ UNCHANGED Handler
    BY <1>4 DEF Create
  <2>2. Good(<<>>)
    BY <1>2, EmptyList DEF Good, Ids
  <2>3. InPlace
    BY <1>4, EmptyList DEF InPlace, Range
  <2> QED
    BY <1>1, <2>1, <2>2, <2>3, StaysStill, Finishing
<1> QED
  BY <1>3, <1>4

LEMMA DeleteCalm ==
  ASSUME Calm, Delete
  PROVE  Calm'
<1> DEFINE jobs == [Nothing EXCEPT !.deletes = UuidsIn(saved.rules)]
<1>1. Idle /\ Begin("destroy", saved.rules, jobs) /\ UNCHANGED <<cloud, config, saved>>
  BY DEF Delete
<1>2. /\ DOMAIN jobs = CallKinds
      /\ jobs.deletes = UuidsIn(saved.rules) /\ jobs.creates = {} /\ jobs.updates = {}
  BY DEF Nothing, CallKinds
<1>3. Good(saved.rules)
  BY <1>1, IdleFacts
<1> HIDE DEF jobs
<1>4. \A c \in Own : c.uuid \in jobs.deletes
  BY <1>2, <1>3 DEF Good, Ids, Wanted, Wants, UuidsIn, Range
<1>5. CloudOK' /\ ListsOK' /\ KeysFit' /\ Listed' /\ HandlerOK' /\ Synced' /\ OkMeansApplied'
  BY <1>1, <1>2, <1>3, <1>4, Beginning DEF Good
<1>6. op' = "destroy" /\ todo' = jobs
  BY <1>1 DEF Begin
<1>7. UpdatesOK' /\ PlanOK' /\ Progress' /\ NothingSkipped' /\ Spares'
  BY <1>2, <1>6 DEF UpdatesOK, PlanOK, Progress, NothingSkipped, Spares, Working
<1> QED
  BY <1>5, <1>7 DEF Calm

\* A migration deletes everything, and makes everything anew.
LEMMA MigratingUpdateCalm ==
  ASSUME Calm, Idle, MigratingUpdate, UNCHANGED <<cloud, config, saved>>
  PROVE  Calm'
<1> DEFINE jobs == [deletes |-> UuidsIn(saved.rules), updates |-> {}, creates |-> DOMAIN Planned]
           blocks == WithoutUuids(Planned)
<1>1. Begin("migrate", blocks, jobs)
  BY DEF MigratingUpdate
<1>2. /\ DOMAIN jobs = CallKinds
      /\ jobs.deletes = UuidsIn(saved.rules) /\ jobs.updates = {} /\ jobs.creates = DOMAIN Planned
  BY DEF CallKinds
<1>3. /\ DOMAIN blocks = DOMAIN Planned
      /\ \A k \in DOMAIN blocks : blocks[k].rule = Planned[k].rule /\ blocks[k].uuids = NoUuids
  BY DEF WithoutUuids
<1> HIDE DEF jobs, blocks
<1>4. Plain(blocks) = Plain(Planned)
  BY <1>3 DEF Plain
<1>5. Blocks(blocks)
  BY <1>3, PlannedFacts DEF Blocks, IsList
<1>6. Ids(Own) \subseteq jobs.deletes
  BY <1>2, IdleFacts DEF Good, Wanted, Wants, UuidsIn, Range
<1> QED
  BY <1>1, <1>2, <1>3, <1>4, <1>5, <1>6, PlannedFacts, MakesAll

-----------------------------------------------------------------------------
(* performNormalRuleUpdates.                                               *)

\* Two blocks that want a rule in common are one, and a handled block shows a rule.
LEMMA ShowsFacts ==
  ASSUME Calm, Idle, fresh
  PROVE  /\ \A i, j \in DOMAIN saved.rules : Wants(saved.rules[i]) \cap Wants(saved.rules[j]) # {} => i = j
         /\ \A i \in DOMAIN saved.rules : Handled(saved.rules[i].rule) =>
              \E c \in cloud : c.uuid \in Wants(saved.rules[i]) /\ c.rule = saved.rules[i].rule
BY DEF Calm, Synced, Shows

LEMMA MatchedFacts ==
  ASSUME Calm, NEW pairs, pairs = Pairs(saved.rules, Planned)
  PROVE  /\ \A p \in pairs : /\ p[1] \in DOMAIN saved.rules /\ p[2] \in DOMAIN Planned
                             /\ Match(saved.rules[p[1]].rule, Planned[p[2]].rule)
         /\ \A p, q \in pairs : p[1] = q[1] \/ p[2] = q[2] => p = q
         /\ DOMAIN Matched(Planned, pairs) = DOMAIN Planned
         /\ \A k \in DOMAIN Planned : Matched(Planned, pairs)[k].rule = Planned[k].rule
         /\ \A p \in pairs : /\ Matched(Planned, pairs)[p[2]].uuids = saved.rules[p[1]].uuids
                             /\ Wants(Matched(Planned, pairs)[p[2]]) = Wants(saved.rules[p[1]])
         /\ \A k \in Unpaired(pairs) : k \in DOMAIN Planned /\ Matched(Planned, pairs)[k] = Planned[k]
<1> DEFINE blocks == Matched(Planned, pairs)
<1>1. \A p \in pairs : /\ p[1] \in DOMAIN saved.rules /\ p[2] \in DOMAIN Planned
                       /\ Match(saved.rules[p[1]].rule, Planned[p[2]].rule)
  BY PairFacts
<1>2. \A p, q \in pairs : p[1] = q[1] \/ p[2] = q[2] => p = q
  <2>1. IsList(saved.rules) /\ IsList(Planned)
    BY PlannedFacts DEF Calm, ListsOK, Blocks
  <2> QED
    BY <2>1, PairsFacts
<1>3. DOMAIN blocks = DOMAIN Planned
  BY DEF Matched
<1>4. \A k \in DOMAIN Planned : blocks[k].rule = Planned[k].rule
  BY DEF Matched
<1>5. \A k \in Unpaired(pairs) : k \in DOMAIN Planned /\ blocks[k] = Planned[k]
  BY DEF Matched, Unpaired
<1> HIDE DEF blocks
<1>6. ASSUME NEW p \in pairs PROVE blocks[p[2]].uuids = saved.rules[p[1]].uuids
  <2> DEFINE pair == CHOOSE q \in pairs : q[2] = p[2]
  <2>1. pair = p
    BY <1>2
  <2>2. p[2] \in DOMAIN Planned /\ \E q \in pairs : q[2] = p[2]
    BY <1>1
  <2>3. blocks[p[2]] = [rule |-> Planned[p[2]].rule,
                        uuids |-> saved.rules[pair[1]].uuids]
    BY <2>2 DEF Matched, blocks
  <2> HIDE DEF pair
  <2> QED
    BY <2>1, <2>3
<1>7. ASSUME NEW p \in pairs PROVE Wants(blocks[p[2]]) = Wants(saved.rules[p[1]])
  <2>1. Match(saved.rules[p[1]].rule, blocks[p[2]].rule)
    BY <1>1, <1>4
  <2> QED
    BY <1>6, <2>1, MatchFacts DEF Wants
<1> QED
  BY <1>1, <1>2, <1>3, <1>4, <1>5, <1>6, <1>7 DEF blocks

\* Rules that go to the uuids their blocks want.
LEMMA UpdatesFacts ==
  ASSUME Calm, Idle, fresh, NEW pairs, pairs = Pairs(saved.rules, Planned),
         NEW target, DOMAIN target \subseteq pairs, ~Misdirected(target)
  PROVE  /\ \A p \in DOMAIN target : target[p] \in Wants(saved.rules[p[1]])
         /\ \A p, q \in DOMAIN target : target[p] = target[q] => p = q
         /\ Updates(target) = {[uuid |-> target[p], rule |-> Planned[p[2]].rule] : p \in DOMAIN target}
<1>1. \A p \in DOMAIN target : target[p] \in Wants(saved.rules[p[1]])
  BY DEF Misdirected
<1>2. ASSUME NEW p \in DOMAIN target, NEW q \in DOMAIN target, target[p] = target[q] PROVE p = q
  <2>1. p \in pairs /\ q \in pairs
    OBVIOUS
  <2>2. p[1] \in DOMAIN saved.rules /\ q[1] \in DOMAIN saved.rules
    BY <2>1, MatchedFacts
  <2>3. Wants(saved.rules[p[1]]) \cap Wants(saved.rules[q[1]]) # {}
    BY <1>1, <1>2
  <2>4. p[1] = q[1]
    BY <2>2, <2>3, ShowsFacts
  <2> QED
    BY <2>1, <2>4, MatchedFacts
<1>3. ASSUME NEW p \in DOMAIN target, NEW q \in DOMAIN target, q[1] > p[1] PROVE target[q] # target[p]
  <2>1. p \in pairs /\ p[1] \in DOMAIN saved.rules
    BY MatchedFacts
  <2>2. p[1] \in Nat
    BY <2>1, PlacesFacts DEF Calm, ListsOK, Blocks
  <2>3. p # q
    BY <1>3, <2>2
  <2> QED
    BY <1>2, <2>3
<1>4. {q \in DOMAIN target : \A x \in DOMAIN target : x[1] > q[1] => target[x] # target[q]} = DOMAIN target
  BY <1>3
<1>5. Updates(target) = {[uuid |-> target[p], rule |-> Planned[p[2]].rule] : p \in DOMAIN target}
  BY <1>4 DEF Updates
<1> QED
  BY <1>1, <1>2, <1>5

\* What an update is about to do.
Jobs(pairs, target) ==
  [deletes |-> UNION {Range(saved.rules[i].uuids) : i \in Unmatched(pairs)},
   updates |-> Updates(target), creates |-> Unpaired(pairs)]

Starts(pairs, target) ==
  /\ Calm /\ Idle /\ fresh /\ UNCHANGED <<cloud, config, saved>>
  /\ pairs = Pairs(saved.rules, Planned)
  /\ DOMAIN target = {p \in pairs : /\ NeedsUpdate(saved.rules[p[1]].rule, Planned[p[2]].rule)
                                    /\ saved.rules[p[1]].uuids # NoUuids}
  /\ Begin("update", Matched(Planned, pairs), Jobs(pairs, target))
  /\ ~Misdirected(target) /\ (Clear' => Clear /\ ~Confused(pairs))

\* Every rule of the resource is deleted, or wanted by the new block of a pair.
LEMMA UpdateBegins ==
  ASSUME NEW pairs, NEW target, Starts(pairs, target)
  PROVE  /\ CloudOK' /\ ListsOK' /\ KeysFit' /\ Listed' /\ HandlerOK' /\ Synced' /\ OkMeansApplied'
         /\ Pending' = Unpaired(pairs)
<1> DEFINE blocks == Matched(Planned, pairs)
           jobs == Jobs(pairs, target)
<1>1. /\ Calm /\ Idle /\ UNCHANGED <<cloud, config, saved>> /\ Begin("update", blocks, jobs)
      /\ pairs = Pairs(saved.rules, Planned)
  BY DEF Starts
<1>2. /\ jobs.deletes = UNION {Range(saved.rules[i].uuids) : i \in Unmatched(pairs)}
      /\ jobs.creates = Unpaired(pairs) /\ DOMAIN jobs = CallKinds
  BY DEF Jobs, CallKinds
<1>3. /\ \A p \in pairs : p[1] \in DOMAIN saved.rules /\ p[2] \in DOMAIN Planned
      /\ DOMAIN blocks = DOMAIN Planned
      /\ \A k \in DOMAIN Planned : blocks[k].rule = Planned[k].rule
      /\ \A p \in pairs : /\ blocks[p[2]].uuids = saved.rules[p[1]].uuids
                          /\ Wants(blocks[p[2]]) = Wants(saved.rules[p[1]])
      /\ \A k \in Unpaired(pairs) : k \in DOMAIN Planned /\ blocks[k] = Planned[k]
  BY <1>1, MatchedFacts
<1>4. FitsAll(saved.rules) /\ FitsAll(Planned) /\ Blocks(Planned)
  BY <1>1, PlannedFacts DEF Calm, KeysFit
<1> HIDE DEF blocks, jobs
<1>5. Blocks(blocks)
  BY <1>3, <1>4 DEF Blocks, IsList
<1>6. FitsAll(blocks)
  <2>1. SUFFICES ASSUME NEW k \in DOMAIN Planned
                 PROVE  \A x \in DOMAIN blocks[k].uuids : \A c \in cloud : c.uuid = blocks[k].uuids[x] => Fits(x, c)
    BY <1>3 DEF FitsAll
  <2>2. CASE k \in Unpaired(pairs)
    BY <1>3, <1>4, <2>2 DEF FitsAll
  <2>3. CASE k \notin Unpaired(pairs)
    <3>1. PICK p \in pairs : p[2] = k
      BY <2>3 DEF Unpaired
    <3> QED
      BY <1>3, <1>4, <3>1 DEF FitsAll
  <2> QED
    BY <2>2, <2>3
<1>7. ASSUME NEW c \in Own
      PROVE  \/ c.uuid \in jobs.deletes
             \/ \E k \in DOMAIN blocks \ jobs.creates : c.uuid \in Wants(blocks[k])
  <2>1. PICK i \in DOMAIN saved.rules : c.uuid \in Wants(saved.rules[i])
    BY <1>1, IdleFacts DEF Good, Ids, Wanted
  <2>2. CASE i \in Unmatched(pairs)
    <3>1. c.uuid \in Range(saved.rules[i].uuids)
      BY <2>1 DEF Wants, Range
    <3> QED
      BY <1>2, <2>2, <3>1
  <2>3. CASE i \notin Unmatched(pairs)
    <3>1. PICK p \in pairs : p[1] = i
      BY <2>3 DEF Unmatched
    <3>2. p[2] \in DOMAIN blocks /\ p[2] \notin jobs.creates
      BY <1>2, <1>3 DEF Unpaired
    <3> QED
      BY <1>3, <2>1, <3>1, <3>2
  <2> QED
    BY <2>2, <2>3
<1>8. jobs.creates \subseteq DOMAIN blocks /\ jobs.deletes \subseteq UuidsIn(saved.rules)
  BY <1>2, <1>3 DEF Unmatched, UuidsIn
<1>9. /\ CloudOK' /\ ListsOK' /\ KeysFit' /\ Listed' /\ HandlerOK' /\ Synced' /\ OkMeansApplied'
      /\ Pending' = jobs.creates
  BY <1>1, <1>2, <1>5, <1>6, <1>7, <1>8, Beginning
<1> QED
  BY <1>2, <1>9

\* What the updates change is what their blocks want, and of the same kind.
LEMMA UpdateChanges ==
  ASSUME NEW pairs, NEW target, Starts(pairs, target)
  PROVE  UpdatesOK'
<1>1. /\ Calm /\ Idle /\ fresh /\ cloud' = cloud /\ pairs = Pairs(saved.rules, Planned)
      /\ DOMAIN target \subseteq pairs /\ ~Misdirected(target)
  BY DEF Starts
<1>2. todo'.updates = {[uuid |-> target[p], rule |-> Planned[p[2]].rule] : p \in DOMAIN target}
  BY <1>1, UpdatesFacts DEF Starts, Begin, Jobs
<1>3. /\ \A p, q \in DOMAIN target : target[p] = target[q] => p = q
      /\ \A p \in DOMAIN target : target[p] \in Wants(saved.rules[p[1]])
  BY <1>1, UpdatesFacts
<1>4. \A x, y \in todo'.updates : x.uuid = y.uuid => x = y
  BY <1>2, <1>3
<1>5. ASSUME NEW p \in DOMAIN target
      PROVE  /\ IsRule(Planned[p[2]].rule)
             /\ \A c \in cloud : c.uuid = target[p] =>
                  c.ours /\ Handled(Planned[p[2]].rule) /\ Key(Planned[p[2]].rule) = Key(c.rule)
  <2>1. /\ p[1] \in DOMAIN saved.rules /\ p[2] \in DOMAIN Planned
        /\ Match(saved.rules[p[1]].rule, Planned[p[2]].rule)
    BY <1>1, MatchedFacts
  <2>2. IsRule(Planned[p[2]].rule)
    BY <1>1, <2>1, PlannedFacts DEF Blocks
  <2>3. ASSUME NEW c \in cloud, c.uuid = target[p]
        PROVE  c.ours /\ Handled(saved.rules[p[1]].rule) /\ Key(c.rule) = Key(saved.rules[p[1]].rule)
    <3>1. c.uuid \in Wants(saved.rules[p[1]])
      BY <1>3, <2>3
    <3> QED
      BY <1>1, <2>1, <3>1, WantedFacts DEF Calm, ListsOK, KeysFit
  <2> QED
    BY <2>1, <2>2, <2>3, MatchFacts
<1>6. \A x \in todo'.updates :
        /\ IsRule(x.rule)
        /\ \A c \in cloud : c.uuid = x.uuid => c.ours /\ Handled(x.rule) /\ Key(x.rule) = Key(c.rule)
  BY <1>2, <1>5
<1> QED
  BY <1>1, <1>4, <1>6 DEF UpdatesOK

\* The rule of a pair is there to stay, or about to be changed.
LEMMA UpdateProgresses ==
  ASSUME NEW pairs, NEW target, Starts(pairs, target)
  PROVE  Progress'
<1>1. /\ Calm /\ Idle /\ fresh /\ cloud' = cloud /\ pairs = Pairs(saved.rules, Planned)
      /\ DOMAIN target \subseteq pairs /\ ~Misdirected(target)
  BY DEF Starts
<1>2. /\ todo'.updates = {[uuid |-> target[p], rule |-> Planned[p[2]].rule] : p \in DOMAIN target}
      /\ todo'.deletes = UNION {Range(saved.rules[i].uuids) : i \in Unmatched(pairs)}
      /\ news' = Matched(Planned, pairs)
  BY <1>1, UpdatesFacts DEF Starts, Begin, Jobs
<1>3. Pending' = Unpaired(pairs)
  BY UpdateBegins
<1>4. /\ \A p, q \in pairs : p[1] = q[1] \/ p[2] = q[2] => p = q
      /\ DOMAIN Matched(Planned, pairs) = DOMAIN Planned
      /\ \A k \in DOMAIN Planned : Matched(Planned, pairs)[k].rule = Planned[k].rule
  BY <1>1, MatchedFacts
<1>5. SUFFICES ASSUME Clear', NEW k \in DOMAIN Planned, Handled(Planned[k].rule), k \notin Unpaired(pairs)
               PROVE  \/ \E c \in cloud' : /\ c.rule = Planned[k].rule
                                           /\ c.uuid \notin todo'.deletes \cup Ids(todo'.updates)
                      \/ \E x \in todo'.updates : x.rule = Planned[k].rule
  BY <1>2, <1>3, <1>4 DEF Progress, Present, Changing, Ids
<1>6. ~Confused(pairs)
  BY <1>5 DEF Starts
<1>7. PICK p \in pairs : p[2] = k
  BY <1>5 DEF Unpaired
<1>8. /\ p[1] \in DOMAIN saved.rules /\ Match(saved.rules[p[1]].rule, Planned[k].rule)
  BY <1>1, <1>7, MatchedFacts
<1>9. PICK c \in cloud : c.uuid \in Wants(saved.rules[p[1]]) /\ c.rule = saved.rules[p[1]].rule
  BY <1>1, <1>5, <1>8, MatchFacts, ShowsFacts
<1>10. CASE p \in DOMAIN target
  <2>1. [uuid |-> target[p], rule |-> Planned[k].rule] \in todo'.updates
    BY <1>2, <1>7, <1>10
  <2> QED
    BY <2>1
<1>11. CASE p \notin DOMAIN target
  <2>1. saved.rules[p[1]].uuids # NoUuids
    <3>1. Key(saved.rules[p[1]].rule) \in DOMAIN saved.rules[p[1]].uuids
      BY <1>9 DEF Wants
    <3>2. DOMAIN NoUuids = {}
      BY DEF NoUuids
    <3> QED
      BY <3>1, <3>2
  <2>2. c.rule = Planned[k].rule
    BY <1>7, <1>9, <1>11, <2>1 DEF Starts, NeedsUpdate
  <2>3. c.uuid \notin todo'.deletes
    BY <1>2, <1>6, <1>9 DEF Confused
  <2>4. ASSUME NEW q \in DOMAIN target, target[q] = c.uuid PROVE FALSE
    <3>1. c.uuid \in Wants(saved.rules[q[1]])
      BY <1>1, <2>4, UpdatesFacts
    <3>2. q[1] \in DOMAIN saved.rules /\ q \in pairs
      BY <1>1, MatchedFacts
    <3>3. q[1] = p[1]
      BY <1>1, <1>8, <1>9, <3>1, <3>2, ShowsFacts
    <3> QED
      BY <1>4, <1>11, <3>2, <3>3
  <2>5. c.uuid \notin Ids(todo'.updates)
    BY <1>2, <2>4 DEF Ids
  <2>6. c \in cloud' /\ c.uuid \notin todo'.deletes \cup Ids(todo'.updates)
    BY <1>1, <2>3, <2>5
  <2> QED
    BY <2>2, <2>6
<1> QED
  BY <1>10, <1>11

\* A block that stays is paired with itself.
LEMMA StaysPaired ==
  ASSUME Calm, NEW i \in DOMAIN saved.rules, NEW k \in DOMAIN Planned,
         saved.rules[i].rule = Planned[k].rule,
         OneOfAKind(config.rules), OneOfAKind(Plain(saved.rules))
  PROVE  <<i, k>> \in Pairs(saved.rules, Planned)
<1> DEFINE r == Planned[k].rule
           olds == {j \in DOMAIN saved.rules : j < i /\ Match(saved.rules[j].rule, Planned[k].rule)}
           plan == {j \in DOMAIN Planned : j < k /\ Match(saved.rules[i].rule, Planned[j].rule)}
<1>1. IsList(saved.rules) /\ IsList(Planned) /\ Plain(Planned) = config.rules
  BY PlannedFacts DEF Calm, ListsOK, Blocks
<1>2. ASSUME NEW j \in DOMAIN saved.rules, j < i PROVE ~Match(saved.rules[j].rule, Planned[k].rule)
  <2>1. j \in Nat /\ i \in Nat
    BY <1>1, PlacesFacts
  <2>2. ~Match(Plain(saved.rules)[j], Plain(saved.rules)[i])
    BY <1>2, <2>1 DEF OneOfAKind, Plain
  <2> QED
    BY <2>2 DEF Plain
<1>3. ASSUME NEW j \in DOMAIN Planned, j < k PROVE ~Match(saved.rules[i].rule, Planned[j].rule)
  <2>1. j \in Nat /\ k \in Nat
    BY <1>1, PlacesFacts
  <2>2. OneOfAKind(Plain(Planned))
    BY <1>1
  <2>3. ~Match(Plain(Planned)[k], Plain(Planned)[j])
    BY <1>3, <2>1, <2>2 DEF OneOfAKind, Plain
  <2> QED
    BY <2>3 DEF Plain
<1>4. olds = {} /\ plan = {}
  BY <1>2, <1>3
<1>5. Match(saved.rules[i].rule, Planned[k].rule)
  BY DEF Match
<1>6. Cardinality(olds) = Cardinality(plan)
  BY <1>4
<1>7. <<i, k>> \in (DOMAIN saved.rules) \X (DOMAIN Planned) /\ <<i, k>>[1] = i /\ <<i, k>>[2] = k
  OBVIOUS
<1> QED
  BY <1>5, <1>6, <1>7 DEF Pairs

LEMMA UpdateSpares ==
  ASSUME NEW pairs, NEW target, Starts(pairs, target)
  PROVE  Spares'
<1>1. /\ Calm /\ Idle /\ fresh /\ UNCHANGED <<cloud, config, saved>> /\ pairs = Pairs(saved.rules, Planned)
      /\ todo'.deletes = UNION {Range(saved.rules[i].uuids) : i \in Unmatched(pairs)}
  BY DEF Starts, Begin, Jobs
<1>2. SUFFICES ASSUME Clear', NEW c \in Own, Stays(c), c.uuid \in todo'.deletes PROVE FALSE
  BY <1>1 DEF Spares, Own, Stays
<1>3. PICK i \in Unmatched(pairs) : c.uuid \in Range(saved.rules[i].uuids)
  BY <1>1, <1>2
<1>4. PICK j \in DOMAIN saved.rules : c.uuid \in Wants(saved.rules[j])
  BY <1>1, IdleFacts DEF Good, Ids, Wanted
<1>5. c \in cloud
  BY DEF Own
<1>6. Handled(saved.rules[j].rule) /\ Wants(saved.rules[j]) = {c.uuid}
  BY <1>1, <1>4, <1>5, WantedFacts DEF Calm, ListsOK, KeysFit
<1>7. PICK e \in cloud : e.uuid \in Wants(saved.rules[j]) /\ e.rule = saved.rules[j].rule
  BY <1>1, <1>6, ShowsFacts
<1>8. e = c
  BY <1>1, <1>5, <1>6, <1>7 DEF Calm, CloudOK
<1>9. PICK k \in DOMAIN config.rules : config.rules[k] = c.rule
  BY <1>2 DEF Stays, Range
<1>10. k \in DOMAIN Planned /\ Planned[k].rule = saved.rules[j].rule
  BY <1>1, <1>7, <1>8, <1>9, PlannedFacts
<1>11. <<j, k>> \in pairs
  BY <1>1, <1>2, <1>10, StaysPaired DEF Stays
<1>12. Confused(pairs)
  <2>1. <<j, k>>[1] = j
    OBVIOUS
  <2>2. Range(saved.rules[i].uuids) \cap Wants(saved.rules[j]) # {}
    BY <1>3, <1>4
  <2> QED
    BY <1>11, <2>1, <2>2 DEF Confused
<1> QED
  BY <1>2, <1>12 DEF Starts

LEMMA StartsCalm ==
  ASSUME NEW pairs, NEW target, Starts(pairs, target)
  PROVE  Calm'
<1>1. /\ Calm /\ pairs = Pairs(saved.rules, Planned) /\ config' = config
      /\ news' = Matched(Planned, pairs) /\ op' = "update"
  BY DEF Starts, Begin
<1>2. PlanOK'
  <2>1. /\ DOMAIN news' = DOMAIN Planned
        /\ \A k \in DOMAIN Planned : news'[k].rule = Planned[k].rule
    BY <1>1, MatchedFacts
  <2>2. Plain(news') = Plain(Planned)
    BY <2>1 DEF Plain
  <2>3. Plain(news') = config'.rules
    BY <1>1, <2>2, PlannedFacts
  <2> QED
    BY <2>3 DEF PlanOK, Plain
<1>3. NothingSkipped'
  <2>1. Pending' = Unpaired(pairs)
    BY UpdateBegins
  <2>2. \A k \in Unpaired(pairs) : news'[k] = Planned[k]
    BY <1>1, MatchedFacts
  <2>3. Clear' => ~Confused(pairs)
    BY DEF Starts
  <2>4. SUFFICES ASSUME Clear', NEW k \in Unpaired(pairs), HasPort(Planned[k].rule)
                 PROVE  Key(Planned[k].rule) \notin DOMAIN Planned[k].uuids
    BY <2>1, <2>2 DEF NothingSkipped
  <2> QED
    BY <2>3, <2>4 DEF Confused
<1> QED
  BY <1>2, <1>3, UpdateBegins, UpdateChanges, UpdateProgresses, UpdateSpares DEF Calm

LEMMA NormalUpdateCalm ==
  ASSUME Calm, Idle, fresh, NormalUpdate, UNCHANGED <<cloud, config, saved>>, ~Shifted'
  PROVE  Calm'
<1> DEFINE pairs == Pairs(saved.rules, Planned)
           changed == {p \in pairs : /\ NeedsUpdate(saved.rules[p[1]].rule, Planned[p[2]].rule)
                                     /\ saved.rules[p[1]].uuids # NoUuids}
<1>1. PICK target \in [changed -> UuidsIn(saved.rules)] :
        /\ Begin("update", Matched(Planned, pairs), Jobs(pairs, target))
        /\ Note((IF Misdirected(target) THEN {"misdirected"} ELSE {})
                \cup (IF Confused(pairs) THEN {"confused"} ELSE {}))
  BY DEF NormalUpdate, Jobs
<1>2. DOMAIN target = changed
  OBVIOUS
<1> HIDE DEF pairs
<1>3. Remembers /\ faults'.kinds = faults.kinds \cup (IF Misdirected(target) THEN {"misdirected"} ELSE {})
                                   \cup (IF Confused(pairs) THEN {"confused"} ELSE {})
  BY <1>1, NoteFacts
<1>4. ~Misdirected(target)
  BY <1>3 DEF Shifted, Blinded, Blinding
<1>5. Clear' => Clear /\ ~Confused(pairs)
  BY <1>3, ClearFacts DEF Clear
<1>6. Starts(pairs, target)
  BY <1>1, <1>2, <1>4, <1>5 DEF Starts, pairs
<1> QED
  BY <1>6, StartsCalm

LEMMA UpdateCalm ==
  ASSUME Calm, Update, ~Shifted'
  PROVE  Calm'
<1>1. Idle /\ fresh /\ UNCHANGED <<cloud, config>>
  BY DEF Update
<1>2. ~RejectUpdate
  <2>1. ASSUME Note({"emptied"}) PROVE Shifted'
    BY <2>1, NoteFacts DEF Shifted, Blinded, Blinding
  <2> QED
    BY <2>1 DEF RejectUpdate
<1>3. CASE (NormalUpdate \/ MigratingUpdate) /\ UNCHANGED saved
  BY <1>1, <1>3, NormalUpdateCalm, MigratingUpdateCalm
<1>4. CASE ~Differs /\ FinishWithRead(saved.rules) /\ UNCHANGED Handler
  <2>1. Good(saved.rules)
    BY <1>1, IdleFacts
  <2>2. InPlace
    <3>1. SUFFICES ASSUME NEW k \in DOMAIN config.rules, Handled(config.rules[k])
                   PROVE  config.rules[k] \in {c.rule : c \in cloud}
      BY DEF InPlace, Range
    <3>2. k \in DOMAIN saved.rules /\ saved.rules[k].rule = config.rules[k]
      BY <1>4 DEF Differs, Plain
    <3> QED
      BY <1>1, <3>1, <3>2, ShowsFacts
  <2> QED
    BY <1>1, <1>4, <2>1, <2>2, StaysStill, Finishing
<1> QED
  BY <1>2, <1>3, <1>4 DEF Update

-----------------------------------------------------------------------------
(* The calls one by one.                                                   *)

LEMMA DeleteRuleFacts ==
  ASSUME Calm, NEW u, DeleteRule(u)
  PROVE  /\ ~failed /\ u \in todo.deletes /\ cloud' = {c \in cloud : c.uuid # u}
         /\ DOMAIN todo' = CallKinds /\ todo'.deletes = todo.deletes \ {u}
         /\ todo'.updates = todo.updates /\ todo'.creates = todo.creates
         /\ UNCHANGED <<config, saved, fresh, told, op, news, tries, stage, failed>>
         /\ ~Idle /\ DOMAIN stage = {} /\ Pending' = Pending
<1>1. /\ ~failed /\ u \in todo.deletes /\ cloud' = {c \in cloud : c.uuid # u}
      /\ todo' = [todo EXCEPT !.deletes = todo.deletes \ {u}]
      /\ UNCHANGED <<config, saved, fresh, told, op, news, tries, stage, failed>>
  BY DEF DeleteRule, RemoveRule, Frame
<1>2. DOMAIN todo = CallKinds
  BY DEF Calm, HandlerOK
<1>3. /\ DOMAIN todo' = CallKinds /\ todo'.deletes = todo.deletes \ {u}
      /\ todo'.updates = todo.updates /\ todo'.creates = todo.creates
  BY <1>1, <1>2 DEF CallKinds
<1>4. ~Idle /\ DOMAIN stage = {}
  BY <1>1, NothingFacts DEF Calm, HandlerOK, Idle
<1>5. Pending' = Pending
  BY <1>1, <1>3 DEF Pending
<1> QED
  BY <1>1, <1>3, <1>4, <1>5

LEMMA DeleteRuleCalm ==
  ASSUME Calm, NEW u, DeleteRule(u), Remembers
  PROVE  Calm'
<1>1. /\ ~failed /\ u \in todo.deletes /\ cloud' = {c \in cloud : c.uuid # u}
      /\ DOMAIN todo' = CallKinds /\ todo'.deletes = todo.deletes \ {u}
      /\ todo'.updates = todo.updates /\ todo'.creates = todo.creates
      /\ UNCHANGED <<config, saved, fresh, told, op, news, tries, stage, failed>>
      /\ ~Idle /\ DOMAIN stage = {} /\ Pending' = Pending
  BY DeleteRuleFacts
<1>2. cloud' \in SUBSET cloud
  BY <1>1
<1>3. Clear' => Clear
  BY ClearFacts
<1>4. CloudOK'
  BY <1>2, FS_Subset DEF Calm, CloudOK
<1>5. ListsOK' /\ Synced' /\ OkMeansApplied'
  BY <1>1 DEF Calm, ListsOK, Synced, OkMeansApplied, Idle
<1>6. KeysFit'
  BY <1>1, <1>2 DEF Calm, KeysFit, FitsAll
<1>7. Listed'
  <2>1. SUFFICES ASSUME NEW c \in Own, c \in cloud'
                 PROVE  \/ c.uuid \in todo'.deletes
                        \/ op # "destroy" /\ \E k \in DOMAIN news \ Pending : c.uuid \in Wants(news[k])
    BY <1>1 DEF Listed, Own, Idle
  <2>2. c.uuid # u
    BY <1>1, <2>1
  <2> QED
    BY <1>1, <2>2 DEF Calm, Listed
<1>8. HandlerOK'
  BY <1>1 DEF Calm, HandlerOK, Idle, LastTry
<1>9. UpdatesOK'
  BY <1>1, <1>2 DEF Calm, UpdatesOK
<1>10. PlanOK' /\ NothingSkipped'
  BY <1>1, <1>3 DEF Calm, PlanOK, NothingSkipped, Working
<1>11. Progress'
  <2>1. SUFFICES ASSUME Working, ~failed, Clear, NEW k \in DOMAIN news, Handled(news[k].rule),
                        k \notin Pending, ~Changing(news[k].rule)
                 PROVE  \E c \in cloud' : /\ c.rule = news[k].rule
                                          /\ c.uuid \notin todo'.deletes \cup Ids(todo'.updates)
    BY <1>1, <1>3 DEF Progress, Present, Changing, Working, Ids
  <2>2. PICK c \in cloud : c.rule = news[k].rule /\ c.uuid \notin todo.deletes \cup Ids(todo.updates)
    BY <2>1 DEF Calm, Progress, Present
  <2> QED
    BY <1>1, <2>2
<1>12. Spares'
  BY <1>1, <1>2, <1>3 DEF Calm, Spares, Own, Stays
<1> QED
  BY <1>4, <1>5, <1>6, <1>7, <1>8, <1>9, <1>10, <1>11, <1>12 DEF Calm

LEMMA DeleteFailsShifts ==
  ASSUME NEW u, DeleteFails(u)
  PROVE  Shifted'
BY FaultFacts DEF DeleteFails, Blinding

LEMMA ChangeRuleFacts ==
  ASSUME Calm, NEW x \in todo.updates, ChangeRule(x)
  PROVE  /\ CloudOK' /\ Ids(cloud') = Ids(cloud)
         /\ \A c \in cloud' : \E e \in cloud :
              /\ e.uuid = c.uuid /\ e.ours = c.ours /\ (c.ours => Key(e.rule) = Key(c.rule))
              /\ c.uuid = x.uuid => c.rule = x.rule
              /\ c.uuid # x.uuid => c = e
         /\ \A e \in cloud : e.uuid # x.uuid => e \in cloud'
<1> DEFINE change == [c \in cloud |-> IF c.uuid = x.uuid
                                      THEN [uuid |-> c.uuid, rule |-> x.rule, ours |-> c.ours] ELSE c]
<1>1. cloud' = {change[c] : c \in cloud}
  BY DEF ChangeRule
<1>2. \A c \in cloud : /\ change[c].uuid = c.uuid /\ change[c].ours = c.ours
                       /\ c.uuid = x.uuid => change[c].rule = x.rule
                       /\ c.uuid # x.uuid => change[c] = c
  OBVIOUS
<1>3. DOMAIN change = cloud
  OBVIOUS
<1>4. change \in [cloud -> cloud'] /\ \A t \in cloud' : \E s \in cloud : change[s] = t
  BY <1>1
<1> HIDE DEF change
<1>5. IsFiniteSet(cloud')
  BY <1>4, FS_Surjection DEF Surjection, Calm, CloudOK
<1>6. ASSUME NEW c \in cloud
      PROVE  /\ IsRule(change[c].rule) /\ (change[c].ours => Handled(change[c].rule))
             /\ change[c].ours => Key(change[c].rule) = Key(c.rule)
  BY <1>2 DEF Calm, CloudOK, UpdatesOK
<1>7. CloudOK'
  <2>1. \A c \in cloud' : IsRule(c.rule) /\ (c.ours => Handled(c.rule))
    BY <1>1, <1>6
  <2>2. \A c, d \in cloud' : c.uuid = d.uuid => c = d
    BY <1>1, <1>2 DEF Calm, CloudOK
  <2> QED
    BY <1>5, <2>1, <2>2 DEF CloudOK
<1>8. Ids(cloud') = Ids(cloud)
  BY <1>1, <1>2 DEF Ids
<1>9. \A c \in cloud' : \E e \in cloud :
        /\ e.uuid = c.uuid /\ e.ours = c.ours /\ (c.ours => Key(e.rule) = Key(c.rule))
        /\ c.uuid = x.uuid => c.rule = x.rule
        /\ c.uuid # x.uuid => c = e
  BY <1>1, <1>2, <1>6
<1>10. \A e \in cloud : e.uuid # x.uuid => e \in cloud'
  BY <1>1, <1>2
<1> QED
  BY <1>7, <1>8, <1>9, <1>10

LEMMA UpdateRuleCalm ==
  ASSUME Calm, NEW x, UpdateRule(x), Remembers
  PROVE  Calm'
<1>1. /\ ~failed /\ todo.deletes = {} /\ x \in todo.updates /\ x.uuid \in Ids(cloud) /\ ChangeRule(x)
      /\ todo' = [todo EXCEPT !.updates = todo.updates \ {x}]
      /\ UNCHANGED <<config, saved, fresh, told, op, news, tries, stage, failed>>
  BY DEF UpdateRule, Accepts, Frame
<1>2. DOMAIN todo = CallKinds
  BY DEF Calm, HandlerOK
<1>3. /\ DOMAIN todo' = CallKinds /\ todo'.deletes = {}
      /\ todo'.updates = todo.updates \ {x} /\ todo'.creates = todo.creates
  BY <1>1, <1>2 DEF CallKinds
<1>4. ~Idle /\ DOMAIN stage = {} /\ op = "update"
  BY <1>1, NothingFacts DEF Calm, HandlerOK, Idle
<1>5. Pending' = Pending
  BY <1>1, <1>3 DEF Pending
<1>6. /\ CloudOK' /\ Ids(cloud') = Ids(cloud)
      /\ \A c \in cloud' : \E e \in cloud :
           /\ e.uuid = c.uuid /\ e.ours = c.ours /\ (c.ours => Key(e.rule) = Key(c.rule))
           /\ c.uuid = x.uuid => c.rule = x.rule
           /\ c.uuid # x.uuid => c = e
      /\ \A e \in cloud : e.uuid # x.uuid => e \in cloud'
  BY <1>1, ChangeRuleFacts
<1>7. Clear' => Clear
  BY ClearFacts
<1>8. ListsOK' /\ Synced' /\ OkMeansApplied'
  BY <1>1, <1>4 DEF Calm, ListsOK, Synced, OkMeansApplied, Idle
<1>9. KeysFit'
  <2>1. ASSUME NEW es, FitsAll(es) PROVE FitsAll(es)'
    <3>1. SUFFICES ASSUME NEW i \in DOMAIN es, NEW k \in DOMAIN es[i].uuids, NEW c \in cloud',
                          c.uuid = es[i].uuids[k]
                   PROVE  Fits(k, c)
      BY DEF FitsAll
    <3>2. PICK e \in cloud : e.uuid = c.uuid /\ e.ours = c.ours /\ (c.ours => Key(e.rule) = Key(c.rule))
      BY <1>6
    <3>3. Fits(k, e)
      BY <2>1, <3>1, <3>2 DEF FitsAll
    <3> QED
      BY <3>2, <3>3 DEF Fits
  <2>2. FitsAll(saved.rules) /\ FitsAll(news)
    BY DEF Calm, KeysFit
  <2>3. FitsAll(saved.rules)' /\ FitsAll(news)'
    BY <1>1, <2>1, <2>2 DEF FitsAll
  <2> QED
    BY <2>3 DEF KeysFit
<1>10. Listed'
  <2>1. SUFFICES ASSUME NEW c \in cloud', c.ours
                 PROVE  \E k \in DOMAIN news \ Pending : c.uuid \in Wants(news[k])
    BY <1>1, <1>4, <1>5 DEF Listed, Own, Idle
  <2>2. PICK e \in Own : e.uuid = c.uuid
    BY <1>6, <2>1 DEF Own
  <2> QED
    BY <1>1, <1>4, <2>2 DEF Calm, Listed
<1>11. HandlerOK'
  BY <1>1, <1>3, <1>4 DEF Calm, HandlerOK, Idle, LastTry
<1>12. UpdatesOK'
  <2>1. \A y, z \in todo'.updates : y.uuid = z.uuid => y = z
    BY <1>3 DEF Calm, UpdatesOK
  <2>2. ASSUME NEW y \in todo'.updates
        PROVE  /\ IsRule(y.rule)
               /\ \A c \in cloud' : c.uuid = y.uuid => c.ours /\ Handled(y.rule) /\ Key(y.rule) = Key(c.rule)
    <3>1. y \in todo.updates /\ y.uuid # x.uuid
      BY <1>1, <1>3 DEF Calm, UpdatesOK
    <3>2. ASSUME NEW c \in cloud', c.uuid = y.uuid PROVE c \in cloud
      BY <1>6, <3>1, <3>2
    <3> QED
      BY <3>1, <3>2 DEF Calm, UpdatesOK
  <2> QED
    BY <2>1, <2>2 DEF UpdatesOK
<1>13. PlanOK' /\ NothingSkipped' /\ Spares'
  BY <1>1, <1>3, <1>5, <1>7 DEF Calm, PlanOK, NothingSkipped, Spares, Working
<1>14. Progress'
  <2>1. SUFFICES ASSUME Working, ~failed, Clear, NEW k \in DOMAIN news, Handled(news[k].rule), k \notin Pending
                 PROVE  \/ \E c \in cloud' : c.rule = news[k].rule /\ c.uuid \notin Ids(todo'.updates)
                        \/ \E y \in todo'.updates : y.rule = news[k].rule
    BY <1>1, <1>3, <1>5, <1>7 DEF Progress, Present, Changing, Working, Ids
  <2>2. CASE Present(news[k].rule)
    <3>1. PICK c \in cloud : c.rule = news[k].rule /\ c.uuid \notin Ids(todo.updates)
      BY <2>2 DEF Present
    <3>2. c.uuid # x.uuid
      BY <1>1, <3>1 DEF Ids
    <3> QED
      BY <1>3, <1>6, <3>1, <3>2 DEF Ids
  <2>3. CASE Changing(news[k].rule)
    <3>1. PICK y \in todo.updates : y.rule = news[k].rule
      BY <2>3 DEF Changing
    <3>2. CASE y # x
      BY <1>3, <3>1, <3>2
    <3>3. CASE y = x
      <4>1. PICK c \in cloud' : c.uuid = x.uuid
        BY <1>1, <1>6 DEF Ids
      <4>2. c.rule = news[k].rule
        BY <1>6, <3>1, <3>3, <4>1
      <4>3. c.uuid \notin Ids(todo'.updates)
        BY <1>1, <1>3, <4>1 DEF Calm, UpdatesOK, Ids
      <4> QED
        BY <4>2, <4>3
    <3> QED
      BY <3>2, <3>3
  <2> QED
    BY <2>1, <2>2, <2>3 DEF Calm, Progress
<1> QED
  BY <1>6, <1>8, <1>9, <1>10, <1>11, <1>12, <1>13, <1>14 DEF Calm

\* A call that is refused fails the operation, and nothing else.
LEMMA UpdateFailsCalm ==
  ASSUME Calm, NEW x, UpdateFails(x), Remembers, ~Shifted'
  PROVE  Calm'
<1>1. /\ x \in todo.updates /\ todo.deletes = {} /\ failed' = TRUE
      /\ UNCHANGED <<config, saved, fresh, told, op, news, tries, stage, todo>>
  BY DEF UpdateFails, Frame
<1>2. cloud' = cloud
  BY FaultFacts DEF UpdateFails, Blinding
<1>3. ~Idle /\ op = "update"
  BY <1>1, NothingFacts DEF Calm, HandlerOK, Idle
<1>4. Clear' => Clear
  BY ClearFacts
<1>5. Pending' = Pending
  BY <1>1 DEF Pending
<1>6. CloudOK' /\ ListsOK' /\ Synced' /\ OkMeansApplied' /\ Progress' /\ PlanOK'
  BY <1>1, <1>2, <1>3 DEF Calm, CloudOK, ListsOK, Synced, OkMeansApplied, Idle, Progress, PlanOK, Working
<1>7. KeysFit' /\ UpdatesOK'
  BY <1>1, <1>2 DEF Calm, KeysFit, FitsAll, UpdatesOK
<1>8. Listed'
  BY <1>1, <1>2, <1>3, <1>5 DEF Calm, Listed, Own, Idle
<1>9. HandlerOK'
  BY <1>1, <1>3 DEF Calm, HandlerOK, Idle
<1>10. NothingSkipped' /\ Spares'
  BY <1>1, <1>2, <1>4, <1>5 DEF Calm, NothingSkipped, Spares, Own, Stays, Working
<1> QED
  BY <1>6, <1>7, <1>8, <1>9, <1>10 DEF Calm

-----------------------------------------------------------------------------
(* createNetworkACLRules.                                                  *)

LEMMA FanOutCalm ==
  ASSUME Calm, FanOut
  PROVE  Calm'
<1>1. /\ ~failed /\ todo.deletes = {} /\ todo.updates = {} /\ todo.creates # {}
      /\ stage' = [i \in todo.creates |-> "spawned"] /\ tries' = [i \in todo.creates |-> 0]
      /\ todo' = Nothing
      /\ UNCHANGED <<cloud, config, saved, fresh, op, news, failed, told, faults>>
  BY DEF FanOut, Pool!Spawn
<1>2. ~Idle /\ DOMAIN stage = {} /\ op # "destroy"
  BY <1>1, NothingFacts DEF Calm, HandlerOK, Idle
<1>3. Pending' = Pending /\ DOMAIN stage' = todo.creates
  BY <1>1, <1>2, NothingFacts DEF Pending
<1>4. CloudOK' /\ ListsOK' /\ Synced' /\ OkMeansApplied' /\ PlanOK'
  BY <1>1, <1>2 DEF Calm, CloudOK, ListsOK, Synced, OkMeansApplied, Idle, PlanOK, Working
<1>5. KeysFit' /\ UpdatesOK'
  BY <1>1, NothingFacts DEF Calm, KeysFit, FitsAll, UpdatesOK
<1>6. Listed'
  BY <1>1, <1>2, <1>3, NothingFacts DEF Calm, Listed, Own, Idle
<1>7. HandlerOK'
  BY <1>1, <1>2, <1>3, NothingFacts DEF Calm, HandlerOK, Idle
<1>8. Progress'
  BY <1>1, <1>3, NothingFacts DEF Calm, Progress, Present, Changing, Ids, Working, Clear, Shifted, Blinded
<1>9. NothingSkipped' /\ Spares'
  BY <1>1, <1>3, NothingFacts DEF Calm, NothingSkipped, Spares, Working, Clear, Shifted, Blinded
<1> QED
  BY <1>4, <1>5, <1>6, <1>7, <1>8, <1>9 DEF Calm

LEMMA GoroutineFacts ==
  ASSUME Calm, NEW i \in DOMAIN stage
  PROVE  /\ ~Idle /\ todo = Nothing /\ i \in DOMAIN news /\ Working
         /\ Pending = {k \in DOMAIN stage : stage[k] \in {"spawned", "working"}}
BY NothingFacts DEF Calm, HandlerOK, Idle, Working, Pending

\* A goroutine that makes no rule: what it leaves unmade needs none, or failed.
LEMMA GoroutineSteps ==
  ASSUME Calm, Remembers, NEW i \in DOMAIN stage,
         UNCHANGED <<cloud, config, saved, fresh, told, op, news, todo>>,
         DOMAIN stage' = DOMAIN stage, DOMAIN tries' = DOMAIN tries, Pending' \subseteq Pending,
         failed => failed', ~failed' /\ Clear => \A k \in Pending \ Pending' : ~Handled(news[k].rule),
         failed' /\ op # "update" => \E k \in DOMAIN stage : news[k].rule \in Invalid \/ LastTry(k)'
  PROVE  Calm'
<1>1. ~Idle /\ todo = Nothing /\ Working /\ op # "destroy"
  BY GoroutineFacts DEF Working
<1>2. Clear' => Clear
  BY ClearFacts
<1>3. CloudOK' /\ ListsOK' /\ Synced' /\ OkMeansApplied' /\ PlanOK'
  BY <1>1 DEF Calm, CloudOK, ListsOK, Synced, OkMeansApplied, Idle, PlanOK, Working
<1>4. KeysFit' /\ UpdatesOK'
  BY DEF Calm, KeysFit, FitsAll, UpdatesOK
<1>5. Listed'
  BY <1>1 DEF Calm, Listed, Own, Idle
<1>6. HandlerOK'
  BY <1>1, NothingFacts DEF Calm, HandlerOK, Idle
<1>7. Progress'
  BY <1>1, <1>2 DEF Calm, Progress, Present, Changing, Working
<1>8. NothingSkipped' /\ Spares'
  BY <1>1, <1>2, NothingFacts DEF Calm, NothingSkipped, Spares, Working
<1> QED
  BY <1>3, <1>4, <1>5, <1>6, <1>7, <1>8 DEF Calm

\* A goroutine that goes from one stage to another.
LEMMA GotoFacts ==
  ASSUME Calm, NEW i \in DOMAIN stage, NEW from, NEW to, Pool!Goto(i, from, to), UNCHANGED todo
  PROVE  /\ stage[i] = from /\ DOMAIN stage' = DOMAIN stage /\ stage'[i] = to
         /\ \A k \in DOMAIN stage : k # i => stage'[k] = stage[k]
         /\ to = "working" /\ from = "spawned" => Pending' = Pending
         /\ to = "done" /\ from = "working" => i \in Pending /\ Pending' = Pending \ {i}
<1>1. stage[i] = from /\ stage' = [stage EXCEPT ![i] = to]
  BY DEF Pool!Goto
<1>2. DOMAIN stage' = DOMAIN stage /\ stage'[i] = to /\ \A k \in DOMAIN stage : k # i => stage'[k] = stage[k]
  BY <1>1
<1>3. Pending = {k \in DOMAIN stage : stage[k] \in {"spawned", "working"}}
  BY GoroutineFacts
<1>4. Pending' = {k \in DOMAIN stage : stage'[k] \in {"spawned", "working"}}
  BY <1>2, GoroutineFacts, NothingFacts DEF Pending
<1>5. to = "working" /\ from = "spawned" => Pending' = Pending
  BY <1>1, <1>2, <1>3, <1>4
<1>6. to = "done" /\ from = "working" => i \in Pending /\ Pending' = Pending \ {i}
  BY <1>1, <1>2, <1>3, <1>4
<1> QED
  BY <1>1, <1>2, <1>5, <1>6

\* An error is reported for a rule that was rejected, or tried to the last.
LEMMA FailedFacts ==
  ASSUME Calm, NEW i \in DOMAIN stage, failed
  PROVE  op = "update" \/ \E k \in DOMAIN stage : news[k].rule \in Invalid \/ LastTry(k)
BY GoroutineFacts DEF Calm, HandlerOK, Working

LEMMA AcquireCalm ==
  ASSUME Calm, NEW i \in DOMAIN stage, Acquire(i), Remembers
  PROVE  Calm'
<1>1. /\ Pool!Goto(i, "spawned", "working")
      /\ UNCHANGED <<cloud, config, saved, fresh, told, op, news, todo, tries, failed>>
  BY DEF Acquire, Pool!Acquire, HandlerState
<1>2. DOMAIN stage' = DOMAIN stage /\ Pending' = Pending
  BY <1>1, GotoFacts
<1>3. failed' /\ op # "update" => \E k \in DOMAIN stage : news[k].rule \in Invalid \/ LastTry(k)'
  BY <1>1, FailedFacts DEF LastTry
<1> QED
  BY <1>1, <1>2, <1>3, GoroutineSteps

LEMMA SkipRuleCalm ==
  ASSUME Calm, NEW i \in DOMAIN stage, SkipRule(i), Remembers
  PROVE  Calm'
<1>1. /\ Skips(news[i]) /\ Pool!Goto(i, "working", "done")
      /\ UNCHANGED <<cloud, config, saved, fresh, told, op, news, todo, tries, failed>>
  BY DEF SkipRule, Pool!NothingToCollect, HandlerState
<1>2. DOMAIN stage' = DOMAIN stage /\ i \in Pending /\ Pending' = Pending \ {i}
  BY <1>1, GotoFacts
<1>3. failed' /\ op # "update" => \E k \in DOMAIN stage : news[k].rule \in Invalid \/ LastTry(k)'
  BY <1>1, FailedFacts DEF LastTry
<1>4. Clear => ~Handled(news[i].rule)
  BY <1>1, <1>2, GoroutineFacts DEF Calm, NothingSkipped, Skips
<1> QED
  BY <1>1, <1>2, <1>3, <1>4, GoroutineSteps

LEMMA RejectRuleCalm ==
  ASSUME Calm, NEW i \in DOMAIN stage, RejectRule(i), Remembers
  PROVE  Calm'
<1>1. /\ news[i].rule \in Invalid /\ Pool!Goto(i, "working", "done") /\ failed' = TRUE
      /\ UNCHANGED <<cloud, config, saved, fresh, told, op, news, todo, tries>>
  BY DEF RejectRule, Pool!NothingToCollect, HandlerState
<1>2. DOMAIN stage' = DOMAIN stage /\ Pending' = Pending \ {i}
  BY <1>1, GotoFacts
<1> QED
  BY <1>1, <1>2, GoroutineSteps

LEMMA RetryCalm ==
  ASSUME Calm, NEW i \in DOMAIN stage, Retry(i), Remembers, stage[i] = "working",
         UNCHANGED <<cloud, config, saved, fresh, told, op, news, todo>>
  PROVE  Calm'
<1>1. CASE LastTry(i)
  <2>1. Pool!Goto(i, "working", "done") /\ failed' = TRUE /\ UNCHANGED tries
    BY <1>1 DEF Retry, GiveUp, Pool!NothingToCollect
  <2>2. DOMAIN stage' = DOMAIN stage /\ Pending' = Pending \ {i}
    BY <2>1, GotoFacts
  <2>3. LastTry(i)'
    BY <1>1, <2>1 DEF LastTry
  <2> QED
    BY <2>1, <2>2, <2>3, GoroutineSteps
<1>2. CASE ~LastTry(i)
  <2>1. tries' = [tries EXCEPT ![i] = tries[i] + 1] /\ UNCHANGED <<stage, failed>>
    BY <1>2 DEF Retry
  <2>2. DOMAIN tries' = DOMAIN tries /\ DOMAIN tries = DOMAIN stage
    BY <2>1 DEF Calm, HandlerOK
  <2>3. ASSUME NEW k \in DOMAIN stage, LastTry(k) PROVE LastTry(k)'
    <3>1. k # i
      BY <1>2, <2>3
    <3>2. tries'[k] = tries[k]
      BY <2>1, <2>2, <3>1
    <3> QED
      BY <2>3, <3>2 DEF LastTry
  <2>4. failed' /\ op # "update" => \E k \in DOMAIN stage : news[k].rule \in Invalid \/ LastTry(k)'
    BY <2>1, <2>3, FailedFacts
  <2>5. Pending' = Pending
    BY <2>1 DEF Pending
  <2> QED
    BY <2>1, <2>2, <2>4, <2>5, GoroutineSteps
<1> QED
  BY <1>1, <1>2

LEMMA CreateFailsCalm ==
  ASSUME Calm, NEW i \in DOMAIN stage, CreateFails(i), Remembers, ~Shifted'
  PROVE  Calm'
<1>1. stage[i] = "working" /\ UNCHANGED <<config, saved, fresh, told, op, news, todo>>
  BY DEF CreateFails, Asks, HandlerState
<1>2. UNCHANGED cloud /\ Retry(i)
  BY FaultFacts DEF CreateFails, Blinding
<1> QED
  BY <1>1, <1>2, RetryCalm

LEMMA NewUuidFacts ==
  ASSUME Unused # {}
  PROVE  /\ NewUuid \notin Ids(cloud) /\ NewUuid \notin UuidsIn(saved.rules) /\ NewUuid \notin UuidsIn(news)
         /\ NewUuid \notin todo.deletes /\ NewUuid \notin Ids(todo.updates)
<1>1. NewUuid \in Unused
  BY DEF NewUuid
<1> QED
  BY <1>1 DEF Unused, Remembered

\* A rule with a new uuid.
LEMMA NewRuleFacts ==
  ASSUME Calm, NEW r, NEW ours \in BOOLEAN, NewRule(r, ours), IsRule(r), ours => Handled(r)
  PROVE  /\ CloudOK' /\ cloud' = cloud \cup {[uuid |-> NewUuid, rule |-> r, ours |-> ours]}
         /\ \A es : FitsAll(es) /\ NewUuid \notin UuidsIn(es) => FitsAll(es)'
         /\ UNCHANGED todo => UpdatesOK'
<1> DEFINE new == [uuid |-> NewUuid, rule |-> r, ours |-> ours]
<1>1. Unused # {} /\ cloud' = cloud \cup {new}
  BY DEF NewRule
<1>2. new.uuid = NewUuid /\ new.rule = r /\ new.ours = ours
  OBVIOUS
<1>3. NewUuid \notin Ids(cloud) /\ NewUuid \notin Ids(todo.updates)
  BY <1>1, NewUuidFacts
<1> HIDE DEF new
<1>4. IsFiniteSet(cloud')
  BY <1>1, FS_AddElement DEF Calm, CloudOK
<1>5. CloudOK'
  BY <1>1, <1>2, <1>3, <1>4 DEF Calm, CloudOK, Ids
<1>6. ASSUME NEW es, FitsAll(es), NewUuid \notin UuidsIn(es) PROVE FitsAll(es)'
  BY <1>1, <1>2, <1>6 DEF FitsAll, UuidsIn, Range
<1>7. ASSUME UNCHANGED todo PROVE UpdatesOK'
  BY <1>1, <1>2, <1>3, <1>7 DEF Calm, UpdatesOK, Ids
<1> QED
  BY <1>1, <1>5, <1>6, <1>7 DEF new

LEMMA CreateForeignCalm ==
  ASSUME Calm, CreateForeign, Remembers
  PROVE  Calm'
<1>1. /\ NewRule(Foreign, FALSE) /\ told' = "none"
      /\ UNCHANGED <<config, saved, fresh, op, news, todo, tries, stage, failed>>
  BY DEF CreateForeign, Handler
<1>2. /\ CloudOK' /\ cloud' = cloud \cup {[uuid |-> NewUuid, rule |-> Foreign, ours |-> FALSE]}
      /\ \A es : FitsAll(es) /\ NewUuid \notin UuidsIn(es) => FitsAll(es)'
      /\ UpdatesOK'
  BY <1>1, RuleFacts, NewRuleFacts
<1>3. cloud \subseteq cloud' /\ Own' = Own
  BY <1>2 DEF Own
<1>4. Clear' => Clear
  BY ClearFacts
<1>5. Pending' = Pending
  BY <1>1 DEF Pending
<1>6. ListsOK' /\ PlanOK' /\ HandlerOK' /\ OkMeansApplied'
  BY <1>1 DEF Calm, ListsOK, PlanOK, HandlerOK, OkMeansApplied, Working, Idle, LastTry
<1>7. KeysFit'
  <2>1. NewUuid \notin UuidsIn(saved.rules) /\ NewUuid \notin UuidsIn(news)
    BY <1>1, NewUuidFacts DEF NewRule
  <2>2. FitsAll(saved.rules)' /\ FitsAll(news)'
    BY <1>1, <1>2, <2>1 DEF Calm, KeysFit, FitsAll
  <2> QED
    BY <2>2 DEF KeysFit
<1>8. Listed'
  BY <1>1, <1>3, <1>5 DEF Calm, Listed, Idle
<1>9. Synced'
  BY <1>1, <1>3 DEF Calm, Synced, Shows, Idle
<1>10. Progress'
  BY <1>1, <1>3, <1>4, <1>5 DEF Calm, Progress, Present, Changing, Working
<1>11. NothingSkipped' /\ Spares'
  BY <1>1, <1>3, <1>4, <1>5 DEF Calm, NothingSkipped, Spares, Working, Stays
<1> QED
  BY <1>2, <1>6, <1>7, <1>8, <1>9, <1>10, <1>11 DEF Calm

\* A block whose rule was made.
LEMMA CreateRuleFacts ==
  ASSUME Calm, NEW i \in DOMAIN stage, CreateRule(i)
  PROVE  /\ Unused # {} /\ NewRule(news[i].rule, TRUE) /\ Handled(news[i].rule) /\ IsRule(news[i].rule)
         /\ Pool!Goto(i, "working", "done")
         /\ UNCHANGED <<config, saved, fresh, told, op, todo, tries, failed>>
         /\ DOMAIN news' = DOMAIN news /\ \A k \in DOMAIN news : news'[k].rule = news[k].rule
         /\ \A k \in DOMAIN news : k # i => news'[k] = news[k]
         /\ DOMAIN news'[i].uuids = DOMAIN news[i].uuids \cup {Key(news[i].rule)}
         /\ news'[i].uuids[Key(news[i].rule)] = NewUuid
         /\ \A x \in DOMAIN news[i].uuids : x # Key(news[i].rule) => news'[i].uuids[x] = news[i].uuids[x]
<1> DEFINE k == Key(news[i].rule)
           uuids == [x \in DOMAIN news[i].uuids \cup {k} |-> IF x = k THEN NewUuid ELSE news[i].uuids[x]]
<1>1. /\ NewRule(news[i].rule, TRUE) /\ ~Skips(news[i])
      /\ news' = [news EXCEPT ![i] = [rule |-> news[i].rule, uuids |-> uuids]]
      /\ Pool!Goto(i, "working", "done")
      /\ UNCHANGED <<config, saved, fresh, told, op, todo, tries, failed>>
  BY DEF CreateRule, Asks, Pool!NothingToCollect, HandlerState
<1>2. i \in DOMAIN news /\ IsRule(news[i].rule)
  BY GoroutineFacts DEF Calm, ListsOK, Blocks
<1>3. Handled(news[i].rule) /\ Unused # {}
  BY <1>1 DEF Skips, NewRule
<1>4. /\ DOMAIN uuids = DOMAIN news[i].uuids \cup {k} /\ uuids[k] = NewUuid
      /\ \A x \in DOMAIN news[i].uuids : x # k => uuids[x] = news[i].uuids[x]
  OBVIOUS
<1> HIDE DEF uuids, k
<1>5. /\ DOMAIN news' = DOMAIN news /\ news'[i].rule = news[i].rule /\ news'[i].uuids = uuids
      /\ \A j \in DOMAIN news : j # i => news'[j] = news[j]
  BY <1>1, <1>2
<1>6. \A j \in DOMAIN news : news'[j].rule = news[j].rule
  BY <1>5
<1> QED
  BY <1>1, <1>2, <1>3, <1>4, <1>5, <1>6 DEF k

LEMMA CreateRuleCalm ==
  ASSUME Calm, NEW i \in DOMAIN stage, CreateRule(i), Remembers
  PROVE  Calm'
<1> DEFINE new == [uuid |-> NewUuid, rule |-> news[i].rule, ours |-> TRUE]
<1>1. /\ Unused # {} /\ NewRule(news[i].rule, TRUE) /\ Handled(news[i].rule) /\ IsRule(news[i].rule)
      /\ Pool!Goto(i, "working", "done")
      /\ UNCHANGED <<config, saved, fresh, told, op, todo, tries, failed>>
  BY CreateRuleFacts
<1>2. /\ DOMAIN news' = DOMAIN news /\ \A k \in DOMAIN news : news'[k].rule = news[k].rule
      /\ \A k \in DOMAIN news : k # i => news'[k] = news[k]
      /\ DOMAIN news'[i].uuids = DOMAIN news[i].uuids \cup {Key(news[i].rule)}
      /\ news'[i].uuids[Key(news[i].rule)] = NewUuid
      /\ \A x \in DOMAIN news[i].uuids : x # Key(news[i].rule) => news'[i].uuids[x] = news[i].uuids[x]
  BY CreateRuleFacts
<1>3. /\ CloudOK' /\ cloud' = cloud \cup {new}
      /\ \A es : FitsAll(es) /\ NewUuid \notin UuidsIn(es) => FitsAll(es)'
      /\ UpdatesOK'
  BY <1>1, NewRuleFacts
<1>4. /\ ~Idle /\ todo = Nothing /\ i \in DOMAIN news /\ Working
      /\ NewUuid \notin UuidsIn(saved.rules) /\ NewUuid \notin UuidsIn(news) /\ NewUuid \notin Ids(cloud)
  BY <1>1, GoroutineFacts, NewUuidFacts
<1>5. DOMAIN stage' = DOMAIN stage /\ i \in Pending /\ Pending' = Pending \ {i}
  BY <1>1, GotoFacts
<1>6. Clear' => Clear
  BY ClearFacts
<1>7. new.uuid = NewUuid /\ new.rule = news[i].rule /\ new.ours
  OBVIOUS
<1> HIDE DEF new
<1>8. ListsOK'
  BY <1>1, <1>2 DEF Calm, ListsOK, Blocks, IsList
<1>9. KeysFit'
  <2>1. FitsAll(saved.rules)'
    BY <1>1, <1>3, <1>4 DEF Calm, KeysFit, FitsAll
  <2>2. SUFFICES ASSUME NEW k \in DOMAIN news, NEW x \in DOMAIN news'[k].uuids, NEW c \in cloud',
                        c.uuid = news'[k].uuids[x]
                 PROVE  Fits(x, c)
    BY <1>2, <2>1 DEF KeysFit, FitsAll
  <2>3. CASE k = i /\ x = Key(news[i].rule)
    <3>1. c.uuid = NewUuid
      BY <1>2, <2>2, <2>3
    <3>2. c = new
      BY <1>3, <1>4, <3>1 DEF Ids
    <3> QED
      BY <1>7, <2>3, <3>2 DEF Fits
  <2>4. CASE ~(k = i /\ x = Key(news[i].rule))
    <3>1. x \in DOMAIN news[k].uuids /\ news'[k].uuids[x] = news[k].uuids[x]
      BY <1>2, <2>2, <2>4
    <3>2. c.uuid \in UuidsIn(news)
      BY <2>2, <3>1 DEF UuidsIn, Range
    <3>3. c \in cloud
      BY <1>3, <1>4, <1>7, <3>2
    <3> QED
      BY <2>2, <3>1, <3>3 DEF Calm, KeysFit, FitsAll
  <2> QED
    BY <2>3, <2>4
<1>10. Listed'
  <2>1. op # "destroy" /\ todo.deletes = {}
    BY <1>4, NothingFacts DEF Working
  <2>2. SUFFICES ASSUME NEW c \in cloud', c.ours
                 PROVE  \E k \in DOMAIN news' \ Pending' : c.uuid \in Wants(news'[k])
    BY <1>1, <1>4, <2>1 DEF Listed, Own, Idle
  <2>3. CASE c = new
    <3>1. Wants(news'[i]) = {NewUuid}
      BY <1>1, <1>2, <1>4 DEF Wants
    <3> QED
      BY <1>2, <1>4, <1>5, <1>7, <2>3, <3>1
  <2>4. CASE c \in cloud
    <3>1. PICK k \in DOMAIN news \ Pending : c.uuid \in Wants(news[k])
      BY <1>4, <2>1, <2>2, <2>4 DEF Calm, Listed, Own
    <3>2. news'[k] = news[k]
      BY <1>2, <1>5, <3>1
    <3> QED
      BY <1>2, <1>5, <3>1, <3>2
  <2> QED
    BY <1>3, <2>3, <2>4
<1>11. HandlerOK'
  BY <1>1, <1>2, <1>4, <1>5, NothingFacts DEF Calm, HandlerOK, Idle, LastTry
<1>12. Synced' /\ OkMeansApplied'
  BY <1>1, <1>4 DEF Synced, OkMeansApplied, Idle
<1>13. PlanOK'
  <2>1. Plain(news') = Plain(news)
    BY <1>2 DEF Plain
  <2> QED
    BY <1>1, <2>1 DEF Calm, PlanOK, Working, Plain
<1>14. Progress'
  <2>1. SUFFICES ASSUME Working, ~failed, Clear, NEW k \in DOMAIN news, Handled(news[k].rule), k \notin Pending \ {i}
                 PROVE  \E c \in cloud' : c.rule = news[k].rule
    BY <1>1, <1>2, <1>4, <1>5, <1>6, NothingFacts DEF Progress, Present, Working, Ids
  <2>2. CASE k = i
    BY <1>3, <1>7, <2>2
  <2>3. CASE k # i
    <3>1. Present(news[k].rule)
      BY <1>4, <2>1, <2>3, NothingFacts DEF Calm, Progress, Changing
    <3> QED
      BY <1>3, <3>1 DEF Present
  <2> QED
    BY <2>2, <2>3
<1>15. NothingSkipped'
  <2>1. \A k \in Pending \ {i} : k \in DOMAIN news
    BY <1>4, GoroutineFacts DEF Calm, HandlerOK
  <2> QED
    BY <1>1, <1>2, <1>5, <1>6, <2>1 DEF Calm, NothingSkipped, Working
<1>16. Spares'
  BY <1>1, <1>4, NothingFacts DEF Spares
<1> QED
  BY <1>3, <1>8, <1>9, <1>10, <1>11, <1>12, <1>13, <1>14, <1>15, <1>16 DEF Calm

-----------------------------------------------------------------------------
(* The returns.                                                            *)

LEMMA ReturnErrorCalm ==
  ASSUME Calm, ReturnError, ~Shifted'
  PROVE  Calm'
<1>1. ~Idle /\ failed /\ Stop /\ UNCHANGED <<cloud, config>>
  BY DEF ReturnError
<1>2. ~Abandons
  <2>1. ASSUME Note({"abandoned"}) PROVE Shifted'
    BY <2>1, NoteFacts DEF Shifted, Blinded, Blinding
  <2> QED
    BY <2>1 DEF ReturnError
<1>3. todo.deletes = {} /\ op \in {"create", "update", "migrate"}
  BY <1>1 DEF Calm, HandlerOK, Idle
<1>4. op \in {"create", "migrate"} => Own = {}
  BY <1>1, <1>2 DEF Abandons, Calm, HandlerOK
<1>5. config'.rules \in Seq(Rules)
  BY <1>1 DEF Calm, ListsOK
<1>6. \A es : Partial(es).rules = es /\ Partial(es).id /\ Gone.rules = <<>>
  BY DEF Partial, State, Gone
<1>7. Good(saved'.rules) /\ (saved'.id \/ saved'.rules = <<>>) /\ told' = "error" /\ fresh' = FALSE
  <2>1. CASE op = "create"
    <3>1. Save(Gone, "error")
      BY <2>1 DEF ReturnError
    <3> QED
      BY <1>4, <1>6, <2>1, <3>1, EmptyList DEF Save, Good, Ids
  <2>2. CASE op = "update"
    <3>1. Save(Partial(news), "error")
      BY <2>2 DEF ReturnError
    <3>2. Good(news)
      BY <1>1, <1>3 DEF Calm, ListsOK, KeysFit, Listed, Good, Ids, Wanted
    <3> QED
      BY <1>6, <3>1, <3>2 DEF Save
  <2>3. CASE op = "migrate"
    <3>1. Save(Partial(Planned), "error")
      BY <2>3 DEF ReturnError
    <3>2. Good(Planned)
      BY <1>4, <2>3, PlannedFacts DEF Good, Ids
    <3> QED
      BY <1>6, <3>1, <3>2 DEF Save
  <2> QED
    BY <1>3, <2>1, <2>2, <2>3
<1>8. OkMeansApplied'
  BY <1>7 DEF OkMeansApplied
<1> QED
  BY <1>1, <1>5, <1>7, <1>8, StopFacts, Resting

\* A handler that is through has made every rule, and knows those of the resource.
LEMMA OverFacts ==
  ASSUME Calm, Over
  PROVE  /\ op \in {"create", "update", "migrate"} => Good(news)
         /\ op = "destroy" => Own = {}
         /\ Working /\ ~failed /\ Clear => InPlace
<1>1. /\ todo.deletes = {} /\ todo.updates = {} /\ todo.creates = {}
      /\ \A i \in DOMAIN stage : stage[i] \in {"done", "leaked"}
  BY DEF Over, Pool!Returned
<1>2. Pending = {}
  BY <1>1 DEF Pending
<1>3. op \in {"create", "update", "migrate"} => Good(news)
  BY <1>1 DEF Calm, ListsOK, KeysFit, Listed, Good, Ids, Wanted, Idle
<1>4. op = "destroy" => Own = {}
  BY <1>1 DEF Calm, Listed, Idle
<1>5. ASSUME Working, ~failed, Clear PROVE InPlace
  <2>1. Plain(news) = config.rules
    BY <1>5 DEF Calm, PlanOK
  <2>2. SUFFICES ASSUME NEW k \in DOMAIN config.rules, Handled(config.rules[k])
                 PROVE  config.rules[k] \in {c.rule : c \in cloud}
    BY DEF InPlace, Range
  <2>3. k \in DOMAIN news /\ news[k].rule = config.rules[k]
    BY <2>1 DEF Plain
  <2>4. Present(news[k].rule)
    BY <1>1, <1>2, <1>5, <2>2, <2>3 DEF Calm, Progress, Changing
  <2> QED
    BY <2>3, <2>4 DEF Present
<1> QED
  BY <1>3, <1>4, <1>5

\* The blocks without a uuid want no rule.
LEMMA ResultsFacts ==
  ASSUME Calm, Good(news)
  PROVE  Good(Results)
<1> DEFINE order == InOrder(Made)
           size == Cardinality(Made)
<1>1. Made \subseteq DOMAIN news
  BY DEF Made
<1>2. Made \subseteq Nat /\ IsFiniteSet(Made)
  BY <1>1, PlacesFacts DEF Good, Blocks
<1>3. size \in Nat /\ DOMAIN Results = 1..size
  BY <1>2, SelectFacts DEF Results
<1>4. /\ order \in [1..size -> Made] /\ \A n \in 1..size : Results[n] = news[order[n]]
      /\ \A i \in Made : \E n \in 1..size : order[n] = i
  <2>1. order \in [1..size -> Made] /\ \A i \in Made : \E n \in 1..size : order[n] = i
    BY <1>2, SelectFacts
  <2>2. \A n \in 1..size : Results[n] = news[order[n]]
    BY <1>2, SelectFacts DEF Results
  <2> QED
    BY <2>1, <2>2
<1> HIDE DEF order, size
<1>5. \A n \in 1..size : order[n] \in DOMAIN news
  BY <1>1, <1>4
<1>6. Blocks(Results)
  BY <1>3, <1>4, <1>5 DEF Good, Blocks, IsList
<1>7. FitsAll(Results)
  BY <1>3, <1>4, <1>5 DEF Good, FitsAll
<1>8. Ids(Own) \subseteq Wanted(Results)
  <2>1. SUFFICES ASSUME NEW u \in Ids(Own) PROVE u \in Wanted(Results)
    OBVIOUS
  <2>2. PICK i \in DOMAIN news : u \in Wants(news[i])
    BY DEF Good, Wanted
  <2>3. i \in Made
    <3>1. Key(news[i].rule) \in DOMAIN news[i].uuids
      BY <2>2 DEF Wants
    <3>2. DOMAIN NoUuids = {}
      BY DEF NoUuids
    <3> QED
      BY <3>1, <3>2 DEF Made
  <2> QED
    BY <1>3, <1>4, <2>2, <2>3 DEF Wanted
<1> QED
  BY <1>6, <1>7, <1>8 DEF Good

LEMMA ReturnReadCalm ==
  ASSUME Calm, ReturnRead, Remembers, ~Shifted'
  PROVE  Calm'
<1> DEFINE es == IF op = "create" THEN Results ELSE news
<1>1. /\ op \in {"create", "update"} /\ ~failed /\ Over /\ FinishWithRead(es) /\ Stop
      /\ UNCHANGED <<cloud, config>>
  BY DEF ReturnRead
<1>2. Good(news) /\ (Clear => InPlace)
  BY <1>1, OverFacts DEF Working
<1>3. Good(es)
  BY <1>2, ResultsFacts
<1> HIDE DEF es
<1>4. Clear' => InPlace
  BY <1>2, ClearFacts
<1> QED
  BY <1>1, <1>3, <1>4, StopFacts, Finishing

LEMMA ReturnMigratedCalm ==
  ASSUME Calm, ReturnMigrated, Remembers
  PROVE  Calm'
<1>1. /\ op = "migrate" /\ ~failed /\ Over /\ Stop /\ UNCHANGED <<cloud, config>>
      /\ saved' = State(Results, FALSE, config.managed) /\ fresh' = FALSE
  BY DEF ReturnMigrated, Save
<1>2. Good(news) /\ (Clear => InPlace)
  BY <1>1, OverFacts DEF Working
<1>3. Good(saved'.rules) /\ saved'.id
  BY <1>1, <1>2, ResultsFacts DEF State
<1>4. OkMeansApplied'
  BY <1>1, <1>2, ClearFacts DEF OkMeansApplied, InPlace
<1>5. config'.rules \in Seq(Rules)
  BY <1>1 DEF Calm, ListsOK
<1> QED
  BY <1>1, <1>3, <1>4, <1>5, StopFacts, Resting

LEMMA ReturnDeletedCalm ==
  ASSUME Calm, ReturnDeleted
  PROVE  Calm'
<1>1. /\ op = "destroy" /\ Over /\ Stop /\ UNCHANGED <<cloud, config>>
      /\ saved' = Gone /\ fresh' = FALSE /\ told' = "none"
  BY DEF ReturnDeleted, Save
<1>2. saved'.rules = <<>>
  BY <1>1 DEF Gone
<1>3. Good(saved'.rules)
  BY <1>1, <1>2, OverFacts, EmptyList DEF Good, Ids
<1>4. OkMeansApplied' /\ config'.rules \in Seq(Rules)
  BY <1>1 DEF OkMeansApplied, Calm, ListsOK
<1> QED
  BY <1>1, <1>2, <1>3, <1>4, StopFacts, Resting

-----------------------------------------------------------------------------
(* All steps.                                                              *)

LEMMA StepRemembers ==
  ASSUME Next
  PROVE  Remembers
<1>1. \A kind : Fault(kind) => Remembers
  BY FaultFacts
<1>2. \A kinds : Note(kinds) => Remembers
  BY NoteFacts
<1>3. faults' = faults => Remembers
  BY DEF Remembers
<1>4. NoFault => Remembers
  BY NoFaultFacts
<1>5. \A es : FinishWithRead(es) => Remembers
  BY <1>1, <1>4 DEF FinishWithRead
<1>6. ASSUME Terraform PROVE Remembers
  <2>1. ASSUME Refresh PROVE Remembers
    BY <2>1, <1>1, <1>4 DEF Refresh
  <2>2. ASSUME Create PROVE Remembers
    BY <2>2, <1>4, <1>5 DEF Create
  <2>3. ASSUME Update PROVE Remembers
    BY <2>3, <1>2, <1>4, <1>5 DEF Update, RejectUpdate, NormalUpdate, MigratingUpdate
  <2>4. ASSUME Delete PROVE Remembers
    BY <2>4, <1>3 DEF Delete
  <2> QED
    BY <1>6, <2>1, <2>2, <2>3, <2>4 DEF Terraform
<1>7. ASSUME NEW u, DeleteRule(u) \/ DeleteFails(u) PROVE Remembers
  BY <1>7, <1>1, <1>4 DEF DeleteRule, DeleteFails
<1>8. ASSUME NEW x, UpdateRule(x) \/ UpdateFails(x) PROVE Remembers
  BY <1>8, <1>1, <1>4 DEF UpdateRule, UpdateFails
<1>9. ASSUME FanOut PROVE Remembers
  BY <1>9, <1>3 DEF FanOut
<1>10. ASSUME NEW i, Goroutine(i) PROVE Remembers
  BY <1>10, <1>1, <1>3, <1>4 DEF Goroutine, Acquire, SkipRule, RejectRule, CreateRule, CreateFails
<1>11. ASSUME Return PROVE Remembers
  BY <1>11, <1>2, <1>3, <1>4, <1>5 DEF Return, ReturnError, ReturnRead, ReturnMigrated, ReturnDeleted
<1>12. ASSUME Environment PROVE Remembers
  BY <1>12, <1>1, <1>3 DEF Environment, Edit, Import, DeleteOutOfBand, CreateForeign, Crash
<1> QED
  BY <1>6, <1>7, <1>8, <1>9, <1>10, <1>11, <1>12 DEF Next, Provider, Calls

LEMMA StepCalm ==
  ASSUME Calm, Next, ~Shifted'
  PROVE  Calm'
<1>1. Remembers
  BY StepRemembers
<1>2. CASE Terraform
  BY <1>2, RefreshCalm, CreateCalm, UpdateCalm, DeleteCalm DEF Terraform
<1>3. CASE Calls
  <2>1. ASSUME NEW u, DeleteRule(u) \/ DeleteFails(u) PROVE Calm'
    BY <1>1, <2>1, DeleteRuleCalm, DeleteFailsShifts
  <2>2. ASSUME NEW x, UpdateRule(x) \/ UpdateFails(x) PROVE Calm'
    BY <1>1, <2>2, UpdateRuleCalm, UpdateFailsCalm
  <2>3. ASSUME NEW i \in DOMAIN stage, Goroutine(i) PROVE Calm'
    BY <1>1, <2>3, AcquireCalm, SkipRuleCalm, RejectRuleCalm, CreateRuleCalm, CreateFailsCalm DEF Goroutine
  <2> QED
    BY <1>3, <2>1, <2>2, <2>3, FanOutCalm DEF Calls
<1>4. CASE Return
  BY <1>1, <1>4, ReturnErrorCalm, ReturnReadCalm, ReturnMigratedCalm, ReturnDeletedCalm DEF Return
<1>5. CASE Environment
  <2>1. ~DeleteOutOfBand /\ ~Crash
    BY FaultFacts DEF DeleteOutOfBand, Crash, Blinding
  <2> QED
    BY <1>1, <1>5, <2>1, EditCalm, ImportCalm, CreateForeignCalm DEF Environment
<1> QED
  BY <1>2, <1>3, <1>4, <1>5 DEF Next, Provider

LEMMA StutterCalm ==
  ASSUME Calm, UNCHANGED vars
  PROVE  Calm'
<1>1. UNCHANGED <<cloud, config, saved, fresh, op, news, todo, tries, stage, failed, told, faults>>
  BY DEF vars
<1>2. CloudOK' /\ ListsOK' /\ KeysFit' /\ Listed' /\ UpdatesOK'
  BY <1>1 DEF Calm, CloudOK, ListsOK, KeysFit, FitsAll, Listed, Own, Pending, UpdatesOK, Idle
<1>3. HandlerOK'
  BY <1>1 DEF Calm, HandlerOK, LastTry
<1>4. Clear' <=> Clear
  BY <1>1 DEF Clear, Shifted, Blinded
<1>5. Synced' /\ OkMeansApplied' /\ PlanOK'
  BY <1>1, <1>4 DEF Calm, Synced, Shows, OkMeansApplied, PlanOK, Idle, Working
<1>6. Progress' /\ NothingSkipped' /\ Spares'
  BY <1>1, <1>4 DEF Calm, Progress, Present, Changing, NothingSkipped, Spares, Own, Stays, Pending, Working
<1> QED
  BY <1>2, <1>3, <1>5, <1>6 DEF Calm

LEMMA InitCalm ==
  ASSUME Init
  PROVE  Calm
<1>1. /\ cloud = {} /\ config.rules = <<>> /\ saved.rules = <<>> /\ fresh = FALSE /\ told = "none"
      /\ op = "idle" /\ news = <<>> /\ todo = Nothing /\ ~failed /\ DOMAIN tries = {} /\ DOMAIN stage = {}
  BY DEF Init, Absent, Gone, NoJobs, Pool!Spawn
<1>2. CloudOK
  BY <1>1, FS_EmptySet DEF CloudOK
<1>3. <<>> \in Seq(Rules)
  OBVIOUS
<1>4. ListsOK /\ KeysFit
  BY <1>1, <1>3, EmptyList DEF ListsOK, KeysFit
<1>5. Listed /\ Synced /\ OkMeansApplied
  BY <1>1 DEF Listed, Own, Synced, OkMeansApplied
<1>6. HandlerOK /\ UpdatesOK
  BY <1>1, EmptyList, NothingFacts DEF HandlerOK, UpdatesOK
<1>7. PlanOK /\ Progress /\ NothingSkipped /\ Spares
  BY <1>1 DEF PlanOK, Progress, NothingSkipped, Spares, Working
<1> QED
  BY <1>2, <1>4, <1>5, <1>6, <1>7 DEF Calm

-----------------------------------------------------------------------------
(* The theorems.                                                           *)

LEMMA Invariance == Spec => []IInv
<1>1. Init => IInv
  BY InitCalm DEF IInv
<1>2. IInv /\ [Next]_vars => IInv'
  <2>1. SUFFICES ASSUME IInv, [Next]_vars, ~Shifted' PROVE Calm'
    BY DEF IInv
  <2>2. CASE Next
    <3>1. ~Shifted
      BY <2>1, <2>2, StepRemembers, ClearFacts
    <3> QED
      BY <2>1, <2>2, <3>1, StepCalm DEF IInv
  <2>3. CASE UNCHANGED vars
    <3>1. ~Shifted
      BY <2>1, <2>3 DEF Shifted, Blinded, vars
    <3> QED
      BY <2>1, <2>3, <3>1, StutterCalm DEF IInv
  <2> QED
    BY <2>1, <2>2, <2>3
<1> QED
  BY <1>1, <1>2, PTL DEF Spec

\* No rule that the resource made is forgotten: a block or the handler's list of what
\* to delete has its uuid, unless one of the faults that Shifted names came before.
THEOREM RulesTracked == Spec => []Tracked
<1>1. IInv => Tracked
  <2>1. SUFFICES ASSUME Calm, NEW c \in Own PROVE c.uuid \in Remembered
    BY DEF IInv, Tracked, Ids
  <2>2. \A es : Wanted(es) \subseteq UuidsIn(es)
    BY DEF Wanted, Wants, UuidsIn, Range
  <2>3. \/ c.uuid \in Wanted(saved.rules) \/ c.uuid \in todo.deletes \/ c.uuid \in Wanted(news)
    BY <2>1 DEF Calm, Listed, Wanted
  <2>4. todo.deletes \subseteq UuidsIn(saved.rules)
    BY <2>1 DEF Calm, HandlerOK
  <2> QED
    BY <2>2, <2>3, <2>4 DEF Remembered
<1> QED
  BY <1>1, Invariance, PTL

\* An operation that reports success has put every configured rule into the ACL.
THEOREM OkRulesApplied == Spec => []OkMeansApplied
<1>1. IInv => OkMeansApplied
  BY DEF IInv, Calm, OkMeansApplied, Clear
<1> QED
  BY <1>1, Invariance, PTL

LEMMA StepSpares ==
  ASSUME Calm, [Next]_vars, op = "update", Clear, ~DeleteOutOfBand, NEW c \in Own, Stays(c)
  PROVE  c.uuid \in Ids(cloud')
<1>1. c \in cloud /\ c.uuid \notin todo.deletes /\ ~Idle
  BY DEF Own, Calm, Spares, Idle
<1>2. ASSUME cloud \subseteq cloud' PROVE c.uuid \in Ids(cloud')
  BY <1>1, <1>2 DEF Ids
<1>3. ASSUME NEW r, NEW ours, NewRule(r, ours) PROVE c.uuid \in Ids(cloud')
  BY <1>2, <1>3 DEF NewRule
<1>4. ASSUME NEW u \in todo.deletes, DeleteRule(u) \/ DeleteFails(u) PROVE c.uuid \in Ids(cloud')
  <2>1. cloud' = cloud \/ cloud' = {e \in cloud : e.uuid # u}
    BY <1>4 DEF DeleteRule, DeleteFails, RemoveRule
  <2> QED
    BY <1>1, <2>1 DEF Ids
<1>5. ASSUME NEW x \in todo.updates, UpdateRule(x) \/ UpdateFails(x) PROVE c.uuid \in Ids(cloud')
  <2>1. cloud' = cloud \/ ChangeRule(x)
    BY <1>5 DEF UpdateRule, UpdateFails
  <2>2. Ids(cloud') = Ids(cloud) \/ cloud' = cloud
    BY <2>1, ChangeRuleFacts
  <2> QED
    BY <1>1, <2>2 DEF Ids
<1>6. CASE FanOut
  BY <1>2, <1>6 DEF FanOut
<1>7. ASSUME NEW i, Goroutine(i) PROVE c.uuid \in Ids(cloud')
  BY <1>2, <1>3, <1>7 DEF Goroutine, Acquire, SkipRule, RejectRule, CreateRule, CreateFails
<1>8. CASE Return
  BY <1>2, <1>8 DEF Return, ReturnError, ReturnRead, ReturnMigrated, ReturnDeleted
<1>9. CASE Environment
  <2>1. ~Edit /\ ~Import
    BY <1>1 DEF Edit, Import
  <2> QED
    BY <1>2, <1>3, <1>9, <2>1 DEF Environment, CreateForeign, Crash
<1>10. ~Terraform
  BY <1>1 DEF Terraform, Refresh, Create, Update, Delete
<1>11. CASE UNCHANGED vars
  BY <1>2, <1>11 DEF vars
<1> QED
  BY <1>4, <1>5, <1>6, <1>7, <1>8, <1>9, <1>10, <1>11 DEF Next, Provider, Calls

\* An update deletes no rule whose block stays in the list as it is.
THEOREM KeptRulesStay == Spec => KeptRulesSurvive
<1>1. IInv /\ [Next]_vars =>
        [op = "update" /\ Clear /\ ~DeleteOutOfBand =>
           \A c \in Own : Stays(c) => c.uuid \in Ids(cloud')]_vars
  <2>1. SUFFICES ASSUME IInv, [Next]_vars, op = "update", Clear, ~DeleteOutOfBand, NEW c \in Own, Stays(c)
                 PROVE  c.uuid \in Ids(cloud')
    OBVIOUS
  <2>2. Calm
    BY <2>1 DEF IInv, Clear
  <2> QED
    BY <2>1, <2>2, StepSpares
<1> QED
  BY <1>1, Invariance, PTL DEF Spec, KeptRulesSurvive

=============================================================================
