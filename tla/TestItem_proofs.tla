-------------------------- MODULE TestItem_proofs --------------------------
(***************************************************************************)
(* Proofs about the menu interpreter, for every tree of menus: any number  *)
(* of items in any order, enabled or not, in the auto-test or not.         *)
(***************************************************************************)
EXTENDS TestItem, FiniteSetTheorems, SequenceTheorems, TLAPS

(***************************************************************************)
(* The inductive invariant                                                 *)
(***************************************************************************)
\* How deep each menu lies.
IsDepth(d) ==
    \A m \in Menus : \A k \in DOMAIN Items[m] :
        Items[m][k] \in Menus => d[Items[m][k]] > d[m]

Depth == CHOOSE d \in [Menus -> 0 .. 19] : IsDepth(d)

Activations ==
    [menu : Menus, autotest : BOOLEAN, pc : {"prompt", "z", "zrun", "run"},
     i : Nat, item_index : Nat, err_flag : {0, -1}, start : Nat]

\* The locals of an activation are in range.
FrameOK(f, n) ==
    /\ f.i <= act_test_item_num(f.menu)
    /\ f.pc = "zrun" => f.i < act_test_item_num(f.menu)
    /\ f.pc = "run" => f.item_index < act_test_item_num(f.menu)
    /\ f.start <= n

StackInv ==
    /\ stack \in Seq(Activations)
    /\ \A k \in 1 .. Len(stack) :
         FrameOK(stack[k], fails) /\ k - 1 <= Depth[stack[k].menu]

\* An activation that has called another one runs an item.  If it is an
\* auto-test so is the one it has called, and err_flag tells what had failed
\* when it was called.
CallOK(f, g) ==
    /\ f.pc \in {"run", "zrun"}
    /\ f.pc = "zrun" =>
         /\ g.pc \in {"z", "zrun"} /\ f.start <= g.start
         /\ f.err_flag = -1 <=> g.start > f.start

CallInv == \A k \in 1 .. Len(stack) - 1 : CallOK(stack[k], stack[k + 1])

\* The active one: err_flag, with the result that has just been returned,
\* tells what has failed.
TopOK(f) ==
    /\ ret = NoReturn =>
         /\ f.pc \in {"prompt", "z"}
         /\ f.pc = "z" => (f.err_flag = -1 <=> fails > f.start)
    /\ ret # NoReturn =>
         /\ f.pc \in {"run", "zrun"}
         /\ f.pc = "zrun" =>
              (f.err_flag = -1 \/ ret = -1 <=> fails > f.start)

TopInv ==
    /\ stack = <<>> => ret = NoReturn
    /\ stack # <<>> => TopOK(top)

NameInv ==
    /\ DOMAIN test_item_name \subseteq 0 .. 19
    /\ ret \in {NoReturn, 0, -1} /\ fails \in 0 .. MaxFails

IInv == StackInv /\ CallInv /\ TopInv /\ NameInv /\ PromptIsPath

(***************************************************************************)
(* Menus and their enabled items                                           *)
(***************************************************************************)
\* Induction over the natural numbers, for sets.
LEMMA SetInduction ==
    ASSUME NEW S, 0 \in S, \A n \in Nat : n \in S => n + 1 \in S
    PROVE  Nat \subseteq S
<1> SUFFICES ASSUME Nat \ S # {} PROVE FALSE
    OBVIOUS
<1> DEFINE R == OpToRel(<, Nat)
<1>1. IsWellFoundedOn(R, Nat)
    BY NatLessThanWellFounded
<1>2. PICK m \in Nat \ S : \A k \in Nat \ S : ~(<<k, m>> \in R)
    BY <1>1, WFMin
<1>3. \A k \in Nat : k < m => <<k, m>> \in R
    BY DEF OpToRel
<1> HIDE DEF R
<1>4. m # 0 /\ m - 1 \in Nat /\ m - 1 < m
    OBVIOUS
<1>5. m - 1 \in S
    BY <1>2, <1>3, <1>4
<1>6. QED
    BY <1>4, <1>5

\* The places of the enabled items can be listed in order.
LEMMA Listing ==
    ASSUME NEW n \in Nat, NEW S \in SUBSET (1 .. n)
    PROVE  /\ Cardinality(S) \in Nat
           /\ \E p \in [1 .. Cardinality(S) -> S] :
                \A a, b \in 1 .. Cardinality(S) : a < b => p[a] < p[b]
<1> DEFINE Listed(s) ==
             \E p \in [1 .. Cardinality(s) -> s] :
                \A a, b \in 1 .. Cardinality(s) : a < b => p[a] < p[b]
           N == {k \in Nat : \A s \in SUBSET (1 .. k) : Listed(s)}
<1>1. 0 \in N
  <2>1. \A s \in SUBSET (1 .. 0) : s = {} /\ Cardinality(s) = 0
    <3>1. 1 .. 0 = {}
      OBVIOUS
    <3>2. QED
      BY <3>1, FS_EmptySet
  <2>2. \A s \in SUBSET (1 .. 0) : <<>> \in [1 .. Cardinality(s) -> s]
    BY <2>1
  <2>3. QED
    BY <2>1, <2>2
<1>2. ASSUME NEW k \in Nat, k \in N PROVE k + 1 \in N
  <2>0. \A s \in SUBSET (1 .. k) : Listed(s)
    BY <1>2
  <2> HIDE DEF Listed
  <2> SUFFICES ASSUME NEW s \in SUBSET (1 .. k + 1) PROVE Listed(s)
    OBVIOUS
  <2> USE DEF Listed
  <2>1. CASE k + 1 \notin s
    <3>1. s \in SUBSET (1 .. k)
      BY <2>1
    <3>2. QED
      BY <2>0, <3>1
  <2>2. CASE k + 1 \in s
    <3> DEFINE r == s \ {k + 1}
               c == Cardinality(r)
    <3>1. /\ r \in SUBSET (1 .. k) /\ IsFiniteSet(1 .. k)
          /\ IsFiniteSet(1 .. k + 1)
      <4>1. r \in SUBSET (1 .. k)
        OBVIOUS
      <4>2. 1 \in Int /\ k \in Int /\ k + 1 \in Int
        OBVIOUS
      <4>3. QED
        BY <4>1, <4>2, FS_Interval
    <3>2. /\ IsFiniteSet(r) /\ IsFiniteSet(s) /\ c \in Nat
          /\ Cardinality(s) = c + 1
      <4>1. IsFiniteSet(r) /\ IsFiniteSet(s)
        BY <3>1, FS_Subset
      <4>2. c \in Nat /\ Cardinality(s) \in Nat /\ c = Cardinality(s) - 1
        BY <2>2, <4>1, FS_CardinalityType, FS_RemoveElement
      <4>3. QED
        BY <4>1, <4>2
    <3>3. PICK p \in [1 .. c -> r] : \A a, b \in 1 .. c : a < b => p[a] < p[b]
      BY <2>0, <3>1
    <3> HIDE DEF c
    <3> DEFINE q == [j \in 1 .. c + 1 |-> IF j = c + 1 THEN k + 1 ELSE p[j]]
    <3>4. q \in [1 .. c + 1 -> s]
      BY <2>2, <3>2, <3>3
    <3>5. ASSUME NEW a \in 1 .. c + 1, NEW b \in 1 .. c + 1, a < b
          PROVE  q[a] < q[b]
      <4>1. a \in 1 .. c /\ p[a] \in 1 .. k /\ q[a] = p[a]
        <5>1. a \in 1 .. c
          BY <3>2, <3>5
        <5>2. p[a] \in r
          BY <3>3, <5>1
        <5>3. p[a] \in 1 .. k
          BY <3>1, <5>2
        <5>4. a # c + 1 /\ a \in 1 .. c + 1
          BY <3>2, <5>1
        <5>5. QED
          BY <5>1, <5>3, <5>4
      <4>2. CASE b = c + 1
        BY <4>1, <4>2
      <4>3. CASE b # c + 1
        BY <3>2, <3>3, <3>5, <4>1, <4>3
      <4>4. QED
        BY <4>2, <4>3
    <3>6. QED
      BY <3>2, <3>4, <3>5
  <2>3. QED
    BY <2>1, <2>2
<1> HIDE DEF N
<1>3. n \in N
    BY <1>1, <1>2, SetInduction
<1>4. Listed(S)
    BY <1>3 DEF N
<1>5. Cardinality(S) \in Nat
  <2>1. IsFiniteSet(1 .. n)
    BY FS_Interval
  <2>2. IsFiniteSet(S)
    BY <2>1, FS_Subset
  <2>3. QED
    BY <2>2, FS_CardinalityType
<1>6. QED
    BY <1>4, <1>5

\* test_item_get_act_items: what a menu offers are items of it.
LEMMA ActItems ==
    ASSUME NEW m \in Menus
    PROVE  /\ act_test_item_num(m) \in Nat
           /\ \A n \in 0 .. act_test_item_num(m) - 1 :
                \E k \in DOMAIN Items[m] : act_test_item(m, n) = Items[m][k]
<1>1. Items[m] \in Seq(AllItems)
    BY TestItemAssumption DEF TestItemAssumption
<1>2. Len(Items[m]) \in Nat /\ Places(m) \in SUBSET (1 .. Len(Items[m]))
    BY <1>1 DEF Places
<1>3. act_test_item_num(m) \in Nat
    BY <1>2, Listing DEF act_test_item_num
<1>4. \E p \in [1 .. act_test_item_num(m) -> Places(m)] :
        \A a, b \in DOMAIN p : a < b => p[a] < p[b]
    BY <1>2, Listing DEF act_test_item_num
<1>5. act_test_item_array(m) \in [1 .. act_test_item_num(m) -> Places(m)]
    BY <1>4 DEF act_test_item_array
<1>6. ASSUME NEW n \in 0 .. act_test_item_num(m) - 1
      PROVE  \E k \in DOMAIN Items[m] : act_test_item(m, n) = Items[m][k]
  <2>1. n + 1 \in 1 .. act_test_item_num(m)
    BY <1>3
  <2>2. act_test_item_array(m)[n + 1] \in DOMAIN Items[m]
    BY <1>5, <2>1 DEF Places
  <2>3. QED
    BY <2>2 DEF act_test_item
<1>7. QED
    BY <1>3, <1>6

\* A menu offered by another one lies deeper.
LEMMA Deeper ==
    ASSUME NEW m \in Menus
    PROVE  /\ Depth[m] \in 0 .. 19
           /\ \A n \in 0 .. act_test_item_num(m) - 1 :
                act_test_item(m, n) \in Menus =>
                  Depth[act_test_item(m, n)] > Depth[m]
<1>1. \E d \in [Menus -> 0 .. 19] : IsDepth(d)
    BY NestingAssumption DEF NestingAssumption, IsDepth
<1>2. Depth \in [Menus -> 0 .. 19] /\ IsDepth(Depth)
    BY <1>1 DEF Depth
<1>3. QED
    BY <1>2, ActItems DEF IsDepth

(***************************************************************************)
(* The stack of activations                                                *)
(***************************************************************************)
\* The last activation replaced, another one called, the last one gone.
LEMMA PutFacts ==
    ASSUME NEW s \in Seq(Activations), s # <<>>, NEW f \in Activations
    PROVE  /\ Put(s, f) \in Seq(Activations) /\ Len(Put(s, f)) = Len(s)
           /\ Len(s) \in Nat \ {0} /\ Put(s, f) # <<>>
           /\ \A k \in 1 .. Len(s) :
                Put(s, f)[k] = IF k = Len(s) THEN f ELSE s[k]
BY DEF Put

LEMMA PushFacts ==
    ASSUME NEW s \in Seq(Activations), NEW g \in Activations
    PROVE  /\ Append(s, g) \in Seq(Activations)
           /\ Len(s) \in Nat /\ Len(Append(s, g)) = Len(s) + 1
           /\ \A k \in 1 .. Len(s) + 1 :
                Append(s, g)[k] = IF k = Len(s) + 1 THEN g ELSE s[k]
OBVIOUS

LEMMA PopFacts ==
    ASSUME NEW s \in Seq(Activations), s # <<>>
    PROVE  LET u == SubSeq(s, 1, Len(s) - 1)
           IN  /\ u \in Seq(Activations) /\ Len(u) = Len(s) - 1
               /\ Len(s) \in Nat \ {0}
               /\ \A k \in 1 .. Len(s) - 1 : u[k] = s[k]
<1>1. Len(s) \in Nat \ {0}
    OBVIOUS
<1> DEFINE n == Len(s) - 1
           u == SubSeq(s, 1, n)
<1>2. n \in Nat /\ \A k \in 1 .. n : s[k] \in Activations
    BY <1>1
<1> HIDE DEF n
<1>3. /\ u \in Seq(Activations) /\ Len(u) = IF 1 <= n THEN n - 1 + 1 ELSE 0
      /\ \A k \in 1 .. n - 1 + 1 : u[k] = s[1 + k - 1]
    BY <1>2, SubSeqProperties
<1>4. \A k \in 1 .. n : 1 + k - 1 = k /\ k \in 1 .. n - 1 + 1
    BY <1>2
<1> HIDE DEF u
<1>5. Len(u) = n /\ \A k \in 1 .. n : u[k] = s[k]
    BY <1>2, <1>3, <1>4
<1>6. QED
    BY <1>1, <1>3, <1>5 DEF n, u

\* The active one works on within its call.
LEMMA PutStep ==
    ASSUME IInv, stack # <<>>, NEW f \in Activations,
           FrameOK(f, fails'), f.menu = top.menu,
           top.pc \in {"z", "zrun"} =>
             f.pc \in {"z", "zrun"} /\ f.start = top.start,
           stack' = Put(stack, f), fails' \in Nat, fails' >= fails
    PROVE  /\ StackInv' /\ CallInv' /\ Len(stack') = Len(stack)
           /\ top' = f /\ stack' # <<>>
           /\ \A k \in 1 .. Len(stack) : stack'[k].menu = stack[k].menu
<1>1. /\ stack' \in Seq(Activations) /\ Len(stack') = Len(stack)
      /\ Len(stack) \in Nat \ {0} /\ stack' # <<>>
      /\ \A k \in 1 .. Len(stack) :
           stack'[k] = IF k = Len(stack) THEN f ELSE stack[k]
    BY PutFacts DEF IInv, StackInv
<1>2. top' = f
    BY <1>1 DEF top
<1>3. \A k \in 1 .. Len(stack) : stack'[k].menu = stack[k].menu
    BY <1>1 DEF top
<1>4. StackInv'
  <2> SUFFICES ASSUME NEW k \in 1 .. Len(stack)
               PROVE  FrameOK(stack'[k], fails') /\ k - 1 <= Depth[stack'[k].menu]
    BY <1>1 DEF StackInv
  <2>1. /\ FrameOK(stack[k], fails) /\ k - 1 <= Depth[stack[k].menu]
        /\ stack[k] \in Activations /\ fails \in Nat
    BY <1>1 DEF IInv, StackInv, NameInv
  <2>2. FrameOK(stack'[k], fails')
    <3>1. CASE k = Len(stack)
      BY <1>1, <3>1 DEF FrameOK
    <3>2. CASE k # Len(stack)
      <4>1. stack'[k] = stack[k] /\ stack[k].start \in Nat
        BY <1>1, <2>1, <3>2 DEF Activations
      <4>2. stack[k].start <= fails'
        BY <2>1, <4>1 DEF FrameOK
      <4>3. QED
        BY <2>1, <4>1, <4>2 DEF FrameOK
    <3>3. QED
      BY <3>1, <3>2
  <2>3. QED
    BY <1>3, <2>1, <2>2
<1>5. CallInv'
  <2> SUFFICES ASSUME NEW k \in 1 .. Len(stack) - 1
               PROVE  CallOK(stack'[k], stack'[k + 1])
    BY <1>1 DEF CallInv
  <2>1. CallOK(stack[k], stack[k + 1]) /\ stack'[k] = stack[k]
    BY <1>1 DEF IInv, CallInv
  <2>2. CASE k + 1 = Len(stack)
    <3>1. stack[k + 1] = top /\ stack'[k + 1] = f
      BY <1>1, <2>2 DEF top
    <3>2. QED
      BY <2>1, <3>1 DEF CallOK
  <2>3. CASE k + 1 # Len(stack)
    <3>1. stack'[k + 1] = stack[k + 1]
      BY <1>1, <2>3
    <3>2. QED
      BY <2>1, <3>1
  <2>4. QED
    BY <2>2, <2>3
<1>6. QED
    BY <1>1, <1>2, <1>3, <1>4, <1>5

\* What an activation that is about to run item n of its menu looks like.
Runs(f, n, autotest) ==
    /\ f \in Activations /\ FrameOK(f, fails) /\ f.menu = top.menu
    /\ n \in 0 .. act_test_item_num(f.menu) - 1
    /\ top.pc = "z" => f.pc = "zrun" /\ f.start = top.start
    /\ \/ f.pc = "run" /\ autotest = FALSE
       \/ /\ f.pc = "zrun" /\ autotest = TRUE
          /\ f.err_flag = -1 <=> fails > f.start

LEMMA OneDeeper ==
    ASSUME NEW n \in Nat \ {0}, NEW a \in 0 .. 19, NEW b \in 0 .. 19,
           b > a, n - 1 <= a
    PROVE  n <= b /\ n - 1 \in 0 .. 19
OBVIOUS

LEMMA WithinDepth ==
    ASSUME NEW n \in Nat \ {0}, NEW a \in 0 .. 19, n - 1 <= a
    PROVE  n - 1 \in 0 .. 19
OBVIOUS

\* The item is a menu: it is called, one layer further down.
LEMMA CallStep ==
    ASSUME IInv, stack # <<>>, ret = NoReturn, NEW f, NEW n, NEW autotest,
           Runs(f, n, autotest), act_test_item(f.menu, n) \in Menus,
           Run(act_test_item(f.menu, n), autotest, f)
    PROVE  IInv'
<1> DEFINE it == act_test_item(f.menu, n)
           g == Activation(it, autotest, fails)
           len == Len(stack)
<1>1. /\ stack \in Seq(Activations) /\ f \in Activations /\ fails \in Nat
      /\ autotest \in BOOLEAN /\ it \in Menus /\ top.pc \in {"prompt", "z"}
      /\ f.menu = top.menu /\ len \in Nat \ {0} /\ top = stack[len]
      /\ f.menu \in Menus
  <2>1. stack \in Seq(Activations) /\ fails \in Nat
    BY TestItemAssumption DEF TestItemAssumption, IInv, StackInv, NameInv
  <2>2. /\ f \in Activations /\ autotest \in BOOLEAN /\ f.menu = top.menu
        /\ f.menu \in Menus
    BY DEF Runs, Activations
  <2>3. top.pc \in {"prompt", "z"}
    BY DEF IInv, TopInv, TopOK
  <2>4. QED
    BY <2>1, <2>2, <2>3 DEF top
<1>2. g \in Activations
    BY <1>1 DEF Activation, Activations
<1>3. /\ stack' = Append(Put(stack, f), g) /\ shell_layer' = shell_layer + 1
      /\ UNCHANGED <<ret, fails>>
      /\ test_item_name' = [l \in DOMAIN test_item_name \cup {shell_layer} |->
                              IF l = shell_layer THEN it ELSE test_item_name[l]]
    BY <1>1 DEF Run
<1>4. /\ stack' \in Seq(Activations) /\ Len(stack') = len + 1
      /\ stack'[len + 1] = g /\ stack'[len] = f
      /\ \A k \in 1 .. len - 1 : stack'[k] = stack[k]
  <2>1. /\ Put(stack, f) \in Seq(Activations) /\ Len(Put(stack, f)) = len
        /\ \A k \in 1 .. len : Put(stack, f)[k] = IF k = len THEN f ELSE stack[k]
    BY <1>1, PutFacts
  <2>2. QED
    BY <1>1, <1>2, <1>3, <2>1, PushFacts
<1>5. /\ shell_layer = len - 1 /\ shell_layer \in 0 .. 19
      /\ len - 1 <= Depth[f.menu] /\ len <= Depth[it]
  <2>1. shell_layer = len - 1 /\ len - 1 <= Depth[f.menu]
    BY <1>1 DEF IInv, PromptIsPath, StackInv
  <2>2. Depth[f.menu] \in 0 .. 19 /\ Depth[it] \in 0 .. 19
    BY <1>1, Deeper
  <2>3. Depth[it] > Depth[f.menu]
    BY <1>1, Deeper DEF Runs
  <2>4. len \in Nat \ {0}
    BY <1>1
  <2>5. len - 1 \in 0 .. 19 /\ len <= Depth[it]
    BY <2>1, <2>2, <2>3, <2>4, OneDeeper
  <2>6. QED
    BY <2>1, <2>5
<1> HIDE DEF it, g
<1>6. StackInv'
  <2> DEFINE Good(k) == FrameOK(stack'[k], fails')
                        /\ k - 1 <= Depth[stack'[k].menu]
  <2>1. Good(len + 1)
    <3>1. FrameOK(g, fails') /\ g.menu = it
      BY <1>1, <1>3, ActItems DEF FrameOK, g, Activation
    <3>2. QED
      BY <1>1, <1>4, <1>5, <3>1
  <2>2. Good(len)
    <3>1. FrameOK(f, fails')
      BY <1>3 DEF Runs
    <3>2. QED
      BY <1>4, <1>5, <3>1
  <2>3. ASSUME NEW k \in 1 .. len - 1 PROVE Good(k)
    <3>1. k \in 1 .. len
      BY <1>1
    <3>2. FrameOK(stack[k], fails) /\ k - 1 <= Depth[stack[k].menu]
      BY <3>1 DEF IInv, StackInv
    <3>3. stack'[k] = stack[k] /\ fails' = fails
      BY <1>3, <1>4
    <3>4. QED
      BY <3>2, <3>3
  <2> HIDE DEF Good
  <2>4. \A k \in 1 .. len + 1 : Good(k)
    BY <1>1, <2>1, <2>2, <2>3
  <2>5. QED
    BY <1>4, <2>4 DEF StackInv, Good
<1>7. CallInv'
  <2> SUFFICES ASSUME NEW k \in 1 .. len
               PROVE  CallOK(stack'[k], stack'[k + 1])
    BY <1>1, <1>4 DEF CallInv
  <2>1. CASE k = len
    <3>1. f.start <= fails /\ f.start \in Nat
      BY DEF Runs, FrameOK, Activations
    <3>2. g.start = fails /\ (autotest => g.pc = "z")
      BY DEF g, Activation
    <3>3. CallOK(f, g)
      BY <1>1, <3>1, <3>2 DEF CallOK, Runs
    <3>4. QED
      BY <1>4, <2>1, <3>3
  <2>2. CASE k + 1 = len
    <3>1. CallOK(stack[k], top) /\ stack'[k] = stack[k] /\ stack'[k + 1] = f
      BY <1>1, <1>4, <2>2 DEF IInv, CallInv
    <3>2. QED
      BY <1>1, <3>1 DEF CallOK, Runs
  <2>3. CASE k + 1 < len
    BY <1>1, <1>4, <2>3 DEF IInv, CallInv
  <2>4. QED
    BY <1>1, <2>1, <2>2, <2>3
<1>8. TopInv'
  <2>1. top' = g /\ stack' # <<>>
    BY <1>1, <1>4 DEF top
  <2>2. g.pc \in {"prompt", "z"} /\ g.err_flag = 0 /\ g.start = fails
    BY <1>1 DEF g, Activation
  <2>3. QED
    BY <1>1, <1>3, <2>1, <2>2 DEF TopInv, TopOK
<1>9. NameInv'
    BY <1>3, <1>5 DEF IInv, NameInv
<1>10. PromptIsPath'
  <2>1. g.menu = it
    BY DEF g, Activation
  <2>2. ASSUME NEW k \in 1 .. len
        PROVE  /\ k - 1 \in DOMAIN test_item_name'
               /\ test_item_name'[k - 1] = stack'[k + 1].menu
    <3>1. CASE k = len
      BY <1>1, <1>3, <1>4, <1>5, <2>1, <3>1
    <3>2. CASE k # len
      <4>1. /\ k - 1 \in DOMAIN test_item_name /\ k \in 1 .. len - 1
            /\ test_item_name[k - 1] = stack[k + 1].menu
        BY <1>1, <3>2 DEF IInv, PromptIsPath
      <4>2. stack'[k + 1].menu = stack[k + 1].menu
        BY <1>1, <1>4, <4>1
      <4>3. k - 1 # shell_layer
        BY <1>1, <1>5, <3>2
      <4>4. QED
        BY <1>3, <4>1, <4>2, <4>3
    <3>3. QED
      BY <3>1, <3>2
  <2>3. shell_layer' = Len(stack') - 1
    BY <1>1, <1>3, <1>4, <1>5
  <2>4. QED
    BY <1>1, <1>4, <2>2, <2>3 DEF PromptIsPath
<1>11. QED
    BY <1>6, <1>7, <1>8, <1>9, <1>10 DEF IInv

\* The item is a test: it returns its result to the active one.
LEMMA TestStep ==
    ASSUME IInv, stack # <<>>, ret = NoReturn, NEW f, NEW n, NEW autotest,
           Runs(f, n, autotest), act_test_item(f.menu, n) \notin Menus,
           Run(act_test_item(f.menu, n), autotest, f)
    PROVE  IInv'
<1> DEFINE it == act_test_item(f.menu, n)
           len == Len(stack)
<1>1. /\ f \in Activations /\ fails \in Nat /\ fails <= MaxFails
      /\ MaxFails \in Nat /\ f.menu = top.menu /\ FrameOK(f, fails)
      /\ top.pc \in {"prompt", "z"} /\ f.pc \in {"run", "zrun"}
      /\ f.start \in Nat /\ f.start <= fails
  <2>1. fails \in Nat /\ fails <= MaxFails /\ MaxFails \in Nat
    BY TestItemAssumption DEF TestItemAssumption, IInv, NameInv
  <2>2. /\ f \in Activations /\ f.menu = top.menu /\ FrameOK(f, fails)
        /\ f.pc \in {"run", "zrun"}
    BY DEF Runs
  <2>3. top.pc \in {"prompt", "z"}
    BY DEF IInv, TopInv, TopOK
  <2>4. f.start \in Nat /\ f.start <= fails
    BY <2>2 DEF Activations, FrameOK
  <2>5. QED
    BY <2>1, <2>2, <2>3, <2>4
<1>2. /\ stack' = Put(stack, f) /\ shell_layer' = shell_layer
      /\ \/ ret' = 0 /\ fails' = fails
         \/ ret' = -1 /\ fails < MaxFails /\ fails' = fails + 1
      /\ test_item_name' = [l \in DOMAIN test_item_name \cup {shell_layer} |->
                              IF l = shell_layer THEN it ELSE test_item_name[l]]
    BY DEF Run
<1>3. fails' \in 0 .. MaxFails /\ fails' \in Nat /\ fails' >= fails
    BY <1>1, <1>2
<1>4. FrameOK(f, fails')
    BY <1>1, <1>3 DEF FrameOK
<1>5. top.pc \in {"z", "zrun"} =>
        f.pc \in {"z", "zrun"} /\ f.start = top.start
    BY <1>1 DEF Runs
<1>6. /\ StackInv' /\ CallInv' /\ Len(stack') = Len(stack)
      /\ top' = f /\ stack' # <<>>
      /\ \A k \in 1 .. Len(stack) : stack'[k].menu = stack[k].menu
    BY <1>1, <1>2, <1>3, <1>4, <1>5, PutStep
<1>7. TopInv'
  <2>1. ret' # NoReturn
    BY <1>2 DEF NoReturn
  <2>2. f.pc = "zrun" => (f.err_flag = -1 <=> fails > f.start)
    BY DEF Runs
  <2>3. f.pc = "zrun" => (f.err_flag = -1 \/ ret' = -1 <=> fails' > f.start)
    BY <1>1, <1>2, <2>2
  <2>4. QED
    BY <1>1, <1>6, <2>1, <2>3 DEF TopInv, TopOK
<1>8. /\ shell_layer = len - 1 /\ len \in Nat \ {0}
      /\ shell_layer \in 0 .. 19
  <2>1. stack \in Seq(Activations) /\ shell_layer = len - 1
    BY DEF IInv, StackInv, PromptIsPath
  <2>2. len \in Nat \ {0}
    BY <2>1
  <2>3. len \in 1 .. len /\ stack[len] \in Activations
    BY <2>1, <2>2
  <2>4. stack[len].menu \in Menus /\ len - 1 <= Depth[stack[len].menu]
    BY <2>3 DEF IInv, StackInv, Activations
  <2>5. len - 1 \in 0 .. 19
    BY <2>2, <2>4, Deeper, WithinDepth
  <2>6. QED
    BY <2>1, <2>2, <2>5
<1>9. NameInv'
  <2>1. ret' \in {NoReturn, 0, -1}
    BY <1>2
  <2>2. DOMAIN test_item_name' \subseteq 0 .. 19
    BY <1>2, <1>8 DEF IInv, NameInv
  <2>3. QED
    BY <1>3, <2>1, <2>2 DEF NameInv
<1>10. PromptIsPath'
  <2>1. ASSUME NEW k \in 1 .. len - 1
        PROVE  /\ k - 1 \in DOMAIN test_item_name'
               /\ test_item_name'[k - 1] = stack'[k + 1].menu
    <3>1. /\ k - 1 \in DOMAIN test_item_name
          /\ test_item_name[k - 1] = stack[k + 1].menu
      BY DEF IInv, PromptIsPath
    <3>2. k - 1 # shell_layer /\ k + 1 \in 1 .. len
      BY <1>8
    <3>3. stack'[k + 1].menu = stack[k + 1].menu
      BY <1>6, <3>2
    <3>4. QED
      BY <1>2, <3>1, <3>2, <3>3
  <2>2. QED
    BY <1>2, <1>6, <1>8, <2>1 DEF PromptIsPath
<1>11. QED
    BY <1>6, <1>7, <1>9, <1>10 DEF IInv

\* The active one works on without running an item or touching the prompt.
LEMMA LocalStep ==
    ASSUME IInv, stack # <<>>, NEW f \in Activations,
           FrameOK(f, fails), f.menu = top.menu,
           top.pc \in {"z", "zrun"} =>
             f.pc \in {"z", "zrun"} /\ f.start = top.start,
           stack' = Put(stack, f), ret' = NoReturn,
           UNCHANGED <<shell_layer, test_item_name, fails>>,
           f.pc \in {"prompt", "z"},
           f.pc = "z" => (f.err_flag = -1 <=> fails > f.start)
    PROVE  IInv'
<1>1. fails \in Nat /\ fails' \in Nat /\ fails' >= fails /\ fails' = fails
    BY TestItemAssumption DEF TestItemAssumption, IInv, NameInv
<1>2. /\ StackInv' /\ CallInv' /\ Len(stack') = Len(stack)
      /\ top' = f /\ stack' # <<>>
      /\ \A k \in 1 .. Len(stack) : stack'[k].menu = stack[k].menu
    BY <1>1, PutStep
<1>3. TopInv'
    BY <1>1, <1>2 DEF TopInv, TopOK
<1>4. NameInv'
    BY DEF IInv, NameInv
<1>5. PromptIsPath'
  <2>1. Len(stack) \in Nat
    BY DEF IInv, StackInv
  <2>2. ASSUME NEW k \in 1 .. Len(stack) - 1
        PROVE  stack'[k + 1].menu = stack[k + 1].menu
    BY <1>2, <2>1
  <2>3. QED
    BY <1>2, <2>2 DEF IInv, PromptIsPath
<1>6. QED
    BY <1>2, <1>3, <1>4, <1>5 DEF IInv

\* A return to the caller, which collects the result.
LEMMA LeaveStep ==
    ASSUME IInv, stack # <<>>, ret = NoReturn, NEW r \in {0, -1}, Leave(r),
           top.pc = "z" => r = top.err_flag
    PROVE  IInv'
<1> DEFINE len == Len(stack)
<1>1. /\ stack \in Seq(Activations) /\ fails \in Nat /\ len \in Nat \ {0}
      /\ top = stack[len] /\ top.pc \in {"prompt", "z"}
      /\ shell_layer = len - 1
  <2>1. stack \in Seq(Activations) /\ fails \in Nat /\ shell_layer = len - 1
    BY TestItemAssumption
       DEF TestItemAssumption, IInv, StackInv, NameInv, PromptIsPath
  <2>2. top.pc \in {"prompt", "z"}
    BY DEF IInv, TopInv, TopOK
  <2>3. QED
    BY <2>1, <2>2 DEF top
<1>2. /\ stack' \in Seq(Activations) /\ Len(stack') = len - 1
      /\ \A k \in 1 .. len - 1 : stack'[k] = stack[k]
    BY <1>1, PopFacts DEF Leave
<1>3. /\ shell_layer' = shell_layer - 1 /\ fails' = fails
      /\ test_item_name' = test_item_name
      /\ ret' = IF len = 1 THEN NoReturn ELSE r
    BY DEF Leave
<1>4. StackInv'
  <2>1. ASSUME NEW k \in 1 .. len - 1
        PROVE  FrameOK(stack[k], fails) /\ k - 1 <= Depth[stack[k].menu]
    <3>1. k \in 1 .. len
      BY <1>1
    <3>2. QED
      BY <3>1 DEF IInv, StackInv
  <2>2. QED
    BY <1>2, <1>3, <2>1 DEF StackInv
<1>5. CallInv'
  <2>1. ASSUME NEW k \in 1 .. len - 1 - 1
        PROVE  CallOK(stack'[k], stack'[k + 1])
    <3>1. k \in 1 .. len - 1 /\ k + 1 \in 1 .. len - 1
      BY <1>1
    <3>2. QED
      BY <1>2, <3>1 DEF IInv, CallInv
  <2>2. QED
    BY <1>2, <2>1 DEF CallInv
<1>6. TopInv'
  <2>1. CASE len = 1
    <3>1. stack' = <<>>
      BY <1>2, <2>1
    <3>2. QED
      BY <1>3, <2>1, <3>1 DEF TopInv
  <2>2. CASE len # 1
    <3> DEFINE f == stack[len - 1]
    <3>1. len - 1 \in 1 .. len - 1 /\ len - 1 + 1 = len /\ len - 1 \in 1 .. len
      BY <1>1, <2>2
    <3>2. top' = f /\ stack' # <<>>
      BY <1>2, <3>1 DEF top
    <3>3. CallOK(f, top)
      BY <1>1, <3>1 DEF IInv, CallInv
    <3>4. f \in Activations /\ top \in Activations
      BY <1>1, <3>1
    <3>5. f.start \in Nat /\ top.start \in Nat /\ top.start <= fails
      <4>1. FrameOK(top, fails)
        BY <1>1 DEF IInv, StackInv
      <4>2. QED
        BY <3>4, <4>1 DEF Activations, FrameOK
    <3>6. ret' = r /\ ret' # NoReturn
      BY <1>3, <2>2 DEF NoReturn
    <3>7. top.pc = "z" => (top.err_flag = -1 <=> fails > top.start)
      BY DEF IInv, TopInv, TopOK
    <3> HIDE DEF f
    <3>8. f.pc = "zrun" => (f.err_flag = -1 \/ r = -1 <=> fails > f.start)
      <4> SUFFICES ASSUME f.pc = "zrun"
                   PROVE  f.err_flag = -1 \/ r = -1 <=> fails > f.start
        OBVIOUS
      <4>1. /\ top.pc = "z" /\ f.start <= top.start
            /\ f.err_flag = -1 <=> top.start > f.start
        BY <1>1, <3>3 DEF CallOK
      <4>2. r = -1 <=> fails > top.start
        BY <3>7, <4>1
      <4>3. QED
        BY <1>1, <3>5, <4>1, <4>2
    <3>9. f.pc \in {"run", "zrun"}
      BY <3>3 DEF CallOK
    <3>10. QED
      BY <3>2, <3>6, <3>8, <3>9, <1>3 DEF TopInv, TopOK
  <2>3. QED
    BY <2>1, <2>2
<1>7. NameInv'
  <2>1. ret' \in {NoReturn, 0, -1}
    BY <1>3
  <2>2. QED
    BY <1>3, <2>1 DEF IInv, NameInv
<1>8. PromptIsPath'
  <2>1. ASSUME NEW k \in 1 .. len - 1 - 1
        PROVE  /\ k - 1 \in DOMAIN test_item_name
               /\ test_item_name[k - 1] = stack'[k + 1].menu
    <3>1. k \in 1 .. len - 1 /\ k + 1 \in 1 .. len - 1
      BY <1>1
    <3>2. QED
      BY <1>2, <3>1 DEF IInv, PromptIsPath
  <2>2. QED
    BY <1>1, <1>2, <1>3, <2>1 DEF PromptIsPath
<1>9. QED
    BY <1>4, <1>5, <1>6, <1>7, <1>8 DEF IInv

(***************************************************************************)
(* The invariant is inductive                                              *)
(***************************************************************************)
LEMMA InitInv ==
    Init => IInv
<1> SUFFICES ASSUME Init PROVE IInv
    OBVIOUS
<1> DEFINE g == Activation(Main, FALSE, 0)
<1>1. g \in Activations /\ g.menu = Main /\ g.pc = "prompt"
      /\ g.i = 0 /\ g.start = 0
    BY TestItemAssumption DEF TestItemAssumption, Activation, Activations
<1>2. stack = <<g>> /\ Len(stack) = 1 /\ stack[1] = g /\ stack # <<>>
    BY DEF Init
<1>3. /\ Main \in Menus /\ act_test_item_num(Main) \in Nat
      /\ Depth[Main] \in 0 .. 19
    BY TestItemAssumption, ActItems, Deeper DEF TestItemAssumption
<1>4. fails = 0 /\ ret = NoReturn /\ shell_layer = 0
      /\ DOMAIN test_item_name = {}
    BY DEF Init
<1> HIDE DEF g
<1>5. StackInv
  <2>1. FrameOK(g, fails)
    BY <1>1, <1>3, <1>4 DEF FrameOK
  <2>2. stack \in Seq(Activations)
    BY <1>1, <1>2
  <2>3. QED
    BY <1>1, <1>2, <1>3, <2>1, <2>2 DEF StackInv
<1>6. CallInv
    BY <1>2 DEF CallInv
<1>7. TopInv
    BY <1>1, <1>2, <1>4 DEF TopInv, TopOK, top
<1>8. NameInv /\ PromptIsPath
    BY <1>2, <1>4, TestItemAssumption
       DEF NameInv, PromptIsPath, TestItemAssumption
<1>9. QED
    BY <1>5, <1>6, <1>7, <1>8 DEF IInv

LEMMA RunStep ==
    ASSUME IInv, stack # <<>>, ret = NoReturn, NEW f, NEW n, NEW autotest,
           Runs(f, n, autotest), Run(act_test_item(f.menu, n), autotest, f)
    PROVE  IInv'
BY CallStep, TestStep

\* What the active one looks like.
LEMMA TopFacts ==
    ASSUME IInv, stack # <<>>
    PROVE  /\ top \in Activations /\ FrameOK(top, fails) /\ TopOK(top)
           /\ top.menu \in Menus /\ act_test_item_num(top.menu) \in Nat
           /\ top.i \in Nat /\ top.item_index \in Nat /\ fails \in Nat
<1>1. stack \in Seq(Activations) /\ fails \in Nat
    BY TestItemAssumption DEF TestItemAssumption, IInv, StackInv, NameInv
<1>2. Len(stack) \in 1 .. Len(stack)
    BY <1>1
<1>3. top \in Activations /\ FrameOK(top, fails)
    BY <1>1, <1>2 DEF IInv, StackInv, top
<1>4. TopOK(top)
    BY DEF IInv, TopInv
<1>5. top.menu \in Menus /\ top.i \in Nat /\ top.item_index \in Nat
    BY <1>3 DEF Activations
<1>6. act_test_item_num(top.menu) \in Nat
    BY <1>5, ActItems
<1>7. QED
    BY <1>1, <1>3, <1>4, <1>5, <1>6

\* A key has selected an item, or none.
LEMMA SelectedStep ==
    ASSUME IInv, At("prompt"), NEW k \in Nat,
           Selected([top EXCEPT !.item_index = k])
    PROVE  IInv'
<1> DEFINE f == [top EXCEPT !.item_index = k]
           h == [f EXCEPT !.pc = "run"]
<1>1. stack # <<>> /\ ret = NoReturn /\ top.pc = "prompt"
    BY DEF At
<1>2. /\ top \in Activations /\ FrameOK(top, fails)
      /\ act_test_item_num(top.menu) \in Nat
    BY <1>1, TopFacts
<1>3. /\ f \in Activations /\ f.menu = top.menu /\ f.pc = "prompt"
      /\ f.i = top.i /\ f.start = top.start /\ f.item_index = k
    BY <1>1, <1>2 DEF Activations
<1>4. FrameOK(f, fails)
    BY <1>1, <1>2, <1>3 DEF FrameOK
<1>5. CASE f.item_index >= act_test_item_num(f.menu)
  <2>1. /\ stack' = Put(stack, f)
        /\ UNCHANGED <<shell_layer, test_item_name, ret, fails>>
    BY <1>5 DEF Selected
  <2> HIDE DEF f
  <2>2. QED
    BY <1>1, <1>3, <1>4, <2>1, LocalStep
<1>6. CASE ~ (f.item_index >= act_test_item_num(f.menu))
  <2>1. Run(act_test_item(f.menu, k), FALSE, h)
    BY <1>3, <1>6 DEF Selected
  <2>2. /\ h \in Activations /\ h.menu = top.menu /\ h.pc = "run"
        /\ h.i = top.i /\ h.start = top.start /\ h.item_index = k
    BY <1>2 DEF Activations
  <2>3. k \in 0 .. act_test_item_num(top.menu) - 1
    BY <1>2, <1>3, <1>6
  <2> HIDE DEF f, h
  <2>4. FrameOK(h, fails)
    BY <1>2, <2>2, <2>3 DEF FrameOK
  <2>5. Runs(h, k, FALSE)
    BY <1>1, <2>2, <2>3, <2>4 DEF Runs
  <2>6. Run(act_test_item(h.menu, k), FALSE, h)
    BY <1>3, <2>1, <2>2
  <2>7. QED
    BY <1>1, <2>5, <2>6, RunStep
<1>7. QED
    BY <1>5, <1>6

LEMMA AutoNextStep ==
    ASSUME IInv, AutoNext
    PROVE  IInv'
<1> DEFINE it == act_test_item(top.menu, top.i)
           f == [top EXCEPT !.pc = "zrun"]
           h == [top EXCEPT !.i = @ + 1]
<1>1. /\ stack # <<>> /\ ret = NoReturn /\ top.pc = "z"
      /\ top.i < act_test_item_num(top.menu)
    BY DEF At, AutoNext
<1>2. /\ top \in Activations /\ FrameOK(top, fails) /\ TopOK(top)
      /\ act_test_item_num(top.menu) \in Nat /\ top.i \in Nat
    BY <1>1, TopFacts
<1>3. top.err_flag = -1 <=> fails > top.start
    BY <1>1, <1>2 DEF TopOK
<1>4. CASE it \in Allowed
  <2>1. Run(it, TRUE, f)
    BY <1>4 DEF AutoNext
  <2>2. /\ f \in Activations /\ f.menu = top.menu /\ f.pc = "zrun"
        /\ f.i = top.i /\ f.start = top.start /\ f.err_flag = top.err_flag
    BY <1>2 DEF Activations
  <2>3. top.i \in 0 .. act_test_item_num(top.menu) - 1
    BY <1>1, <1>2
  <2> HIDE DEF f
  <2>4. FrameOK(f, fails)
    BY <1>1, <1>2, <2>2 DEF FrameOK
  <2>5. Runs(f, top.i, TRUE)
    BY <1>1, <1>3, <2>2, <2>3, <2>4 DEF Runs
  <2>6. QED
    BY <1>1, <2>1, <2>2, <2>5, RunStep
<1>5. CASE it \notin Allowed
  <2>1. /\ stack' = Put(stack, h)
        /\ UNCHANGED <<shell_layer, test_item_name, ret, fails>>
    BY <1>5 DEF AutoNext
  <2>2. /\ h \in Activations /\ h.menu = top.menu /\ h.pc = "z"
        /\ h.i = top.i + 1 /\ h.start = top.start /\ h.err_flag = top.err_flag
    BY <1>1, <1>2 DEF Activations
  <2> HIDE DEF h
  <2>3. FrameOK(h, fails)
    BY <1>1, <1>2, <2>2 DEF FrameOK
  <2>4. QED
    BY <1>1, <1>3, <2>1, <2>2, <2>3, LocalStep
<1>6. QED
    BY <1>4, <1>5

LEMMA NextRound ==
    ASSUME NEW f \in Activations, NEW r \in {0, -1}
    PROVE  LET h == [f EXCEPT !.pc = "z", !.i = @ + 1,
                              !.err_flag = IF r # 0 THEN -1 ELSE @]
           IN  /\ h \in Activations /\ h.menu = f.menu /\ h.pc = "z"
               /\ h.i = f.i + 1 /\ h.start = f.start
               /\ h.err_flag = -1 <=> (f.err_flag = -1 \/ r = -1)
<1> DEFINE h == [f EXCEPT !.pc = "z", !.i = @ + 1,
                          !.err_flag = IF r # 0 THEN -1 ELSE @]
           e == IF r # 0 THEN -1 ELSE f.err_flag
<1>1. f.err_flag \in {0, -1} /\ f.i + 1 \in Nat
    BY DEF Activations
<1>2. e \in {0, -1} /\ (e = -1 <=> (f.err_flag = -1 \/ r = -1))
    BY <1>1
<1>3. h = [f EXCEPT !.pc = "z", !.i = f.i + 1, !.err_flag = e]
    OBVIOUS
<1> HIDE DEF h, e
<1>4. h.menu = f.menu /\ h.pc = "z" /\ h.i = f.i + 1 /\ h.start = f.start
      /\ h.err_flag = e
    BY <1>3 DEF Activations
<1>5. h \in Activations
    BY <1>1, <1>2, <1>3 DEF Activations
<1>6. QED
    BY <1>2, <1>4, <1>5 DEF h

LEMMA ItemReturnsStep ==
    ASSUME IInv, ItemReturns
    PROVE  IInv'
<1> DEFINE f == [top EXCEPT !.pc = "prompt"]
           h == [top EXCEPT !.pc = "z", !.i = @ + 1,
                            !.err_flag = IF ret # 0 THEN -1 ELSE @]
<1>1. /\ stack # <<>> /\ ret # NoReturn /\ ret' = NoReturn
      /\ UNCHANGED <<shell_layer, test_item_name, fails>>
      /\ stack' = Put(stack, IF top.pc = "run" THEN f ELSE h)
    BY DEF ItemReturns
<1>2. /\ top \in Activations /\ FrameOK(top, fails) /\ TopOK(top)
      /\ act_test_item_num(top.menu) \in Nat /\ top.i \in Nat
      /\ ret \in {0, -1}
    BY <1>1, TopFacts DEF IInv, NameInv
<1>3. top.pc \in {"run", "zrun"}
    BY <1>1, <1>2 DEF TopOK
<1>4. CASE top.pc = "run"
  <2>1. /\ f \in Activations /\ f.menu = top.menu /\ f.pc = "prompt"
        /\ f.i = top.i /\ f.start = top.start
    BY <1>2 DEF Activations
  <2> HIDE DEF f
  <2>2. FrameOK(f, fails)
    BY <1>2, <2>1 DEF FrameOK
  <2>3. QED
    BY <1>1, <1>4, <2>1, <2>2, LocalStep
<1>5. CASE top.pc = "zrun"
  <2>1. /\ h \in Activations /\ h.menu = top.menu /\ h.pc = "z"
        /\ h.i = top.i + 1 /\ h.start = top.start
        /\ h.err_flag = -1 <=> (top.err_flag = -1 \/ ret = -1)
    BY <1>2, NextRound
  <2>2. top.i < act_test_item_num(top.menu)
    BY <1>2, <1>5 DEF FrameOK
  <2>3. top.err_flag = -1 \/ ret = -1 <=> fails > top.start
    BY <1>1, <1>2, <1>5 DEF TopOK
  <2> HIDE DEF h
  <2>4. FrameOK(h, fails)
    BY <1>2, <2>1, <2>2 DEF FrameOK
  <2>5. h.err_flag = -1 <=> fails > h.start
    BY <2>1, <2>3
  <2>6. stack' = Put(stack, h)
    BY <1>1, <1>5
  <2>7. QED
    BY <1>1, <1>5, <2>1, <2>4, <2>5, <2>6, LocalStep
<1>6. QED
    BY <1>3, <1>4, <1>5

LEMMA NextInv ==
    IInv /\ [Next]_vars => IInv'
<1> SUFFICES ASSUME IInv, [Next]_vars PROVE IInv'
    OBVIOUS
<1>1. CASE KeyExit
  <2>1. stack # <<>> /\ ret = NoReturn /\ top.pc = "prompt" /\ Leave(0)
    BY <1>1 DEF KeyExit, At
  <2>2. QED
    BY <2>1, LeaveStep
<1>2. CASE KeyAll
  <2> DEFINE h == [top EXCEPT !.pc = "z", !.i = 0, !.err_flag = 0,
                              !.start = fails]
  <2>1. /\ stack # <<>> /\ ret = NoReturn /\ top.pc = "prompt"
        /\ stack' = Put(stack, h)
        /\ UNCHANGED <<shell_layer, test_item_name, ret, fails>>
    BY <1>2 DEF KeyAll, At
  <2>2. top \in Activations /\ act_test_item_num(top.menu) \in Nat
        /\ fails \in Nat
    BY <2>1, TopFacts
  <2>3. /\ h \in Activations /\ h.menu = top.menu /\ h.pc = "z"
        /\ h.i = 0 /\ h.start = fails /\ h.err_flag = 0
    BY <2>2 DEF Activations
  <2> HIDE DEF h
  <2>4. FrameOK(h, fails)
    BY <2>2, <2>3 DEF FrameOK
  <2>5. h.err_flag = -1 <=> fails > h.start
    BY <2>2, <2>3
  <2>6. QED
    BY <2>1, <2>3, <2>4, <2>5, LocalStep
<1>3. CASE KeyNumber
  <2>1. At("prompt") /\ \E k \in Nat : Selected([top EXCEPT !.item_index = k])
    BY <1>3, TestItemAssumption DEF KeyNumber, TestItemAssumption
  <2>2. QED
    BY <2>1, SelectedStep
<1>4. CASE KeyOther
  <2>1. At("prompt") /\ stack # <<>> /\ Selected(top)
    BY <1>4 DEF KeyOther, At
  <2>2. top \in Activations /\ top.item_index \in Nat
    BY <2>1, TopFacts
  <2>3. top = [top EXCEPT !.item_index = top.item_index]
    BY <2>2 DEF Activations
  <2>4. QED
    BY <2>1, <2>2, <2>3, SelectedStep
<1>5. CASE AutoNext
    BY <1>5, AutoNextStep
<1>6. CASE AutoEnd
  <2>1. /\ stack # <<>> /\ ret = NoReturn /\ top.pc = "z"
        /\ Leave(top.err_flag)
    BY <1>6 DEF AutoEnd, At
  <2>2. top.err_flag \in {0, -1}
    BY <2>1, TopFacts DEF Activations
  <2>3. QED
    BY <2>1, <2>2, LeaveStep
<1>7. CASE ItemReturns
    BY <1>7, ItemReturnsStep
<1>8. CASE UNCHANGED vars
    BY <1>8 DEF vars, IInv, StackInv, CallInv, TopInv, TopOK, NameInv,
                PromptIsPath, top
<1>9. QED
    BY <1>1, <1>2, <1>3, <1>4, <1>5, <1>6, <1>7, <1>8 DEF Next, User, AutoTest

(***************************************************************************)
(* Theorems                                                                *)
(***************************************************************************)
\* The invariant holds throughout: the stack is that of well-formed calls,
\* each for a menu further down, and every err_flag tells what had failed.
THEOREM Invariance ==
    Spec => []IInv
BY InitInv, NextInv, PTL DEF Spec

\* shell_layer and test_item_name, shared by all nested calls of
\* test_item_ctrl, always give the path to the active menu, within the 20
\* places of the table, and every index into a menu is in range.
THEOREM PromptIsSound ==
    Spec => []PromptSound
<1>1. IInv => PromptSound
  <2> SUFFICES ASSUME IInv PROVE PromptSound
    OBVIOUS
  <2>1. ASSUME NEW k \in DOMAIN stack
        PROVE  /\ stack[k].menu \in Menus
               /\ stack[k].pc \in {"prompt", "z", "zrun", "run"}
               /\ stack[k].i \in 0 .. act_test_item_num(stack[k].menu)
               /\ stack[k].pc = "run" =>
                    stack[k].item_index < act_test_item_num(stack[k].menu)
               /\ stack[k].err_flag \in {0, -1}
    <3>1. stack[k] \in Activations /\ k \in 1 .. Len(stack)
      BY DEF IInv, StackInv
    <3>2. FrameOK(stack[k], fails)
      BY <3>1 DEF IInv, StackInv
    <3>3. stack[k].menu \in Menus /\ stack[k].i \in Nat
      BY <3>1 DEF Activations
    <3>4. act_test_item_num(stack[k].menu) \in Nat
      BY <3>3, ActItems
    <3>5. QED
      BY <3>1, <3>2, <3>3, <3>4 DEF FrameOK, Activations
  <2>2. shell_layer \in -1 .. Len(stack) - 1
    BY DEF IInv, StackInv, PromptIsPath
  <2>3. TypeOK
    BY <2>1, <2>2 DEF TypeOK, IInv, NameInv
  <2>4. QED
    BY <2>3 DEF PromptSound, IInv
<1>2. QED
    BY <1>1, Invariance, PTL

\* Whenever an auto-test looks at its loop counter, its err_flag is set if
\* and only if a test it has run, in nested menus included, has failed.
THEOREM VerdictHolds ==
    Spec => []VerdictIsTrue
<1>1. IInv => VerdictIsTrue
    BY DEF IInv, TopInv, TopOK, VerdictIsTrue, At
<1>2. QED
    BY <1>1, Invariance, PTL
=============================================================================
