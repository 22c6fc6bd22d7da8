------------------------- MODULE TemplatePalletProofs -------------------------
(***************************************************************************)
(* The pallet's value, for any width of the integer, any number of         *)
(* accounts, blocks and dispatches.                                        *)
(***************************************************************************)
EXTENDS TemplatePallet, FiniteSetTheorems, TLAPS

PalletType ==
  /\ something \in u32 \cup {None}
  /\ events \in Seq(SomethingStored)
  /\ number \in Nat
  /\ open \in BOOLEAN
  /\ open => number > 0
  /\ key \in Accounts \cup {None}
  /\ log \in Seq(Entry)
  /\ \A i \in DOMAIN log : log[i].block \in 1 .. number

PalletInv == PalletType /\ ValueAccountedFor /\ ChangesAreSigned

(* What a dispatch can result in. *)
LEMMA DispatchedResult ==
  ASSUME PalletType, NEW call \in Calls, NEW origin \in Origin
  PROVE  LET r == Dispatched(call, origin) IN
         \/ \E x \in Result \ {"Ok"} : r = Err(x)
         \/ /\ origin.kind = "Signed" /\ origin.who \in Accounts
            /\ call.fn = "do_something" /\ call.something \in u32
            /\ r = Ok(call.something, <<[something |-> call.something, who |-> origin.who]>>)
         \/ /\ origin.kind = "Signed" /\ origin.who \in Accounts
            /\ call.fn = "cause_error"
            /\ something \in u32 /\ something + 1 \in u32
            /\ r = Ok(something + 1, <<>>)
  <1>1. origin.kind # "Signed" \/ (origin.kind = "Signed" /\ origin.who \in Accounts)
    BY DEF Origin, Root
  <1>2. CASE call.fn = "do_something"
    <2>1. call.something \in u32
      BY <1>2 DEF Calls
    <2>2. QED
      BY <1>1, <1>2, <2>1 DEF Dispatched, do_something, Result
  <1>3. CASE call.fn = "cause_error"
    <2>1. something # None /\ ~(something + 1 > MaxU32) => something \in u32 /\ something + 1 \in u32
      BY PalletAssumption DEF PalletType, u32
    <2>2. QED
      BY <1>1, <1>3, <2>1 DEF Dispatched, cause_error, Result
  <1>4. QED
    BY <1>2, <1>3 DEF Calls

(* The fields of a dispatch result. *)
LEMMA ResultFields ==
  /\ \A v, d : /\ Ok(v, d).result = "Ok"
              /\ Ok(v, d).something = v
              /\ Ok(v, d).events = d
  /\ \A x : /\ Err(x).result = x
            /\ Err(x).something = something
            /\ Err(x).events = <<>>
  BY DEF Ok, Err

(* There are finitely many increments, so they can be counted. *)
LEMMA BumpsFinite ==
  ASSUME PalletType, NEW i
  PROVE  IsFiniteSet(BumpsSince(i)) /\ Cardinality(BumpsSince(i)) \in Nat
  <1>1. IsFiniteSet(1 .. Len(log))
    BY FS_Interval DEF PalletType
  <1>2. BumpsSince(i) \subseteq 1 .. Len(log)
    BY DEF BumpsSince, PalletType
  <1>3. QED
    BY <1>1, <1>2, FS_Subset, FS_CardinalityType

(* A dispatch appends its entry to the log. *)
LEMMA DispatchLogs ==
  ASSUME PalletType, NEW call \in Calls, NEW origin \in Origin, NEW a \in Accounts,
         Dispatch(call, origin, a)
  PROVE  LET e == [call |-> call, origin |-> origin, signer |-> a,
                   result |-> Dispatched(call, origin).result, block |-> number, key |-> key]
         IN  /\ e \in Entry
             /\ log' \in Seq(Entry)
             /\ Len(log) \in Nat
             /\ DOMAIN log = 1 .. Len(log)
             /\ DOMAIN log' = 1 .. Len(log) + 1
             /\ \A i \in DOMAIN log : log'[i] = log[i]
             /\ log'[Len(log) + 1] = e
  <1> DEFINE e == [call |-> call, origin |-> origin, signer |-> a,
                   result |-> Dispatched(call, origin).result, block |-> number, key |-> key]
  <1>1. Dispatched(call, origin).result \in Result
    <2>1. \/ \E x \in Result : Dispatched(call, origin) = Err(x)
          \/ \E v, d : Dispatched(call, origin) = Ok(v, d)
      BY DispatchedResult
    <2>2. QED
      BY <2>1, ResultFields DEF Result
  <1>2. e \in Entry
    BY <1>1 DEF Entry, PalletType
  <1>3. log' = Append(log, e)
    BY DEF Dispatch
  <1> HIDE DEF e
  <1>4. QED
    BY <1>2, <1>3 DEF PalletType, e

(* A dispatch, from whatever origin, keeps the invariant. *)
LEMMA DispatchInv ==
  ASSUME PalletInv, NEW call \in Calls, NEW origin \in Origin, NEW a \in Accounts,
         Dispatch(call, origin, a),
         \A w \in Accounts : origin = Signed(w) => w = a \/ a = key
  PROVE  PalletInv'
  <1> DEFINE r == Dispatched(call, origin)
             e == [call |-> call, origin |-> origin, signer |-> a,
                   result |-> r.result, block |-> number, key |-> key]
  <1>0. PalletType /\ ValueAccountedFor /\ ChangesAreSigned
    BY DEF PalletInv
  <1>1. /\ open /\ something' = r.something /\ events' = events \o r.events
        /\ UNCHANGED <<number, open, key>>
    BY DEF Dispatch
  <1>2. /\ e \in Entry /\ log' \in Seq(Entry) /\ Len(log) \in Nat
        /\ DOMAIN log = 1 .. Len(log) /\ DOMAIN log' = 1 .. Len(log) + 1
        /\ \A i \in DOMAIN log : log'[i] = log[i]
        /\ log'[Len(log) + 1] = e
    BY <1>0, DispatchLogs
  <1>n. PICK n \in Nat : n = Len(log) + 1
    BY <1>2
  <1>3. /\ n \in Nat \ {0} /\ DOMAIN log = 1 .. n - 1 /\ DOMAIN log' = 1 .. n /\ log'[n] = e
        /\ \A i \in DOMAIN log : i < n
        /\ \A i \in DOMAIN log' : i = n \/ i \in DOMAIN log
    BY <1>2, <1>n
  <1>4. e.result = r.result /\ e.call = call /\ e.origin = origin /\ e.block = number
        /\ e.key = key /\ e.signer = a
    OBVIOUS
  <1>5. \A x \in Result \ {"Ok"} :
          r = Err(x) => r.result # "Ok" /\ r.something = something /\ r.events = <<>>
    BY ResultFields
  <1>6. \A v, d : r = Ok(v, d) => r.result = "Ok" /\ r.something = v /\ r.events = d
    BY ResultFields
  <1>7. \/ \E x \in Result \ {"Ok"} : r = Err(x)
        \/ /\ origin.kind = "Signed" /\ origin.who \in Accounts
           /\ call.fn = "do_something" /\ call.something \in u32
           /\ r = Ok(call.something, <<[something |-> call.something, who |-> origin.who]>>)
        \/ /\ origin.kind = "Signed" /\ origin.who \in Accounts
           /\ call.fn = "cause_error"
           /\ something \in u32 /\ something + 1 \in u32
           /\ r = Ok(something + 1, <<>>)
    BY <1>0, DispatchedResult
  <1> HIDE DEF r, e
  <1>8. PalletType'
    <2>1. something' \in u32 \cup {None}
      BY <1>0, <1>1, <1>5, <1>6, <1>7 DEF PalletType
    <2>2. r.events \in Seq(SomethingStored)
      <3>1. CASE r.events = <<>>
        BY <3>1
      <3>2. CASE /\ call.something \in u32 /\ origin.who \in Accounts
                 /\ r.events = <<[something |-> call.something, who |-> origin.who]>>
        BY <3>2 DEF SomethingStored
      <3>3. QED
        BY <1>5, <1>6, <1>7, <3>1, <3>2
    <2>3. events' \in Seq(SomethingStored)
      BY <1>0, <1>1, <2>2 DEF PalletType
    <2>4. \A i \in DOMAIN log' : log'[i].block \in 1 .. number
      BY <1>0, <1>1, <1>2, <1>3, <1>4 DEF PalletType
    <2>5. QED
      BY <1>0, <1>1, <1>2, <2>1, <2>3, <2>4 DEF PalletType
  <1>9. ChangesAreSigned'
    <2> SUFFICES ASSUME NEW i \in DOMAIN log', log'[i].result = "Ok"
                 PROVE  /\ log'[i].origin.kind = "Signed"
                        /\ log'[i].origin.who = log'[i].signer \/ log'[i].signer = log'[i].key
      BY DEF ChangesAreSigned, Succeeded
    <2>1. CASE i \in DOMAIN log
      BY <1>0, <1>2, <2>1 DEF ChangesAreSigned, Succeeded
    <2>2. CASE i = n
      <3>1. origin.kind = "Signed" /\ origin.who \in Accounts
        BY <1>3, <1>4, <1>5, <1>7, <2>2
      <3>2. origin = Signed(origin.who)
        BY <3>1 DEF Origin, Root, Signed
      <3>3. QED
        BY <1>3, <1>4, <2>2, <3>1, <3>2
    <2>3. QED
      BY <1>3, <2>1, <2>2
  <1>10. ValueAccountedFor'
    <2>1. CASE \E x \in Result \ {"Ok"} : r = Err(x)
      <3>1. log'[n].result # "Ok" /\ something' = something
        BY <1>1, <1>3, <1>4, <1>5, <2>1
      <3>2. CASE something = None
        BY <1>0, <1>2, <1>3, <3>1, <3>2 DEF ValueAccountedFor, Succeeded
      <3>3. CASE something # None
        <4>1. PICK i \in DOMAIN log :
                     /\ Stored(i)
                     /\ \A j \in DOMAIN log : i < j => ~Stored(j)
                     /\ something = log[i].call.something + Cardinality(BumpsSince(i))
          BY <1>0, <3>3 DEF ValueAccountedFor
        <4>2. BumpsSince(i)' = BumpsSince(i)
          BY <1>2, <1>3, <3>1 DEF BumpsSince, Bumped, Succeeded
        <4>3. Stored(i)' /\ \A j \in DOMAIN log' : i < j => ~Stored(j)'
          BY <1>2, <1>3, <3>1, <4>1 DEF Stored, Succeeded
        <4>4. /\ i \in DOMAIN log'
              /\ something' = log'[i].call.something + Cardinality(BumpsSince(i)')
          BY <1>2, <1>3, <3>1, <4>1, <4>2
        <4>5. QED
          BY <3>1, <3>3, <4>3, <4>4 DEF ValueAccountedFor
      <3>4. QED
        BY <3>2, <3>3
    <2>2. CASE /\ call.fn = "do_something" /\ call.something \in u32
               /\ r = Ok(call.something, <<[something |-> call.something, who |-> origin.who]>>)
      <3>1. n \in DOMAIN log' /\ Stored(n)' /\ log'[n].call.something = call.something
        BY <1>3, <1>4, <1>6, <2>2 DEF Stored, Succeeded
      <3>2. \A j \in DOMAIN log' : ~(n < j)
        BY <1>3
      <3>3. BumpsSince(n)' = {}
        BY <3>2 DEF BumpsSince
      <3>4. something' = call.something /\ call.something \in Nat /\ call.something # None
        BY <1>1, <1>6, <2>2, PalletAssumption DEF u32
      <3>5. something' = log'[n].call.something + Cardinality(BumpsSince(n)')
        BY <3>1, <3>3, <3>4, FS_EmptySet
      <3>6. QED
        BY <3>1, <3>2, <3>4, <3>5 DEF ValueAccountedFor
    <2>3. CASE /\ call.fn = "cause_error"
               /\ something \in u32 /\ something + 1 \in u32
               /\ r = Ok(something + 1, <<>>)
      <3>1. something # None /\ something \in Nat
        BY <2>3, PalletAssumption DEF u32
      <3>2. something' = something + 1 /\ something' # None
        BY <1>1, <1>6, <2>3, PalletAssumption DEF u32
      <3>3. PICK i \in DOMAIN log :
                   /\ Stored(i)
                   /\ \A j \in DOMAIN log : i < j => ~Stored(j)
                   /\ something = log[i].call.something + Cardinality(BumpsSince(i))
        BY <1>0, <3>1 DEF ValueAccountedFor
      <3>4. Bumped(n)' /\ ~Stored(n)'
        BY <1>3, <1>4, <1>6, <2>3 DEF Bumped, Stored, Succeeded
      <3>5. BumpsSince(i)' = BumpsSince(i) \cup {n} /\ n \notin BumpsSince(i)
        BY <1>2, <1>3, <3>4 DEF BumpsSince, Bumped, Succeeded
      <3>6. Cardinality(BumpsSince(i)') = Cardinality(BumpsSince(i)) + 1
            /\ Cardinality(BumpsSince(i)) \in Nat
        BY <1>0, <3>5, BumpsFinite, FS_AddElement
      <3>7. Stored(i)' /\ \A j \in DOMAIN log' : i < j => ~Stored(j)'
        BY <1>2, <1>3, <3>3, <3>4 DEF Stored, Succeeded
      <3>8. log[i].call.something \in Nat
        <4>1. log[i].call \in Calls /\ log[i].call.fn = "do_something"
          <5>1. log[i] \in Entry
            BY <1>0 DEF PalletType
          <5>2. QED
            BY <3>3, <5>1 DEF Stored, Entry
        <4>2. QED
          BY <4>1, PalletAssumption DEF Calls, u32
      <3>9. i \in DOMAIN log' /\ log'[i] = log[i]
        BY <1>2, <1>3
      <3>10. something' = log'[i].call.something + Cardinality(BumpsSince(i)')
        BY <3>2, <3>3, <3>6, <3>8, <3>9
      <3>11. QED
        BY <3>2, <3>7, <3>9, <3>10 DEF ValueAccountedFor
    <2>4. QED
      BY <1>7, <2>1, <2>2, <2>3
  <1>11. QED
    BY <1>8, <1>9, <1>10 DEF PalletInv

(* Steps that dispatch nothing. *)
LEMMA BlockInv ==
  ASSUME PalletInv, UNCHANGED <<something, log>>,
         \/ InitializeBlock
         \/ FinalizeBlock
         \/ \E a \in Accounts : \E new \in Accounts \cup {None} : SetKey(a, new)
         \/ UNCHANGED vars
  PROVE  PalletInv'
  <1>1. PalletType'
    <2>1. open' \in BOOLEAN
      BY Zenon DEF PalletInv, PalletType, InitializeBlock, FinalizeBlock, SetKey, vars
    <2>2. number' \in Nat /\ number <= number' /\ (open' => number' > 0)
      BY DEF PalletInv, PalletType, InitializeBlock, FinalizeBlock, SetKey, vars
    <2>3. events' \in Seq(SomethingStored) /\ key' \in Accounts \cup {None}
      <3>1. events' = events \/ events' = <<>>
        BY DEF InitializeBlock, FinalizeBlock, SetKey, vars
      <3>2. key' = key \/ key' \in Accounts \cup {None}
        BY DEF InitializeBlock, FinalizeBlock, SetKey, vars
      <3>3. events \in Seq(SomethingStored) /\ key \in Accounts \cup {None}
        BY DEF PalletInv, PalletType
      <3>4. <<>> \in Seq(SomethingStored)
        OBVIOUS
      <3>5. QED
        BY <3>1, <3>2, <3>3, <3>4, Zenon
    <2>4. \A i \in DOMAIN log' : log'[i].block \in 1 .. number'
      BY <2>2 DEF PalletInv, PalletType
    <2>5. QED
      BY <2>1, <2>2, <2>3, <2>4 DEF PalletInv, PalletType
  <1>2. \A i : BumpsSince(i)' = BumpsSince(i)
    BY DEF BumpsSince, Bumped, Succeeded
  <1>3. ValueAccountedFor'
    BY <1>2 DEF PalletInv, ValueAccountedFor, Stored, Succeeded
  <1>4. ChangesAreSigned'
    BY DEF PalletInv, ChangesAreSigned, Succeeded
  <1>5. QED
    BY <1>1, <1>3, <1>4 DEF PalletInv

(* PalletInv is an inductive invariant. *)
THEOREM PalletInvariant == Spec => []PalletInv
  <1>1. Init => PalletInv
    <2> SUFFICES ASSUME Init
                 PROVE  PalletInv
      OBVIOUS
    <2>1. open \in BOOLEAN /\ ~open
      BY Zenon DEF Init
    <2>2. DOMAIN log = {}
      BY DEF Init
    <2>3. PalletType
      BY <2>1, <2>2, PalletAssumption DEF Init, PalletType
    <2>4. QED
      BY <2>2, <2>3 DEF Init, PalletInv, ValueAccountedFor, ChangesAreSigned
  <1>2. PalletInv /\ [Next]_vars => PalletInv'
    <2> SUFFICES ASSUME PalletInv, [Next]_vars
                 PROVE  PalletInv'
      OBVIOUS
    <2>0. /\ Root \in Origin
          /\ \A a \in Accounts : Signed(a) \in Origin
          /\ \A a, b \in Accounts : Signed(a) = Signed(b) => a = b
          /\ \A a \in Accounts : Root # Signed(a)
      BY DEF Origin, Root, Signed
    <2>1. ASSUME NEW a \in Accounts, NEW call \in Calls, ApplySigned(a, call)
          PROVE  PalletInv'
      BY <2>0, <2>1, DispatchInv DEF ApplySigned
    <2>2. ASSUME NEW a \in Accounts, NEW call \in Calls, ApplySudo(a, call)
          PROVE  PalletInv'
      BY <2>0, <2>2, DispatchInv DEF ApplySudo
    <2>3. ASSUME NEW a \in Accounts, NEW call \in Calls, NEW who \in Accounts,
                 ApplySudoAs(a, who, call)
          PROVE  PalletInv'
      BY <2>0, <2>3, DispatchInv DEF ApplySudoAs
    <2>4. CASE \/ InitializeBlock
               \/ FinalizeBlock
               \/ \E a \in Accounts : \E new \in Accounts \cup {None} : SetKey(a, new)
               \/ UNCHANGED vars
      <3>1. UNCHANGED <<something, log>>
        BY <2>4 DEF InitializeBlock, FinalizeBlock, SetKey, vars
      <3>2. QED
        BY <2>4, <3>1, BlockInv
    <2>5. QED
      BY <2>1, <2>2, <2>3, <2>4 DEF Next
  <1>3. QED
    BY <1>1, <1>2, PTL DEF Spec

(* The state has its type: no sequence of increments leaves u32. *)
THEOREM PalletTypeCorrect == Spec => []TypeOK
  <1>1. PalletInv => TypeOK
    <2> SUFFICES ASSUME PalletInv
                 PROVE  TypeOK
      OBVIOUS
    <2>1. \A i \in DOMAIN events : events[i] \in SomethingStored
      BY DEF PalletInv, PalletType
    <2>2. \A i \in DOMAIN log : log[i] \in Entry /\ log[i].block \in 1 .. number
      BY DEF PalletInv, PalletType
    <2>3. QED
      BY <2>1, <2>2, Zenon DEF PalletInv, PalletType, TypeOK
  <1>2. QED
    BY <1>1, PalletInvariant, PTL

(* The value is the last one stored plus the number of increments since. *)
THEOREM ValueIsAccountedFor == Spec => []ValueAccountedFor
  <1>1. PalletInv => ValueAccountedFor
    BY DEF PalletInv
  <1>2. QED
    BY <1>1, PalletInvariant, PTL

(* A value changes only in the name of the signer or at the sudo key's word. *)
THEOREM ChangesAreAlwaysSigned == Spec => []ChangesAreSigned
  <1>1. PalletInv => ChangesAreSigned
    BY DEF PalletInv
  <1>2. QED
    BY <1>1, PalletInvariant, PTL

------------------------------------------------------------------------------
(***************************************************************************)
(* Events.  The stores of the current block are numbered by their place in *)
(* the log, and an event has the number of its store.                      *)
(***************************************************************************)

Stores == {i \in DOMAIN log : Stored(i) /\ log[i].block = number}

Upto(S, i) == {j \in S : j <= i}

EventOf(i) == [something |-> log[i].call.something, who |-> log[i].origin.who]

(* The property, in these words. *)
LEMMA EventsByStores ==
  EventsOfThisBlock
    <=> /\ Len(events) = Cardinality(Stores)
        /\ \A i \in Stores : events[Cardinality(Upto(Stores, i))] = EventOf(i)
  BY DEF EventsOfThisBlock, Stores, Upto, EventOf

(* A store's number is at most the number of stores. *)
LEMMA NumberOfStore ==
  ASSUME NEW S, IsFiniteSet(S), NEW i \in S, i \in Nat
  PROVE  /\ Cardinality(Upto(S, i)) \in 1 .. Cardinality(S)
         /\ Cardinality(S) \in Nat
  <1>1. Upto(S, i) \subseteq S /\ i \in Upto(S, i)
    BY DEF Upto
  <1>2. IsFiniteSet(Upto(S, i)) /\ Cardinality(Upto(S, i)) <= Cardinality(S)
    BY <1>1, FS_Subset
  <1>3. Cardinality(Upto(S, i)) # 0
    BY <1>1, <1>2, FS_EmptySet
  <1>4. Cardinality(Upto(S, i)) \in Nat /\ Cardinality(S) \in Nat
    BY <1>2, FS_CardinalityType
  <1>5. QED
    BY <1>2, <1>3, <1>4

(* There are finitely many stores. *)
LEMMA StoresFinite ==
  ASSUME PalletType
  PROVE  IsFiniteSet(Stores) /\ Stores \subseteq DOMAIN log /\ DOMAIN log = 1 .. Len(log)
         /\ Stores \subseteq Nat
  <1>1. IsFiniteSet(1 .. Len(log)) /\ DOMAIN log = 1 .. Len(log) /\ Len(log) \in Nat
    BY FS_Interval DEF PalletType
  <1>2. Stores \subseteq 1 .. Len(log)
    BY <1>1 DEF Stores
  <1>3. IsFiniteSet(Stores)
    BY <1>1, <1>2, FS_Subset
  <1>4. Stores \subseteq Nat
    BY <1>1, <1>2
  <1>5. QED
    BY <1>1, <1>2, <1>3, <1>4

(* A dispatch adds an event if and only if it stores a value. *)
LEMMA DispatchEvents ==
  ASSUME PalletType, EventsOfThisBlock,
         NEW call \in Calls, NEW origin \in Origin, NEW a \in Accounts,
         Dispatch(call, origin, a)
  PROVE  EventsOfThisBlock'
  <1> DEFINE r == Dispatched(call, origin)
             e == [call |-> call, origin |-> origin, signer |-> a,
                   result |-> r.result, block |-> number, key |-> key]
  <1>1. events' = events \o r.events /\ number' = number /\ events \in Seq(SomethingStored)
    BY DEF Dispatch, PalletType
  <1>2. /\ Len(log) \in Nat
        /\ DOMAIN log = 1 .. Len(log) /\ DOMAIN log' = 1 .. Len(log) + 1
        /\ \A i \in DOMAIN log : log'[i] = log[i]
        /\ log'[Len(log) + 1] = e
    BY DispatchLogs
  <1>3. PICK n \in Nat : n = Len(log) + 1
    BY <1>2
  <1>4. /\ \A i \in DOMAIN log : i < n /\ log'[i] = log[i]
        /\ DOMAIN log' = DOMAIN log \cup {n} /\ n \notin DOMAIN log /\ log'[n] = e
    BY <1>2, <1>3
  <1>5. e.result = r.result /\ e.call = call /\ e.origin = origin /\ e.block = number
    OBVIOUS
  <1>6. \A x \in Result \ {"Ok"} : r = Err(x) => r.result # "Ok" /\ r.events = <<>>
    BY ResultFields
  <1>7. \A v, d : r = Ok(v, d) => r.result = "Ok" /\ r.events = d
    BY ResultFields
  <1>8. \/ \E x \in Result \ {"Ok"} : r = Err(x)
        \/ /\ origin.kind = "Signed" /\ origin.who \in Accounts
           /\ call.fn = "do_something" /\ call.something \in u32
           /\ r = Ok(call.something, <<[something |-> call.something, who |-> origin.who]>>)
        \/ /\ call.fn = "cause_error"
           /\ r = Ok(something + 1, <<>>)
    BY DispatchedResult
  <1>9. IsFiniteSet(Stores) /\ Stores \subseteq DOMAIN log /\ Stores \subseteq Nat
    BY StoresFinite
  <1> HIDE DEF r, e
  <1>10. \A i \in DOMAIN log : EventOf(i)' = EventOf(i) /\ (Stored(i)' <=> Stored(i))
    BY <1>4 DEF EventOf, Stored, Succeeded
  <1>11. CASE r.events = <<>> /\ ~(r.result = "Ok" /\ call.fn = "do_something")
    <2>1. events' = events
      BY <1>1, <1>11
    <2>2. ~Stored(n)'
      BY <1>4, <1>5, <1>11 DEF Stored, Succeeded
    <2>3. Stores' = Stores
      BY <1>1, <1>4, <1>10, <2>2 DEF Stores
    <2>4. \A i \in Stores : events[Cardinality(Upto(Stores, i))] = EventOf(i)'
      BY <1>9, <1>10, EventsByStores
    <2>5. /\ Len(events') = Cardinality(Stores')
          /\ \A i \in Stores' : events'[Cardinality(Upto(Stores', i))] = EventOf(i)'
      BY <2>1, <2>3, <2>4, EventsByStores
    <2>6. QED
      BY <2>5 DEF EventsOfThisBlock, Stores, Upto, EventOf
  <1>12. CASE /\ call.fn = "do_something" /\ r.result = "Ok"
              /\ r.events = <<[something |-> call.something, who |-> origin.who]>>
              /\ call.something \in u32 /\ origin.who \in Accounts
    <2> DEFINE event == [something |-> call.something, who |-> origin.who]
    <2>1. Stored(n)' /\ EventOf(n)' = event /\ event \in SomethingStored
      BY <1>4, <1>5, <1>12 DEF Stored, Succeeded, EventOf, SomethingStored
    <2>2. Stores' = Stores \cup {n} /\ n \notin Stores
      BY <1>1, <1>4, <1>5, <1>9, <1>10, <2>1 DEF Stores
    <2>3. /\ IsFiniteSet(Stores \cup {n})
          /\ Cardinality(Stores \cup {n}) = Cardinality(Stores) + 1
          /\ Cardinality(Stores) \in Nat
      BY <1>9, <2>2, FS_AddElement, FS_CardinalityType
    <2> HIDE DEF event
    <2>4. PICK k \in Nat : k = Cardinality(Stores) /\ k = Len(events)
      BY <2>3, EventsByStores
    <2>5. Len(events') = k + 1 /\ events'[k + 1] = event /\ \A j \in 1 .. k : events'[j] = events[j]
      BY <1>1, <1>12, <2>1, <2>4 DEF event
    <2>6. Upto(Stores \cup {n}, n) = Stores \cup {n}
      BY <1>4, <1>9 DEF Upto
    <2>7. ASSUME NEW i \in Stores
          PROVE  events'[Cardinality(Upto(Stores \cup {n}, i))] = EventOf(i)'
      <3>1. Upto(Stores \cup {n}, i) = Upto(Stores, i)
        BY <1>4, <1>9 DEF Upto
      <3>2. Cardinality(Upto(Stores, i)) \in 1 .. k
        BY <1>9, <2>4, NumberOfStore
      <3>3. events[Cardinality(Upto(Stores, i))] = EventOf(i)
        BY EventsByStores
      <3>4. QED
        BY <1>9, <1>10, <2>5, <3>1, <3>2, <3>3
    <2>8. events'[Cardinality(Upto(Stores \cup {n}, n))] = EventOf(n)'
      BY <2>1, <2>3, <2>4, <2>5, <2>6
    <2>9. /\ Len(events') = Cardinality(Stores')
          /\ \A i \in Stores' : events'[Cardinality(Upto(Stores', i))] = EventOf(i)'
      BY <2>2, <2>3, <2>4, <2>5, <2>7, <2>8
    <2>10. QED
      BY <2>9 DEF EventsOfThisBlock, Stores, Upto, EventOf
  <1>13. QED
    BY <1>6, <1>7, <1>8, <1>11, <1>12

(* A new block starts without events, and without stores. *)
LEMMA InitializeEvents ==
  ASSUME PalletType, InitializeBlock
  PROVE  EventsOfThisBlock'
  <1>1. /\ events' = <<>> /\ number' = number + 1 /\ log' = log /\ number \in Nat
        /\ \A i \in DOMAIN log : log[i].block \in 1 .. number
    BY DEF InitializeBlock, PalletType
  <1>2. Stores' = {}
    BY <1>1 DEF Stores
  <1>3. Len(events') = Cardinality(Stores')
    BY <1>1, <1>2, FS_EmptySet
  <1>4. QED
    BY <1>2, <1>3 DEF EventsOfThisBlock, Stores

(* What an observer finds in a block are the events of that block's        *)
(* successful do_something calls, in order, for any number of calls, also  *)
(* among failing ones and those made through sudo.                         *)
THEOREM EventsAreOfThisBlock == Spec => []EventsOfThisBlock
  <1>1. Init => EventsOfThisBlock
    <2> SUFFICES ASSUME Init PROVE EventsOfThisBlock
      OBVIOUS
    <2>1. Stores = {} /\ events = <<>>
      BY DEF Init, Stores
    <2>2. QED
      BY <2>1, FS_EmptySet, EventsByStores
  <1>2. PalletInv /\ EventsOfThisBlock /\ [Next]_vars => EventsOfThisBlock'
    <2> SUFFICES ASSUME PalletType, EventsOfThisBlock, [Next]_vars PROVE EventsOfThisBlock'
      BY DEF PalletInv
    <2>1. ASSUME NEW a \in Accounts, NEW call \in Calls, NEW origin \in Origin,
                 Dispatch(call, origin, a)
          PROVE  EventsOfThisBlock'
      BY <2>1, DispatchEvents
    <2>2. CASE InitializeBlock
      BY <2>2, InitializeEvents
    <2>3. CASE UNCHANGED <<events, number, log>>
      BY <2>3 DEF EventsOfThisBlock, Stored, Succeeded
    <2>4. Root \in Origin /\ \A a \in Accounts : Signed(a) \in Origin
      BY DEF Origin, Root, Signed
    <2>5. QED
      BY <2>1, <2>2, <2>3, <2>4
      DEF Next, vars, FinalizeBlock, SetKey, ApplySigned, ApplySudo, ApplySudoAs
  <1>3. QED
    BY <1>1, <1>2, PalletInvariant, PTL DEF Spec

==============================================================================
