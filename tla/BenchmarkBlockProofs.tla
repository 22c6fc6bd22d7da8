------------------------- MODULE BenchmarkBlockProofs -------------------------
(***************************************************************************)
(* The benchmark's extrinsics, for every chain it may be run on.           *)
(***************************************************************************)
EXTENDS BenchmarkBlock, RuntimeProofs

------------------------------------------------------------------------------
(* Eras. *)

(* The next power of two is what it says. *)
LEMMA NextPower ==
  ASSUME NEW n \in Nat, 1 <= n, n <= 65536, NEW p, p = next_power_of_two(n)
  PROVE  p \in PowersOfTwo /\ n <= p /\ p < 2 * n
  <1>1. \E q \in PowersOfTwo : q >= n /\ q < 2 * n
    BY DEF PowersOfTwo
  <1>2. QED
    BY <1>1 DEF next_power_of_two

(* A power of two is its own next one. *)
LEMMA PowerItself ==
  ASSUME NEW n \in PowersOfTwo
  PROVE  next_power_of_two(n) = n
  <1>1. n \in Nat /\ 1 <= n /\ n <= 65536
    BY DEF PowersOfTwo
  <1>2. PICK p : p = next_power_of_two(n)
    OBVIOUS
  <1>3. p \in PowersOfTwo /\ n <= p /\ p < 2 * n
    BY <1>1, <1>2, NextPower
  <1>4. p = n
    BY <1>3 DEF PowersOfTwo
  <1>5. QED
    BY <1>2, <1>4

IsPeriod(p) ==
  /\ 4 <= p /\ p <= BlockHashCount + 2
  /\ \A b \in Nat : mortal(benchmark_period, b) = [period |-> p, phase |-> b % p]

(* The period of the benchmark's eras: no longer than the hashes that the  *)
(* runtime remembers last, and short enough not to be rounded.             *)
LEMMA PeriodIs == \E p \in Nat : IsPeriod(p)
  <1>1. BlockHashCount \in Nat /\ 2 <= BlockHashCount /\ BlockHashCount <= 8192
    BY ParametersAssumption
  <1>2. PICK n : n = next_power_of_two(BlockHashCount)
    OBVIOUS
  <1>3. n \in PowersOfTwo /\ BlockHashCount <= n /\ n < 2 * BlockHashCount
    BY <1>1, <1>2, NextPower
  <1>4. n \in {2, 4, 8, 16, 32, 64, 128, 256, 512, 1024, 2048, 4096, 8192}
    BY <1>1, <1>3 DEF PowersOfTwo
  <1>5. PICK h : h = n \div 2
    OBVIOUS
  <1>6. h \in {1, 2, 4, 8, 16, 32, 64, 128, 256, 512, 1024, 2048, 4096} /\ 2 * h = n
    BY <1>4, <1>5
  <1>7. h \in PowersOfTwo
    BY <1>6 DEF PowersOfTwo
  <1>8. benchmark_period = h /\ next_power_of_two(h) = h
    BY <1>2, <1>5, <1>7, PowerItself DEF benchmark_period
  <1>9. PICK p : p = Smaller(Larger(h, 4), 65536)
    OBVIOUS
  <1>10. p = IF h < 4 THEN 4 ELSE h
    BY <1>6, <1>9 DEF Smaller, Larger
  <1>11. p \in {4, 8, 16, 32, 64, 128, 256, 512, 1024, 2048, 4096}
    BY <1>6, <1>10
  <1>12. p \in Nat /\ 4 <= p /\ p <= 4096 /\ p <= BlockHashCount + 2
    BY <1>1, <1>3, <1>6, <1>10, <1>11
  <1>13. Larger(p \div 4096, 1) = 1
    BY <1>11 DEF Larger
  <1>14. ASSUME NEW b \in Nat
         PROVE  mortal(benchmark_period, b) = [period |-> p, phase |-> b % p]
    <2>1. mortal(h, b) = [period |-> p, phase |-> ((b % p) \div 1) * 1]
      BY <1>8, <1>9, <1>13 DEF mortal
    <2>2. b % p \in Nat
      BY <1>12
    <2>3. ((b % p) \div 1) * 1 = b % p
      BY <2>2
    <2>4. QED
      BY <1>8, <2>1, <2>3
  <1>15. p \in Nat /\ IsPeriod(p)
    BY <1>12, <1>14 DEF IsPeriod
  <1>16. QED
    BY <1>15

(* Two multiples that are closer than their step are one. *)
LEMMA SameMultiple ==
  ASSUME NEW p \in Nat, p > 0, NEW q \in Nat, NEW r \in Nat,
         r * p < q * p + p, q * p < r * p + p
  PROVE  r = q
  <1>1. r * p < (q + 1) * p /\ q * p < (r + 1) * p
    OBVIOUS
  <1>2. ASSUME NEW a \in Nat, NEW c \in Nat, c + 1 <= a
        PROVE  (c + 1) * p <= a * p
    BY <1>2
  <1>3. ~(q + 1 <= r) /\ ~(r + 1 <= q)
    <2>1. q + 1 <= r => (q + 1) * p <= r * p
      BY <1>2
    <2>2. r + 1 <= q => (r + 1) * p <= q * p
      BY <1>2
    <2>3. q * p \in Nat /\ r * p \in Nat /\ (q + 1) * p \in Nat /\ (r + 1) * p \in Nat
      OBVIOUS
    <2>4. QED
      BY <1>1, <2>1, <2>2, <2>3
  <1>4. QED
    BY <1>3

(* Of the blocks that follow b, an era of b that is seen from one within   *)
(* its period counts from b, and it counts from a later one afterwards.    *)
LEMMA BirthWithinPeriod ==
  ASSUME NEW p \in Nat, 4 <= p, NEW b \in Nat, NEW n \in Nat, b < n,
         NEW era, era = [period |-> p, phase |-> b % p]
  PROVE  birth(era, n) = b <=> n < b + p
  <1>1. PICK f \in Nat : f = b % p
    OBVIOUS
  <1>2. PICK q \in Nat : q = b \div p
    BY Quotient
  <1>3. b = q * p + f /\ f < p /\ q * p \in Nat
    BY <1>1, <1>2
  <1>4. era # Immortal /\ era.period = p /\ era.phase = f
    BY <1>1 DEF Immortal
  <1>5. PICK t \in Nat : t = n - f
    BY <1>3
  <1>6. Larger(n, f) - f = t
    BY <1>3, <1>5 DEF Larger
  <1>7. birth(era, n) = (t \div p) * p + f
    BY <1>4, <1>6 DEF birth
  <1>8. PICK r \in Nat : r = t \div p
    BY Quotient
  <1>9. r * p \in Nat /\ r * p <= t /\ t < r * p + p
    BY <1>8, Quotient
  <1>10. t > q * p
    BY <1>3, <1>5
  <1>11. CASE n < b + p
    <2>1. t < q * p + p
      BY <1>3, <1>5, <1>11
    <2>2. r = q
      <3>1. r * p < q * p + p /\ q * p < r * p + p
        BY <1>3, <1>9, <1>10, <2>1
      <3>2. QED
        BY <3>1, SameMultiple
    <2>3. QED
      BY <1>3, <1>7, <1>8, <1>11, <2>2
  <1>12. CASE ~(n < b + p)
    <2>1. t >= q * p + p
      BY <1>3, <1>5, <1>12
    <2>2. r * p > q * p
      BY <1>3, <1>9, <2>1
    <2>3. birth(era, n) = r * p + f
      BY <1>7, <1>8
    <2>4. QED
      BY <1>3, <1>9, <1>12, <2>2, <2>3
  <1>13. QED
    BY <1>11, <1>12

------------------------------------------------------------------------------
(* The extrinsics. *)

(* They are signed over the best block, which their era counts from. *)
LEMMA EraOfBest ==
  ASSUME number \in Nat, 1 <= number, NEW builder \in Builders, NEW nonce \in Nat,
         NEW e, e = create_benchmark_extrinsic(builder, nonce)
  PROVE  /\ CheckEra(e)
         /\ e \in Extrinsic
         /\ e.signer = Bob /\ e.nonce = nonce /\ e.call = BuilderCall(builder)
  <1>1. PICK p \in Nat : IsPeriod(p)
    BY PeriodIs
  <1>2. PICK b \in Nat : b = number - 1
    OBVIOUS
  <1>3. PICK era : era = [period |-> p, phase |-> b % p]
    OBVIOUS
  <1>4. mortal(benchmark_period, best_block) = era
    BY <1>1, <1>2, <1>3 DEF IsPeriod, best_block
  <1>5. e = [signer |-> Bob, nonce |-> nonce, call |-> BuilderCall(builder), era |-> era, hash |-> b]
    BY <1>2, <1>4 DEF create_benchmark_extrinsic, best_block
  <1>6. birth(era, number) = b
    <2>1. b < number /\ number < b + p /\ 4 <= p
      BY <1>1, <1>2 DEF IsPeriod
    <2>2. QED
      BY <1>3, <2>1, BirthWithinPeriod
  <1>7. b \in KnownHashes(number)
    <2>1. BlockHashCount \in Nat
      BY BlockHashCountAssumption
    <2>2. QED
      BY <1>2, <2>1 DEF KnownHashes
  <1>8. CheckEra(e)
    BY <1>5, <1>6, <1>7 DEF CheckEra
  <1>9. era \in Eras
    <2>1. p \in Nat \ {0} /\ b % p \in Nat
      BY <1>1 DEF IsPeriod
    <2>2. QED
      BY <1>3, <2>1 DEF Eras
  <1>10. BuilderCall(builder) \in Call /\ Bob \in Accounts
    <2>1. /\ Bob \in Accounts /\ Alice \in Accounts /\ ExistentialDeposit \in Nat
          /\ RemarkWeight \in Nat /\ TransferWeight \in Nat
      BY BenchmarkAssumption, RuntimeAssumption
    <2>2. QED
      BY <2>1 DEF BuilderCall, Call, Builders, Transfers, Classes
  <1>11. e \in Extrinsic
    BY <1>5, <1>9, <1>10 DEF Extrinsic
  <1>12. QED
    BY <1>5, <1>8, <1>11

------------------------------------------------------------------------------
(* The invariant. *)

Found == [nonce : Nat, free : Nat, time : Nat]

BenchType ==
  bench \in [state : {"idle", "building", "built", "failed"}, builder : Builders, next : Nat,
             found : Found]

BuilderWeight(builder) == IF builder = "remark" THEN RemarkWeight ELSE TransferWeight

(* What one extrinsic adds to the block, and what it takes from Bob at most. *)
Added(builder) == BuilderWeight(builder) + BaseExtrinsic
Cost(builder) == Added(builder) + LengthFee + ExistentialDeposit

(* Bob as he was endowed. *)
Untouched == storage.nonce[Bob] = 0 /\ storage.free[Bob] = Endowment

(* While a block is being filled that found everything ready. *)
Filling ==
  /\ storage.nonce[Bob] = bench.next
  /\ Endowment <= storage.free[Bob] + bench.next * Cost(bench.builder)
  /\ used.normal = bench.next * Added(bench.builder)
  /\ bench.next = 0 => used = EmptyBlock

(* A command that found everything ready is doing well, as one on a chain  *)
(* with no block but genesis always is.                                    *)
Fresh ==
  /\ number = 1 /\ bench.state = "idle" /\ used = EmptyBlock => Untouched
  /\ number = 1 /\ bench.state # "idle" => Ready(bench.found)
  /\ Ready(bench.found) => /\ bench.state # "failed"
                           /\ bench.state = "building" => Filling

BenchInv == RuntimeInv /\ BenchType /\ Fresh

(* Extrinsics that were applied show in the block's counters. *)
LEMMA ApplyShows ==
  ASSUME RuntimeInv, NEW e \in Extrinsic, Apply(e)
  PROVE  used' # EmptyBlock
  <1>1. used \in Usage /\ e.call.class \in {"normal", "operational"} /\ e.call.weight \in Nat
        /\ e.call.length \in Nat
    BY DEF RuntimeInv, RuntimeType, Usage, Extrinsic, Call, Classes
  <1>2. BaseExtrinsic \in Nat /\ BaseExtrinsic > 0
    BY BlockLimitsAssumption
  <1>3. used' = Accrued(used, e.call.class, e.call.weight, e.call.length)
    BY DEF Apply
  <1>4. CASE e.call.class = "normal"
    <2>1. used'.normal = used.normal + (e.call.weight + BaseExtrinsic)
      BY <1>1, <1>3, <1>4, AccruedIs
    <2>2. used'.normal # 0
      BY <1>1, <1>2, <2>1 DEF Usage
    <2>3. QED
      BY <2>2 DEF EmptyBlock
  <1>5. CASE e.call.class = "operational"
    <2>1. used'.operational = used.operational + (e.call.weight + BaseExtrinsic)
      BY <1>1, <1>3, <1>5, AccruedIs
    <2>2. used'.operational # 0
      BY <1>1, <1>2, <2>1 DEF Usage
    <2>3. QED
      BY <2>2 DEF EmptyBlock
  <1>6. QED
    BY <1>1, <1>4, <1>5

(* A timestamp of zero suits a block whose parent's is in the first half   *)
(* of its slot.                                                            *)
LEMMA InherentInFirstHalf ==
  ASSUME NEW time \in Nat, time % slot_duration < MinimumPeriod
  PROVE  InherentApplies(time)
  <1>1. PICK m \in Nat : m = MinimumPeriod /\ m > 0
    BY BenchmarkAssumption DEF MinimumPeriod
  <1>2. PICK d \in Nat : d = slot_duration /\ d = 2 * m /\ d > 0
    BY <1>1 DEF slot_duration
  <1>3. PICK f \in Nat : f = time % d /\ f < m
    BY <1>1, <1>2
  <1>4. PICK q \in Nat : q = time \div d
    BY <1>2, Quotient
  <1>5. time = q * d + f /\ q * d \in Nat
    BY <1>2, <1>3, <1>4
  <1>6. PICK r \in Nat : r = (time + m) \div d
    BY <1>2, Quotient
  <1>7. r * d \in Nat /\ r * d <= time + m /\ time + m < r * d + d
    <2>1. time + m \in Nat
      OBVIOUS
    <2>2. QED
      BY <1>2, <1>6, <2>1, Quotient
  <1>8. r = q
    <2>1. r * d < q * d + d /\ q * d < r * d + d
      BY <1>2, <1>3, <1>5, <1>7
    <2>2. QED
      BY <1>2, <2>1, SameMultiple
  <1>9. SlotOf(time + m) = SlotOf(time)
    BY <1>2, <1>4, <1>6, <1>8 DEF SlotOf
  <1>10. PICK parent : parent = [time |-> time]
    OBVIOUS
  <1>11. CreateInherent(parent, 0) = time + m
    BY <1>1, <1>10 DEF CreateInherent
  <1>12. SetTimestamp(parent, SlotOf(time), time + m)
    BY <1>1, <1>9, <1>10 DEF SetTimestamp
  <1>13. QED
    BY <1>10, <1>11, <1>12 DEF InherentApplies, inherent_benchmark_data

(* Zero is in the first half of its slot. *)
LEMMA GenesisTime == 0 % slot_duration < MinimumPeriod
  <1>1. PICK m \in Nat : m = MinimumPeriod /\ m > 0
    BY BenchmarkAssumption DEF MinimumPeriod
  <1>2. PICK d \in Nat : d = slot_duration /\ d > 0
    BY <1>1 DEF slot_duration
  <1>3. 0 % d = 0
    BY <1>2
  <1>4. QED
    BY <1>1, <1>2, <1>3

(* The parameters, as the next lemmas need them. *)
LEMMA Parameters ==
  ASSUME NEW builder \in Builders
  PROVE  /\ Added(builder) \in Nat /\ Added(builder) >= 1
         /\ Cost(builder) \in Nat /\ Cost(builder) = Added(builder) + LengthFee + ExistentialDeposit
         /\ Fee(BuilderCall(builder)) = Added(builder) + LengthFee
         /\ BuilderCall(builder).weight = BuilderWeight(builder)
         /\ BuilderWeight(builder) \in Nat /\ BuilderWeight(builder) <= max_extrinsic("normal")
         /\ LengthFee \in Nat /\ ExistentialDeposit \in Nat \ {0} /\ Endowment \in Nat
         /\ BaseExtrinsic \in Nat /\ max_total("normal") \in Nat
  <1>1. /\ LengthFee \in Nat /\ ExistentialDeposit \in Nat \ {0} /\ Endowment \in Nat
        /\ BaseExtrinsic \in Nat /\ BaseExtrinsic > 0
        /\ RemarkWeight \in Nat /\ TransferWeight \in Nat
    BY BenchmarkAssumption, RuntimeAssumption, BlockLimitsAssumption
  <1>2. BuilderWeight(builder) \in Nat /\ BuilderWeight(builder) <= max_extrinsic("normal")
    BY <1>1, ParametersAssumption DEF BuilderWeight
  <1>3. BuilderCall(builder).weight = BuilderWeight(builder)
    BY DEF BuilderCall, BuilderWeight
  <1>4. max_total("normal") \in Nat
    BY Shares DEF max_total
  <1>5. QED
    BY <1>1, <1>2, <1>3, <1>4 DEF Added, Cost, Fee

(***************************************************************************)
(* The endowment lasts: there are no more extrinsics in a block than it    *)
(* has room for, and the endowment pays for that many.                     *)
(***************************************************************************)
LEMMA Affordable ==
  ASSUME NEW k \in Nat, k >= 1, NEW m \in Nat, NEW M \in Nat, NEW u \in Nat, m * k <= M
  PROVE  m * (k + u) <= M * (1 + u)
  <1>1. m * k \in Nat /\ m <= m * k
    <2>1. PICK j \in Nat : k = j + 1
      BY k - 1 \in Nat
    <2>2. m * k = m * j + m /\ m * j \in Nat
      BY <2>1
    <2>3. QED
      BY <2>2
  <1>2. m <= M
    BY <1>1
  <1>3. m * u <= M * u /\ m * u \in Nat /\ M * u \in Nat
    BY <1>2
  <1>4. m * (k + u) = m * k + m * u /\ M * (1 + u) = M + M * u
    OBVIOUS
  <1>5. QED
    BY <1>1, <1>3, <1>4

(* The first extrinsic fits. *)
LEMMA FirstFits ==
  ASSUME NEW w \in Nat, w <= max_extrinsic("normal")
  PROVE  Fits(EmptyBlock, "normal", w, 1)
  <1>1. /\ MaxBlockWeight \in Nat /\ BaseExtrinsic \in Nat /\ Initialization \in Nat
        /\ Initialization <= MaxBlockWeight \div 10 /\ MaxBlockWeight \div 10 \in Nat
        /\ EmptyBlock \in Usage
    BY BlockLimitsAssumption DEF EmptyBlock, Usage
  <1>2. InherentLength + 1 <= max_length("normal")
    BY ParametersAssumption
  <1>3. Accrued(EmptyBlock, "normal", w, 1)
          = [normal |-> 0 + (w + BaseExtrinsic), operational |-> 0,
             mandatory |-> Initialization, length |-> InherentLength + 1]
    BY <1>1, AccruedIs DEF EmptyBlock
  <1>4. w <= NormalShare(MaxBlockWeight) - MaxBlockWeight \div 10 - BaseExtrinsic
    BY DEF max_extrinsic, max_total
  <1>5. QED
    BY <1>1, <1>2, <1>3, <1>4, Shares DEF Fits, Total, max_total

(* What an extrinsic of the benchmark does to Bob: his nonce goes up by    *)
(* one, as he is not removed, and he pays the fee and what he transfers.   *)
LEMMA PushOnBob ==
  ASSUME RuntimeInv, NEW builder \in Builders, NEW nonce \in Nat,
         NEW e, e = create_benchmark_extrinsic(builder, nonce), Apply(e)
  PROVE  /\ storage'.nonce[Bob] = storage.nonce[Bob] + 1
         /\ storage.free[Bob] <= storage'.free[Bob] + Cost(builder)
  <1>1. /\ e \in Extrinsic /\ e.signer = Bob /\ e.call = BuilderCall(builder)
        /\ number \in Nat /\ 1 <= number
    BY EraOfBest DEF RuntimeInv, RuntimeType
  <1>2. PICK fee \in Nat : fee = Added(builder) + LengthFee
    BY Parameters
  <1>3. Fee(e.call) = fee /\ Cost(builder) = fee + ExistentialDeposit
        /\ ExistentialDeposit \in Nat /\ ExistentialDeposit > 0
    BY <1>1, <1>2, Parameters
  <1>4. Verdict(e) = "Valid" /\ storage' = Dispatch(PreDispatch(e), e)
    BY DEF Apply
  <1>5. /\ Bob \in Accounts /\ Alice \in Accounts
        /\ storage \in Storage
    BY BenchmarkAssumption, RuntimeAssumption DEF RuntimeInv, RuntimeType
  <1>6. PICK s : s = PreDispatch(e)
    OBVIOUS
  <1>7. /\ s \in Storage
        /\ s.nonce = [storage.nonce EXCEPT ![Bob] = @ + 1]
    BY <1>1, <1>4, <1>6, PreDispatchClean DEF RuntimeInv
  <1>8. s.free[Bob] = storage.free[Bob] - fee
    BY <1>1, <1>3, <1>5, <1>6 DEF PreDispatch, Charge, Storage, Balances
  <1>9. s.nonce[Bob] = storage.nonce[Bob] + 1
    BY <1>5, <1>7 DEF Storage, Balances
  <1>10. storage.free[Bob] \in Nat /\ s.free[Bob] \in Nat /\ s.free[Alice] \in Nat
    BY <1>5, <1>7 DEF Storage, Balances
  <1>11. CASE storage' = s
    BY <1>3, <1>8, <1>9, <1>10, <1>11
  <1>12. CASE storage' # s
    <2>1. /\ builder = "transfer_keep_alive"
          /\ storage' = Transfer(s, Bob, e.call)
      BY <1>1, <1>4, <1>6, <1>12 DEF Dispatch, Builders, BuilderCall, Transfers
    <2>2. /\ e.call.fn = "transfer_keep_alive" /\ e.call.dest = Alice
          /\ e.call.value = ExistentialDeposit
      BY <1>1, <2>1 DEF BuilderCall
    <2>3. PICK left : left = s.free[Bob] - ExistentialDeposit
      OBVIOUS
    <2>4. PICK sum \in Nat : sum = s.free[Alice] + ExistentialDeposit
      BY <1>3, <1>10
    <2>5. Bob # Alice /\ Transferable(s, Bob, e.call)
      BY <1>12, <2>1, <2>2 DEF Transfer
    <2>6. left >= ExistentialDeposit /\ sum >= ExistentialDeposit
      BY <1>3, <2>2, <2>3, <2>4, <2>5 DEF Transferable
    <2>7. left \in Nat
      BY <1>3, <1>10, <2>3, <2>6
    <2>8. PICK paid : paid = SetFree(s, Bob, left)
      OBVIOUS
    <2>9. paid = [free |-> [s.free EXCEPT ![Bob] = left], nonce |-> s.nonce,
                  removed |-> s.removed, issuance |-> s.issuance]
      BY <1>5, <1>7, <2>6, <2>7, <2>8, SetFreeIs
    <2>10. paid \in Storage /\ paid.free[Alice] = s.free[Alice] /\ paid.free[Bob] = left
           /\ paid.nonce = s.nonce
      BY <1>5, <1>7, <2>5, <2>7, <2>9 DEF Storage, Balances
    <2>11. storage' = SetFree(paid, Alice, sum)
      BY <2>1, <2>2, <2>3, <2>4, <2>5, <2>8, <2>10 DEF Transfer
    <2>12. storage' = [free |-> [paid.free EXCEPT ![Alice] = sum], nonce |-> paid.nonce,
                       removed |-> paid.removed, issuance |-> paid.issuance]
      BY <1>5, <2>4, <2>6, <2>10, <2>11, SetFreeIs
    <2>13. storage'.free[Bob] = left /\ storage'.nonce = s.nonce
      BY <1>5, <2>5, <2>10, <2>12 DEF Storage, Balances
    <2>14. QED
      BY <1>3, <1>8, <1>9, <1>10, <2>3, <2>13
  <1>13. QED
    BY <1>11, <1>12

(* The node has not been used yet. *)
LEMMA InitBench == BenchmarkInit => BenchInv
  <1> SUFFICES ASSUME BenchmarkInit
               PROVE  BenchInv
    OBVIOUS
  <1>1. RuntimeInv
    BY InitInvariant DEF BenchmarkInit
  <1>2. bench = [state |-> "idle", builder |-> "remark", next |-> 0,
                 found |-> [nonce |-> 0, free |-> Endowment, time |-> 0]]
    BY DEF BenchmarkInit
  <1>3. BenchType
    BY <1>2, RuntimeAssumption DEF BenchType, Builders, Found
  <1>4. Untouched
    <2>1. Bob \in Endowed /\ Bob \in Accounts
      BY BenchmarkAssumption, RuntimeAssumption
    <2>2. QED
      BY <2>1 DEF Untouched, BenchmarkInit, Init
  <1>5. Fresh
    BY <1>2, <1>4 DEF Fresh
  <1>6. QED
    BY <1>1, <1>3, <1>5 DEF BenchInv

(* Blocks of the node: one with an extrinsic is not empty, and only the    *)
(* first is on genesis.                                                    *)
LEMMA ChainRunsInv ==
  ASSUME BenchInv, ChainRuns
  PROVE  BenchInv'
  <1>1. bench' = bench /\ bench.state = "idle"
    BY DEF ChainRuns
  <1>2. BenchType'
    BY <1>1 DEF BenchInv, BenchType
  <1>3. ASSUME NEW e \in Extrinsics, Apply(e)
        PROVE  BenchInv'
    <2>1. e \in Extrinsic
      BY RuntimeAssumption
    <2>2. RuntimeInv'
      BY <1>3, <2>1, ApplyInvariant DEF BenchInv
    <2>3. used' # EmptyBlock
      BY <1>3, <2>1, ApplyShows DEF BenchInv
    <2>4. Fresh'
      BY <1>1, <2>3 DEF BenchInv, Fresh, EmptyBlock, Ready
    <2>5. QED
      BY <1>2, <2>2, <2>4 DEF BenchInv
  <1>4. CASE NextBlock
    <2>1. RuntimeInv'
      BY <1>4, NextBlockInvariant DEF BenchInv
    <2>2. number' # 1
      BY <1>4 DEF NextBlock, BenchInv, RuntimeInv, RuntimeType
    <2>3. Fresh'
      BY <1>1, <2>2 DEF BenchInv, Fresh, Ready
    <2>4. QED
      BY <1>2, <2>1, <2>3 DEF BenchInv
  <1>5. QED
    BY <1>3, <1>4 DEF ChainRuns

(* The command is started. *)
LEMMA StartInv ==
  ASSUME BenchInv, NEW builder \in Builders, Start(builder)
  PROVE  BenchInv'
  <1>1. bench.state = "idle" /\ used = EmptyBlock /\ UNCHANGED vars
    BY DEF Start
  <1>2. PICK time \in IF best_block = 0 THEN {0} ELSE ParentTimes :
          bench' = [state |-> IF InherentApplies(time) THEN "building" ELSE "failed",
                    builder |-> builder, next |-> 0,
                    found |-> [nonce |-> storage.nonce[Bob], free |-> storage.free[Bob],
                               time |-> time]]
    BY DEF Start
  <1>3. RuntimeInv'
    BY <1>1, StutterInvariant DEF BenchInv
  <1>4. PICK f : f = [nonce |-> storage.nonce[Bob], free |-> storage.free[Bob], time |-> time]
    OBVIOUS
  <1>5. /\ bench'.state = IF InherentApplies(time) THEN "building" ELSE "failed"
        /\ bench'.builder = builder /\ bench'.next = 0 /\ bench'.found = f
    BY <1>2, <1>4
  <1>6. storage.nonce[Bob] \in Nat /\ storage.free[Bob] \in Nat /\ time \in Nat
    <2>1. Bob \in Accounts /\ ParentTimes \subseteq Nat
      BY BenchmarkAssumption, RuntimeAssumption
    <2>2. storage \in Storage
      BY DEF BenchInv, RuntimeInv, RuntimeType
    <2>3. QED
      BY <2>1, <2>2 DEF Storage, Balances
  <1>7. BenchType'
    BY <1>2, <1>6 DEF BenchType, Found
  <1>8. number' = 1 => Ready(f)
    <2> SUFFICES ASSUME number' = 1
                 PROVE  Ready(f)
      OBVIOUS
    <2>1. number = 1
      BY <1>1 DEF vars
    <2>2. time = 0
      BY <2>1 DEF best_block
    <2>3. Untouched
      BY <1>1, <2>1 DEF BenchInv, Fresh
    <2>4. f.nonce = 0 /\ f.free = Endowment /\ f.time = 0 /\ Endowment \in Nat
      BY <1>4, <2>2, <2>3, RuntimeAssumption DEF Untouched
    <2>5. QED
      BY <2>4, GenesisTime DEF Ready
  <1>9. ASSUME Ready(f)
        PROVE  bench'.state = "building" /\ Filling'
    <2>1. storage' = storage /\ used' = used
      BY <1>1 DEF vars
    <2>2. /\ storage.nonce[Bob] = 0 /\ storage.free[Bob] >= Endowment
          /\ time % slot_duration < MinimumPeriod
      BY <1>4, <1>9 DEF Ready
    <2>3. bench'.state = "building"
      BY <1>5, <1>6, <2>2, InherentInFirstHalf
    <2>4. used'.normal = 0 /\ used' = EmptyBlock /\ EmptyBlock' = EmptyBlock
      BY <1>1, <2>1 DEF EmptyBlock
    <2>5. PICK c \in Nat : c = Cost(builder)
      BY Parameters
    <2>6. PICK k \in Nat : k = Added(builder)
      BY Parameters
    <2>7. 0 * c = 0 /\ 0 * k = 0
      OBVIOUS
    <2>8. Endowment \in Nat
      BY Parameters
    <2>9. Cost(bench'.builder) = c /\ Added(bench'.builder) = k
      BY <1>5, <2>5, <2>6
    <2>10. Filling'
      BY <1>5, <1>6, <2>1, <2>2, <2>4, <2>7, <2>8, <2>9
      DEF Filling, Cost, Added, BuilderWeight
    <2>11. QED
      BY <2>3, <2>10
  <1>10. Fresh'
    <2>1. bench'.state # "idle" /\ Ready(bench.found)' = Ready(f)
      BY <1>5 DEF Ready
    <2>2. QED
      BY <1>8, <1>9, <2>1 DEF Fresh
  <1>11. QED
    BY <1>3, <1>7, <1>10 DEF BenchInv

(* One more extrinsic. *)
LEMMA PushInv ==
  ASSUME BenchInv, Push
  PROVE  BenchInv'
  <1>1. bench.state = "building" /\ Apply(NextExtrinsic) /\ bench' = [bench EXCEPT !.next = @ + 1]
    BY DEF Push
  <1>2. /\ bench \in [state : {"idle", "building", "built", "failed"}, builder : Builders,
                     next : Nat, found : Found]
        /\ RuntimeInv /\ number \in Nat /\ 1 <= number
    BY DEF BenchInv, BenchType, RuntimeInv, RuntimeType
  <1>3. PICK builder \in Builders : builder = bench.builder
    BY <1>2
  <1>4. PICK n \in Nat : n = bench.next
    BY <1>2
  <1>5. PICK e : e = create_benchmark_extrinsic(builder, n)
    OBVIOUS
  <1>6. NextExtrinsic = e
    BY <1>3, <1>4, <1>5 DEF NextExtrinsic
  <1>7. e \in Extrinsic /\ e.call = BuilderCall(builder)
    BY <1>2, <1>5, EraOfBest
  <1>8. Apply(e)
    BY <1>1, <1>6
  <1>9. RuntimeInv'
    BY <1>2, <1>7, <1>8, ApplyInvariant
  <1>10. /\ bench'.next = n + 1 /\ bench'.builder = builder /\ bench'.state = "building"
         /\ bench'.found = bench.found
    BY <1>1, <1>2, <1>3, <1>4
  <1>11. BenchType'
    BY <1>1, <1>2 DEF BenchType
  <1>12. Fresh'
    <2>1. number' = number
      BY <1>8 DEF Apply
    <2> SUFFICES ASSUME Ready(bench.found)
                 PROVE  Filling'
      BY <1>1, <1>10, <2>1 DEF BenchInv, Fresh, Ready
    <2>2. Filling
      BY <1>1 DEF BenchInv, Fresh
    <2>3. /\ storage'.nonce[Bob] = storage.nonce[Bob] + 1
          /\ storage.free[Bob] <= storage'.free[Bob] + Cost(builder)
      BY <1>2, <1>5, <1>8, PushOnBob
    <2>4. PICK c \in Nat : c = Cost(builder)
      BY Parameters
    <2>5. PICK k \in Nat : k = Added(builder)
      BY Parameters
    <2>6. used'.normal = used.normal + k
      <3>1. /\ e.call.class = "normal" /\ e.call.length = 1
            /\ e.call.weight = BuilderWeight(builder) /\ BuilderWeight(builder) \in Nat
        BY <1>7, Parameters DEF BuilderCall
      <3>2. used \in Usage
        BY <1>2 DEF RuntimeInv, RuntimeType, Usage
      <3>3. used' = Accrued(used, "normal", BuilderWeight(builder), 1)
        BY <1>8, <3>1 DEF Apply
      <3>4. QED
        BY <2>5, <3>1, <3>2, <3>3, AccruedIs DEF Added
    <2>7. /\ storage.nonce[Bob] = n
          /\ Endowment <= storage.free[Bob] + n * c
          /\ used.normal = n * k
      BY <1>3, <1>4, <2>2, <2>4, <2>5 DEF Filling
    <2>8. /\ storage.free[Bob] \in Nat /\ storage'.free[Bob] \in Nat /\ Endowment \in Nat
      <3>1. Bob \in Accounts
        BY BenchmarkAssumption, RuntimeAssumption
      <3>2. storage \in Storage /\ storage' \in Storage
        BY <1>2, <1>9 DEF RuntimeInv, RuntimeType
      <3>3. QED
        BY <3>1, <3>2, Parameters DEF Storage, Balances
    <2>9. (n + 1) * c = n * c + c /\ (n + 1) * k = n * k + k /\ n * c \in Nat /\ n * k \in Nat
      OBVIOUS
    <2>10. /\ storage'.nonce[Bob] = n + 1
           /\ Endowment <= storage'.free[Bob] + (n + 1) * c
           /\ used'.normal = (n + 1) * k
      BY <2>3, <2>4, <2>6, <2>7, <2>8, <2>9
    <2>11. n + 1 # 0
      OBVIOUS
    <2>12. QED
      BY <1>10, <2>4, <2>5, <2>10, <2>11 DEF Filling, Cost, Added, BuilderWeight
  <1>13. QED
    BY <1>9, <1>11, <1>12 DEF BenchInv

(***************************************************************************)
(* The loop ends well.  Where all was ready the first extrinsic fits, so   *)
(* that the block is not empty, and one that fits can be paid for.         *)
(***************************************************************************)
LEMMA EndsWell ==
  ASSUME BenchInv, bench.state = "building", Ready(bench.found)
  PROVE  /\ Verdict(NextExtrinsic) \in {"Valid", "ExhaustsResources"}
         /\ bench.next = 0 => Verdict(NextExtrinsic) # "ExhaustsResources"
  <1>1. RuntimeInv /\ BenchType /\ Filling /\ number \in Nat /\ 1 <= number
    BY DEF BenchInv, Fresh, RuntimeInv, RuntimeType
  <1>2. PICK builder \in Builders : builder = bench.builder
    BY <1>1 DEF BenchType
  <1>3. PICK n \in Nat : n = bench.next
    BY <1>1 DEF BenchType
  <1>4. PICK e : e = NextExtrinsic
    OBVIOUS
  <1>5. /\ CheckEra(e) /\ e \in Extrinsic
        /\ e.signer = Bob /\ e.nonce = n /\ e.call = BuilderCall(builder)
    BY <1>1, <1>2, <1>3, <1>4, EraOfBest DEF NextExtrinsic
  <1>6. PICK k \in Nat : k = Added(builder) /\ k >= 1
    BY Parameters
  <1>7. /\ Fee(e.call) = k + LengthFee
        /\ Cost(builder) = k + LengthFee + ExistentialDeposit
        /\ LengthFee \in Nat /\ ExistentialDeposit \in Nat /\ Endowment \in Nat
        /\ max_total("normal") \in Nat
    BY <1>5, <1>6, Parameters
  <1>8. /\ e.call.class = "normal" /\ e.call.length = 1
        /\ e.call.weight = BuilderWeight(builder) /\ BuilderWeight(builder) \in Nat
        /\ BuilderWeight(builder) <= max_extrinsic("normal")
    BY <1>5, Parameters DEF BuilderCall
  <1>9. used \in Usage /\ storage \in Storage /\ Bob \in Accounts
    BY <1>1, BenchmarkAssumption, RuntimeAssumption DEF RuntimeInv, RuntimeType, Usage
  <1>10. PICK F \in Nat : F = storage.free[Bob]
    BY <1>9 DEF Storage, Balances
  <1>11. PICK u \in Nat : u = LengthFee + ExistentialDeposit
    BY <1>7
  <1>12. storage.nonce[Bob] = n /\ used.normal = n * k /\ Endowment <= F + n * (k + u)
    <2>1. k + LengthFee + ExistentialDeposit = k + u
      BY <1>7, <1>11
    <2>2. QED
      BY <1>1, <1>2, <1>3, <1>6, <1>7, <1>10, <2>1 DEF Filling
  <1>13. PICK M \in Nat : M = max_total("normal")
    BY <1>7
  <1>14. ExistentialDeposit + M * (1 + u) <= Endowment
    <2>1. 1 + LengthFee + ExistentialDeposit = 1 + u
      BY <1>7, <1>11
    <2>2. QED
      BY <1>13, <2>1, ParametersAssumption
  <1>15. Alive(storage, Bob)
    <2>1. n * k <= M
      BY <1>1, <1>12, <1>13 DEF RuntimeInv, Limits
    <2>2. n * (k + u) <= M * (1 + u)
      BY <1>6, <2>1, Affordable
    <2>3. n * (k + u) \in Nat /\ M * (1 + u) \in Nat
      OBVIOUS
    <2>4. ExistentialDeposit <= F
      BY <1>7, <1>12, <1>14, <2>2, <2>3
    <2>5. QED
      BY <1>10, <2>4 DEF Alive
  <1>16. CheckWeight(e) => n * k + k <= M
    <2>1. Accrued(used, "normal", BuilderWeight(builder), 1).normal
            = used.normal + (BuilderWeight(builder) + BaseExtrinsic)
      BY <1>8, <1>9, AccruedIs
    <2>2. CheckWeight(e) => Accrued(used, "normal", BuilderWeight(builder), 1).normal <= M
      BY <1>8, <1>13 DEF CheckWeight, Fits
    <2>3. BuilderWeight(builder) + BaseExtrinsic = k
      BY <1>6 DEF Added
    <2>4. QED
      BY <1>12, <2>1, <2>2, <2>3
  <1>17. CheckWeight(e) => CanPay(storage, Bob, Fee(e.call))
    <2> SUFFICES ASSUME CheckWeight(e)
                 PROVE  CanPay(storage, Bob, Fee(e.call))
      OBVIOUS
    <2>1. PICK m \in Nat : m = n + 1
      OBVIOUS
    <2>2. m * k <= M
      <3>1. m * k = n * k + k
        BY <2>1
      <3>2. QED
        BY <1>16, <3>1
    <2>3. m * (k + u) <= M * (1 + u)
      BY <1>6, <2>2, Affordable
    <2>4. m * (k + u) = n * (k + u) + (k + u) /\ n * (k + u) \in Nat /\ M * (1 + u) \in Nat
      BY <2>1
    <2>5. ExistentialDeposit <= F - (k + LengthFee)
      BY <1>7, <1>11, <1>12, <1>14, <2>3, <2>4
    <2>6. QED
      BY <1>7, <1>10, <2>5 DEF CanPay
  <1>18. n = 0 => CheckWeight(e)
    <2> SUFFICES ASSUME n = 0
                 PROVE  CheckWeight(e)
      OBVIOUS
    <2>1. used = EmptyBlock
      BY <1>1, <1>3 DEF Filling
    <2>2. QED
      BY <1>8, <2>1, FirstFits DEF CheckWeight
  <1>19. QED
    BY <1>3, <1>4, <1>5, <1>12, <1>15, <1>17, <1>18 DEF Verdict

(* Every step keeps the invariant. *)
LEMMA NextBench == BenchInv /\ [BenchmarkNext]_benchVars => BenchInv'
  <1> SUFFICES ASSUME BenchInv, [BenchmarkNext]_benchVars
               PROVE  BenchInv'
    OBVIOUS
  <1>1. CASE ChainRuns
    BY <1>1, ChainRunsInv
  <1>2. ASSUME NEW builder \in Builders, Start(builder)
        PROVE  BenchInv'
    BY <1>2, StartInv
  <1>3. CASE Push
    BY <1>3, PushInv
  <1>4. CASE Full
    <2>1. /\ bench.state = "building" /\ Verdict(NextExtrinsic) = "ExhaustsResources"
          /\ bench' = [bench EXCEPT !.state = IF bench.next = 0 THEN "failed" ELSE "built"]
          /\ UNCHANGED vars
      BY <1>4 DEF Full
    <2>2. RuntimeInv'
      BY <2>1, StutterInvariant DEF BenchInv
    <2>3. /\ BenchType' /\ bench'.found = bench.found /\ number' = number
          /\ bench'.state = IF bench.next = 0 THEN "failed" ELSE "built"
      BY <2>1 DEF BenchInv, BenchType, vars
    <2>4. Fresh'
      <3>1. Ready(bench.found) => bench'.state = "built"
        BY <2>1, <2>3, EndsWell
      <3>2. QED
        BY <2>1, <2>3, <3>1 DEF BenchInv, Fresh, Ready
    <2>5. QED
      BY <2>2, <2>3, <2>4 DEF BenchInv
  <1>5. CASE Fail
    <2>1. /\ bench.state = "building"
          /\ Verdict(NextExtrinsic) \notin {"Valid", "ExhaustsResources"}
          /\ bench' = [bench EXCEPT !.state = "failed"]
          /\ UNCHANGED vars
      BY <1>5 DEF Fail
    <2>2. RuntimeInv'
      BY <2>1, StutterInvariant DEF BenchInv
    <2>3. /\ BenchType' /\ bench'.found = bench.found /\ number' = number
          /\ bench'.state = "failed"
      BY <2>1 DEF BenchInv, BenchType, vars
    <2>4. Fresh'
      <3>1. ~Ready(bench.found)
        BY <2>1, EndsWell
      <3>2. QED
        BY <2>1, <2>3, <3>1 DEF BenchInv, Fresh, Ready
    <2>5. QED
      BY <2>2, <2>3, <2>4 DEF BenchInv
  <1>6. CASE UNCHANGED benchVars
    <2>1. UNCHANGED vars /\ bench' = bench
      BY <1>6 DEF benchVars
    <2>2. RuntimeInv'
      BY <2>1, StutterInvariant DEF BenchInv
    <2>3. BenchType'
      BY <2>1 DEF BenchInv, BenchType
    <2>4. Fresh'
      BY <2>1 DEF BenchInv, Fresh, Ready, vars, Untouched, Filling, Cost, Added, BuilderWeight,
                  EmptyBlock
    <2>5. QED
      BY <2>2, <2>3, <2>4 DEF BenchInv
  <1>7. QED
    BY <1>1, <1>2, <1>3, <1>4, <1>5, <1>6 DEF BenchmarkNext

(* The invariant holds always.  It includes that of the runtime: what is   *)
(* proved of blocks of signed extrinsics holds for the benchmark's too.    *)
THEOREM BenchmarkInvariant == BenchmarkSpec => []BenchInv
  BY InitBench, NextBench, PTL DEF BenchmarkSpec

------------------------------------------------------------------------------
(* The properties. *)

(* Both benchmarks fail only where Bob's nonce or balance or the time of   *)
(* the best block is not what they assume, for any block limits and        *)
(* weights that the parameters allow; on genesis all three are.            *)
THEOREM BenchmarksFailOnlyOnUsedChain == BenchmarkSpec => []FailsOnlyOnUsedChain
  <1>1. BenchInv => FailsOnlyOnUsedChain
    <2> SUFFICES ASSUME BenchInv, bench.state = "failed"
                 PROVE  best_block > 0 /\ ~Ready(bench.found)
      BY DEF FailsOnlyOnUsedChain
    <2>1. ~Ready(bench.found)
      BY DEF BenchInv, Fresh
    <2>2. number # 1
      BY <2>1 DEF BenchInv, Fresh
    <2>3. number \in Nat /\ number >= 1
      BY DEF BenchInv, RuntimeInv, RuntimeType
    <2>4. QED
      BY <2>1, <2>2, <2>3 DEF best_block
  <1>2. QED
    BY <1>1, BenchmarkInvariant, PTL

(* The era of the benchmark's extrinsics is accepted on a chain of any     *)
(* length.                                                                 *)
THEOREM BenchmarkErasAreValid == BenchmarkSpec => []EraFromBestIsValid
  <1>1. BenchInv => EraFromBestIsValid
    BY EraOfBest DEF EraFromBestIsValid, BenchInv, RuntimeInv, RuntimeType
  <1>2. QED
    BY <1>1, BenchmarkInvariant, PTL

(* The hashes that the runtime remembers last for the whole period: the    *)
(* era, and not a forgotten hash, ends the life of these extrinsics.       *)
THEOREM HistoryLastsThePeriod == BenchmarkSpec => []PeriodWithinHistory
  <1>1. BenchInv => PeriodWithinHistory
    <2> SUFFICES ASSUME BenchInv, NEW b \in 0 .. best_block
                 PROVE  LET era == mortal(benchmark_period, b)
                            valid == birth(era, number) = b /\ b \in KnownHashes(number)
                        IN  valid <=> number < b + era.period
      BY DEF PeriodWithinHistory
    <2>1. PICK p \in Nat : IsPeriod(p)
      BY PeriodIs
    <2>2. number \in Nat /\ b \in Nat /\ b < number
      BY DEF BenchInv, RuntimeInv, RuntimeType, best_block
    <2>3. PICK era : era = [period |-> p, phase |-> b % p]
      OBVIOUS
    <2>4. mortal(benchmark_period, b) = era /\ 4 <= p /\ p <= BlockHashCount + 2
      BY <2>1, <2>2, <2>3 DEF IsPeriod
    <2>5. birth(era, number) = b <=> number < b + p
      BY <2>2, <2>3, <2>4, BirthWithinPeriod
    <2>6. number < b + p => b \in KnownHashes(number)
      <3>1. BlockHashCount \in Nat
        BY BlockHashCountAssumption
      <3>2. QED
        BY <2>2, <2>4, <3>1 DEF KnownHashes
    <2>7. era.period = p
      BY <2>3
    <2>8. QED
      BY <2>4, <2>5, <2>6, <2>7
  <1>2. QED
    BY <1>1, BenchmarkInvariant, PTL

==============================================================================
