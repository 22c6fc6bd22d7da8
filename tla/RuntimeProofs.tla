---------------------------- MODULE RuntimeProofs ----------------------------
(***************************************************************************)
(* What the runtime's pipeline promises, for any accounts, extrinsics,     *)
(* limits and number of blocks.                                            *)
(***************************************************************************)
EXTENDS Runtime, FiniteSetTheorems, TLAPS

Storage == [free : Balances, nonce : Balances, removed : Balances, issuance : Int]

(* A removed account has left nothing. *)
Clean(s) == \A a \in Accounts : ~Alive(s, a) => s.free[a] = 0 /\ s.nonce[a] = 0

(* From s to r no account has lost its nonce without being removed. *)
Follows(s, r) ==
  \A a \in Accounts :
    /\ s.removed[a] <= r.removed[a]
    /\ s.removed[a] = r.removed[a] => s.nonce[a] = r.nonce[a]

Entry == [signer : Accounts, nonce : Nat, era : Eras, hash : Nat \cup {Elsewhere},
          at : Nat, life : Nat]

RuntimeType ==
  /\ storage \in Storage
  /\ Clean(storage)
  /\ number \in 1 .. MaxBlock
  /\ used \in [normal : Nat, operational : Nat, mandatory : Nat, length : Nat]
  /\ applied \in Seq(Entry)
  /\ Len(applied) <= MaxApplied

(* What is said of an extrinsic of the signer's present life. *)
NoncesUsed ==
  \A i \in 1 .. Len(applied) :
    /\ applied[i].life <= storage.removed[applied[i].signer]
    /\ applied[i].life = storage.removed[applied[i].signer]
         => applied[i].nonce < storage.nonce[applied[i].signer]

Once ==
  \A i, j \in 1 .. Len(applied) :
    (i < j /\ applied[i].signer = applied[j].signer /\ applied[i].nonce = applied[j].nonce)
      => applied[i].life < applied[j].life

InEra ==
  \A i \in 1 .. Len(applied) :
    applied[i].era # Immortal => /\ applied[i].hash < applied[i].at
                                 /\ applied[i].at < applied[i].hash + applied[i].era.period

(* The limits: once the block's is exceeded, operational extrinsics are    *)
(* within their reserve.                                                   *)
Limits ==
  /\ used.normal <= max_total("normal")
  /\ used.mandatory = Initialization
  /\ Total(used) > MaxBlockWeight => used.operational <= reserved("operational")
  /\ used.operational = 0 => used.length <= max_length("normal")

(* The units that accounts hold are finitely many, and all are issued. *)
Balanced ==
  /\ IsFiniteSet(Units(storage.free))
  /\ storage.issuance = Cardinality(Units(storage.free))

RuntimeInv == RuntimeType /\ NoncesUsed /\ Once /\ InEra /\ Limits /\ Balanced

------------------------------------------------------------------------------
(* Storage. *)

(* Writing a balance, part by part. *)
LEMMA SetFreeIs ==
  ASSUME NEW s \in Storage, NEW a \in Accounts, NEW b \in Nat
  PROVE  /\ b >= ExistentialDeposit
              => SetFree(s, a, b) = [free |-> [s.free EXCEPT ![a] = b], nonce |-> s.nonce,
                                     removed |-> s.removed, issuance |-> s.issuance]
         /\ ~(b >= ExistentialDeposit)
              => SetFree(s, a, b) = [free |-> [s.free EXCEPT ![a] = 0],
                                     nonce |-> [s.nonce EXCEPT ![a] = 0],
                                     removed |-> [s.removed EXCEPT
                                                    ![a] = @ + (IF Alive(s, a) THEN 1 ELSE 0)],
                                     issuance |-> s.issuance - b]
  BY DEF SetFree, Storage

(* Writing a balance keeps the storage clean and its nonces. *)
LEMMA SetFreeClean ==
  ASSUME NEW s \in Storage, Clean(s), NEW a \in Accounts, NEW b \in Nat,
         NEW r, r = SetFree(s, a, b)
  PROVE  /\ r \in Storage /\ Clean(r) /\ Follows(s, r)
         /\ r.free = [s.free EXCEPT ![a] = r.free[a]]
         /\ b >= ExistentialDeposit => r.free[a] = b
         /\ r.issuance <= s.issuance
  <1>1. /\ s.free \in [Accounts -> Nat] /\ s.nonce \in [Accounts -> Nat]
        /\ s.removed \in [Accounts -> Nat] /\ s.issuance \in Int
        /\ ExistentialDeposit \in Nat \ {0}
    BY RuntimeAssumption DEF Storage, Balances
  <1>2. CASE b >= ExistentialDeposit
    <2>1. SetFree(s, a, b) = [free |-> [s.free EXCEPT ![a] = b], nonce |-> s.nonce,
                              removed |-> s.removed, issuance |-> s.issuance]
      BY <1>2, SetFreeIs
    <2>2. QED
      BY <1>1, <1>2, <2>1 DEF Storage, Balances, Clean, Follows, Alive
  <1>3. CASE ~(b >= ExistentialDeposit)
    <2>1. SetFree(s, a, b) = [free |-> [s.free EXCEPT ![a] = 0],
                              nonce |-> [s.nonce EXCEPT ![a] = 0],
                              removed |-> [s.removed EXCEPT
                                             ![a] = @ + (IF Alive(s, a) THEN 1 ELSE 0)],
                              issuance |-> s.issuance - b]
      BY <1>3, SetFreeIs
    <2>2. QED
      BY <1>1, <1>3, <2>1 DEF Storage, Balances, Clean, Follows, Alive
  <1>4. QED
    BY <1>2, <1>3

(* Following is transitive. *)
LEMMA FollowsTransitive ==
  ASSUME NEW r \in Storage, NEW s \in Storage, NEW t \in Storage, Follows(r, s), Follows(s, t)
  PROVE  Follows(r, t)
  BY DEF Follows, Storage, Balances

(* Following is reflexive. *)
LEMMA FollowsItself ==
  ASSUME NEW s \in Storage
  PROVE  Follows(s, s)
  BY DEF Follows, Storage, Balances

(* Moving a balance takes from its sender only, and creates nothing. *)
LEMMA MoveClean ==
  ASSUME NEW s \in Storage, Clean(s), NEW from \in Accounts, NEW to \in Accounts, from # to,
         NEW m \in Nat, NEW n \in Nat, n >= s.free[to],
         n = s.free[to] \/ n >= ExistentialDeposit,
         NEW paid, paid = SetFree(s, from, m),
         NEW r, r = SetFree(paid, to, n)
  PROVE  /\ r \in Storage /\ Clean(r) /\ Follows(s, r)
         /\ \A a \in Accounts : r.free[a] < s.free[a] => a = from
         /\ r.issuance <= s.issuance
  <1>1. /\ paid \in Storage /\ Clean(paid) /\ Follows(s, paid)
        /\ paid.free = [s.free EXCEPT ![from] = paid.free[from]]
        /\ paid.issuance <= s.issuance
    BY SetFreeClean
  <1>2. paid.free[to] = s.free[to] /\ s.free[to] \in Nat
    BY <1>1 DEF Storage, Balances
  <1>5. /\ r \in Storage /\ Clean(r) /\ Follows(paid, r)
        /\ r.free = [paid.free EXCEPT ![to] = r.free[to]]
        /\ n >= ExistentialDeposit => r.free[to] = n
        /\ r.issuance <= paid.issuance
    BY <1>1, SetFreeClean
  <1>6. ~(r.free[to] < s.free[to])
    <2>1. r.free[to] \in Nat
      BY <1>5 DEF Storage, Balances
    <2>2. CASE n >= ExistentialDeposit
      BY <1>2, <1>5, <2>1, <2>2
    <2>3. CASE ~(n >= ExistentialDeposit)
      <3>1. s.free[to] = 0
        BY <1>2, <2>3 DEF Clean, Alive
      <3>2. QED
        BY <2>1, <3>1
    <2>4. QED
      BY <2>2, <2>3
  <1>7. \A a \in Accounts : r.free[a] < s.free[a] => a = from
    <2> SUFFICES ASSUME NEW a \in Accounts, r.free[a] < s.free[a], a # from PROVE FALSE
      OBVIOUS
    <2>1. s.free[a] \in Nat
      BY DEF Storage, Balances
    <2>2. a = to
      BY <1>1, <1>5, <2>1 DEF Storage, Balances
    <2>3. QED
      BY <1>6, <2>2
  <1>8. Follows(s, r)
    BY <1>1, <1>5, FollowsTransitive
  <1>9. r.issuance <= s.issuance
    BY <1>1, <1>5 DEF Storage
  <1>10. QED
    BY <1>5, <1>7, <1>8, <1>9

(* A transfer either moves its value or leaves the storage alone. *)
LEMMA TransferMoves ==
  ASSUME NEW s \in Storage, NEW from \in Accounts, NEW call \in Call,
         Transfer(s, from, call) # s
  PROVE  \E to \in Accounts, m \in Nat, n \in Nat :
           /\ from # to
           /\ n >= s.free[to]
           /\ n = s.free[to] \/ n >= ExistentialDeposit
           /\ s.free[from] - m = n - s.free[to]
           /\ Transfer(s, from, call) = SetFree(SetFree(s, from, m), to, n)
  <1> DEFINE left == s.free[from] - call.value
             paid == SetFree(s, from, left)
             sum == s.free[call.dest] + call.value
  <1>1. /\ call.dest \in Accounts /\ call.value \in Nat /\ s.free[from] \in Nat
        /\ s.free[call.dest] \in Nat
    BY DEF Call, Storage, Balances
  <1>2. from # call.dest /\ Transferable(s, from, call)
    BY DEF Transfer
  <1>3. left \in Nat /\ (sum = s.free[call.dest] \/ sum >= ExistentialDeposit)
    BY <1>1, <1>2 DEF Transferable
  <1>4. sum \in Nat /\ sum >= s.free[call.dest]
    BY <1>1
  <1>5. paid.free[call.dest] = s.free[call.dest]
    BY <1>1, <1>2, <1>3, SetFreeIs DEF Storage, Balances
  <1>6. Transfer(s, from, call) = SetFree(paid, call.dest, sum)
    BY <1>2, <1>5 DEF Transfer
  <1>7. s.free[from] - left = sum - s.free[call.dest]
    BY <1>1
  <1> HIDE DEF paid, left, sum
  <1>8. paid = SetFree(s, from, left)
    BY DEF paid
  <1>9. QED
    BY <1>1, <1>2, <1>3, <1>4, <1>6, <1>7, <1>8

(* A transfer takes from its sender only, and creates nothing. *)
LEMMA TransferClean ==
  ASSUME NEW s \in Storage, Clean(s), NEW from \in Accounts, NEW call \in Call,
         NEW r, r = Transfer(s, from, call)
  PROVE  /\ r \in Storage /\ Clean(r) /\ Follows(s, r)
         /\ \A a \in Accounts : r.free[a] < s.free[a] => a = from
         /\ r.issuance <= s.issuance
  <1>1. CASE r = s
    <2>1. /\ \A a \in Accounts : ~(s.free[a] < s.free[a])
          /\ s.issuance <= s.issuance
      BY DEF Storage, Balances
    <2>2. QED
      BY <1>1, <2>1, FollowsItself
  <1>2. CASE r # s
    <2>1. PICK to \in Accounts, m \in Nat, n \in Nat :
            /\ from # to
            /\ n >= s.free[to]
            /\ n = s.free[to] \/ n >= ExistentialDeposit
            /\ s.free[from] - m = n - s.free[to]
            /\ r = SetFree(SetFree(s, from, m), to, n)
      BY <1>2, TransferMoves
    <2>2. PICK paid : paid = SetFree(s, from, m)
      OBVIOUS
    <2>3. QED
      BY <2>1, <2>2, MoveClean
  <1>3. QED
    BY <1>1, <1>2

(* Setting a balance keeps the storage clean. *)
LEMMA ForceSetBalanceClean ==
  ASSUME NEW s \in Storage, Clean(s), NEW call \in Call
  PROVE  LET r == ForceSetBalance(s, call) IN r \in Storage /\ Clean(r) /\ Follows(s, r)
  <1> DEFINE new == IF call.value < ExistentialDeposit THEN 0 ELSE call.value
             t == SetFree(s, call.dest, new)
  <1>1. call.dest \in Accounts /\ new \in Nat /\ s.issuance \in Int /\ s.free[call.dest] \in Nat
    BY DEF Call, Storage, Balances
  <1>2. t \in Storage /\ Clean(t) /\ Follows(s, t)
    BY <1>1, SetFreeClean
  <1>3. ForceSetBalance(s, call) = [t EXCEPT !.issuance = s.issuance + new - s.free[call.dest]]
    BY DEF ForceSetBalance
  <1> HIDE DEF t, new
  <1>4. s.issuance + new - s.free[call.dest] \in Int
    BY <1>1
  <1>5. QED
    BY <1>2, <1>3, <1>4 DEF Storage, Clean, Follows, Alive

(* So does a refund. *)
LEMMA RefundClean ==
  ASSUME NEW s \in Storage, Clean(s), NEW a \in Accounts, NEW fee \in Nat
  PROVE  LET r == Refund(s, a, fee) IN r \in Storage /\ Clean(r) /\ Follows(s, r)
  <1>1. CASE Alive(s, a)
    <2>1. Refund(s, a, fee) = [free |-> [s.free EXCEPT ![a] = @ + fee], nonce |-> s.nonce,
                               removed |-> s.removed, issuance |-> s.issuance + fee]
      BY <1>1 DEF Refund, Storage
    <2>2. /\ s.free \in [Accounts -> Nat] /\ s.nonce \in [Accounts -> Nat]
          /\ s.removed \in [Accounts -> Nat] /\ s.issuance \in Int
          /\ ExistentialDeposit \in Nat
      BY RuntimeAssumption DEF Storage, Balances
    <2>3. QED
      BY <1>1, <2>1, <2>2 DEF Storage, Balances, Clean, Follows, Alive
  <1>2. CASE ~Alive(s, a)
    <2>1. Refund(s, a, fee) = s
      BY <1>2 DEF Refund
    <2>2. QED
      BY <2>1, FollowsItself
  <1>3. QED
    BY <1>1, <1>2

(* Fees are natural numbers. *)
LEMMA FeeType == \A call \in Call : Fee(call) \in Nat
  BY BlockLimitsAssumption, RuntimeAssumption DEF Fee, Call

(* A dispatch keeps the storage clean; without sudo it takes from the      *)
(* signer only and creates nothing.                                        *)
LEMMA DispatchClean ==
  ASSUME NEW s \in Storage, Clean(s), NEW e \in Extrinsic, NEW r, r = Dispatch(s, e)
  PROVE  /\ r \in Storage /\ Clean(r) /\ Follows(s, r)
         /\ e.signer # Sudo => /\ \A a \in Accounts : r.free[a] < s.free[a] => a = e.signer
                               /\ r.issuance <= s.issuance
  <1>1. e.signer \in Accounts /\ e.call \in Call
    BY DEF Extrinsic
  <1>2. CASE e.call.fn \in Transfers
    <2>1. r = Transfer(s, e.signer, e.call)
      BY <1>2 DEF Dispatch, Transfers
    <2>2. QED
      BY <1>1, <2>1, TransferClean
  <1>3. CASE e.call.fn \notin Transfers /\ e.call.fn = "force_set_balance" /\ e.signer = Sudo
    <2> DEFINE t == ForceSetBalance(s, e.call)
    <2>1. r = Refund(t, e.signer, Fee(e.call))
      BY <1>3 DEF Dispatch, Transfers
    <2>2. t \in Storage /\ Clean(t) /\ Follows(s, t)
      BY <1>1, ForceSetBalanceClean
    <2> HIDE DEF t
    <2>3. r \in Storage /\ Clean(r) /\ Follows(t, r)
      BY <1>1, <2>1, <2>2, RefundClean, FeeType
    <2>4. Follows(s, r)
      BY <2>2, <2>3, FollowsTransitive
    <2>5. QED
      BY <1>3, <2>3, <2>4
  <1>4. CASE e.call.fn \notin Transfers /\ ~(e.call.fn = "force_set_balance" /\ e.signer = Sudo)
    <2>1. r = s
      BY <1>4 DEF Dispatch
    <2>2. /\ \A a \in Accounts : ~(s.free[a] < s.free[a])
          /\ s.issuance <= s.issuance
      BY DEF Storage, Balances
    <2>3. QED
      BY <2>1, <2>2, FollowsItself
  <1>5. QED
    BY <1>2, <1>3, <1>4

------------------------------------------------------------------------------
(***************************************************************************)
(* Issuance.  The units that accounts hold are a finite set; writing a     *)
(* balance replaces one account's.  The gap between the issuance and their *)
(* number is what an operation owes the others.                            *)
(***************************************************************************)

Held(a, n) == {a} \X (1 .. n)

Counted(s) == IsFiniteSet(Units(s.free))

Gap(s) == s.issuance - Cardinality(Units(s.free))

(* An account holds as many units as its balance says. *)
LEMMA HeldCount ==
  ASSUME NEW a, NEW n \in Nat
  PROVE  IsFiniteSet(Held(a, n)) /\ Cardinality(Held(a, n)) = n
  <1>1. IsFiniteSet({a}) /\ Cardinality({a}) = 1
    BY FS_Singleton
  <1>2. IsFiniteSet(1 .. n) /\ Cardinality(1 .. n) = n
    BY FS_Interval
  <1>3. /\ IsFiniteSet({a} \X (1 .. n))
        /\ Cardinality({a} \X (1 .. n)) = Cardinality({a}) * Cardinality(1 .. n)
    BY <1>1, <1>2, FS_Product
  <1>4. QED
    BY <1>1, <1>2, <1>3 DEF Held

(* Writing one balance changes the number of units by the difference. *)
LEMMA UnitsWritten ==
  ASSUME NEW f \in Balances, IsFiniteSet(Units(f)), NEW a \in Accounts, NEW n \in Nat
  PROVE  LET g == [f EXCEPT ![a] = n] IN
           /\ IsFiniteSet(Units(g))
           /\ Cardinality(Units(f)) \in Nat
           /\ Cardinality(Units(g)) = Cardinality(Units(f)) - f[a] + n
  <1> DEFINE g == [f EXCEPT ![a] = n]
             others == Units(f) \ Held(a, f[a])
  <1>1. f[a] \in Nat /\ Cardinality(Units(f)) \in Nat
    BY FS_CardinalityType DEF Balances
  <1>2. IsFiniteSet(Held(a, f[a])) /\ Cardinality(Held(a, f[a])) = f[a]
    BY <1>1, HeldCount
  <1>3. IsFiniteSet(Held(a, n)) /\ Cardinality(Held(a, n)) = n
    BY HeldCount
  <1>4. Units(f) \cap Held(a, f[a]) = Held(a, f[a])
    BY DEF Units, Held
  <1>5. IsFiniteSet(others) /\ Cardinality(others) = Cardinality(Units(f)) - f[a]
    <2>1. /\ IsFiniteSet(others)
          /\ Cardinality(others) = Cardinality(Units(f)) - Cardinality(Units(f) \cap Held(a, f[a]))
      BY FS_Difference
    <2>2. QED
      BY <1>2, <1>4, <2>1
  <1>6. Units(g) = others \cup Held(a, n)
    BY DEF Units, Held, Balances
  <1>7. others \cap Held(a, n) = {}
    BY DEF Units, Held, Balances
  <1> HIDE DEF others, g
  <1>8. /\ IsFiniteSet(others \cup Held(a, n))
        /\ Cardinality(others \cup Held(a, n))
             = Cardinality(others) + Cardinality(Held(a, n)) - Cardinality(others \cap Held(a, n))
    BY <1>3, <1>5, FS_Union
  <1>9. Cardinality(others \cap Held(a, n)) = 0
    BY <1>7, FS_EmptySet
  <1>10. /\ IsFiniteSet(Units(g))
         /\ Cardinality(Units(g)) = Cardinality(Units(f)) - f[a] + n
    BY <1>1, <1>3, <1>5, <1>6, <1>8, <1>9
  <1>11. QED
    BY <1>1, <1>10 DEF g

(* Writing a balance leaves the difference to be accounted for. *)
LEMMA SetFreeGap ==
  ASSUME NEW s \in Storage, Counted(s), NEW a \in Accounts, NEW b \in Nat,
         NEW r, r = SetFree(s, a, b)
  PROVE  Counted(r) /\ Gap(r) = Gap(s) + s.free[a] - b
  <1>1. s.free \in Balances /\ s.issuance \in Int /\ s.free[a] \in Nat
    BY DEF Storage, Balances
  <1> DEFINE f == s.free
             count == Cardinality(Units(f))
  <1>2. CASE b >= ExistentialDeposit
    <2>1. r.free = [f EXCEPT ![a] = b] /\ r.issuance = s.issuance
      BY <1>2, SetFreeIs
    <2>2. /\ IsFiniteSet(Units([f EXCEPT ![a] = b])) /\ count \in Nat
          /\ Cardinality(Units([f EXCEPT ![a] = b])) = count - f[a] + b
      BY <1>1, UnitsWritten DEF Counted
    <2>3. /\ IsFiniteSet(Units(r.free)) /\ count \in Nat
          /\ Cardinality(Units(r.free)) = count - f[a] + b
      BY <2>1, <2>2
    <2> HIDE DEF count
    <2>4. QED
      BY <1>1, <2>1, <2>3 DEF Counted, Gap, count
  <1>3. CASE ~(b >= ExistentialDeposit)
    <2>1. r.free = [f EXCEPT ![a] = 0] /\ r.issuance = s.issuance - b
      BY <1>3, SetFreeIs
    <2>2. /\ IsFiniteSet(Units([f EXCEPT ![a] = 0])) /\ count \in Nat
          /\ Cardinality(Units([f EXCEPT ![a] = 0])) = count - f[a] + 0
      BY <1>1, UnitsWritten DEF Counted
    <2>3. /\ IsFiniteSet(Units(r.free)) /\ count \in Nat
          /\ Cardinality(Units(r.free)) = count - f[a] + 0
      BY <2>1, <2>2
    <2> HIDE DEF count
    <2>4. QED
      BY <1>1, <2>1, <2>3 DEF Counted, Gap, count
  <1>4. QED
    BY <1>2, <1>3

(* A gap is an integer. *)
LEMMA GapType ==
  ASSUME NEW s \in Storage, Counted(s)
  PROVE  Gap(s) \in Int
  <1>1. Cardinality(Units(s.free)) \in Nat
    BY FS_CardinalityType DEF Counted
  <1>2. QED
    BY <1>1 DEF Gap, Storage

(* Transfers owe nothing: what the sender loses, dust included, the        *)
(* receiver or nobody has.                                                 *)
LEMMA TransferGap ==
  ASSUME NEW s \in Storage, Clean(s), Counted(s), NEW from \in Accounts, NEW call \in Call,
         NEW r, r = Transfer(s, from, call)
  PROVE  Counted(r) /\ Gap(r) = Gap(s)
  <1>1. CASE r = s
    BY <1>1
  <1>2. CASE r # s
    <2>1. PICK to \in Accounts, m \in Nat, n \in Nat :
            /\ from # to
            /\ n >= s.free[to]
            /\ n = s.free[to] \/ n >= ExistentialDeposit
            /\ s.free[from] - m = n - s.free[to]
            /\ r = SetFree(SetFree(s, from, m), to, n)
      BY <1>2, TransferMoves
    <2>2. PICK paid : paid = SetFree(s, from, m) /\ r = SetFree(paid, to, n)
      BY <2>1
    <2>3. paid \in Storage /\ paid.free = [s.free EXCEPT ![from] = paid.free[from]]
      BY <2>2, SetFreeClean
    <2>4. Counted(paid) /\ Gap(paid) = Gap(s) + s.free[from] - m
      BY <2>2, SetFreeGap
    <2>5. Counted(r) /\ Gap(r) = Gap(paid) + paid.free[to] - n
      BY <2>1, <2>2, <2>3, <2>4, SetFreeGap
    <2>6. paid.free[to] = s.free[to] /\ s.free[to] \in Nat /\ s.free[from] \in Nat
      BY <2>1, <2>3 DEF Storage, Balances
    <2>7. Gap(s) \in Int
      BY GapType
    <2>8. QED
      BY <2>1, <2>4, <2>5, <2>6, <2>7
  <1>3. QED
    BY <1>1, <1>2

(* Issuance follows a balance set by sudo. *)
LEMMA ForceSetBalanceGap ==
  ASSUME NEW s \in Storage, Clean(s), Counted(s), NEW call \in Call,
         NEW r, r = ForceSetBalance(s, call)
  PROVE  Counted(r) /\ Gap(r) = Gap(s)
  <1> DEFINE new == IF call.value < ExistentialDeposit THEN 0 ELSE call.value
             t == SetFree(s, call.dest, new)
             i == s.issuance + new - s.free[call.dest]
  <1>1. /\ call.dest \in Accounts /\ new \in Nat /\ s.issuance \in Int
        /\ s.free \in Balances /\ s.free[call.dest] \in Nat
        /\ new = 0 \/ new >= ExistentialDeposit
    BY RuntimeAssumption DEF Call, Storage, Balances
  <1>2. t \in Storage /\ t.free = [s.free EXCEPT ![call.dest] = new]
    BY <1>1, SetFreeClean, SetFreeIs
  <1>3. r = [t EXCEPT !.issuance = i]
    BY DEF ForceSetBalance
  <1> HIDE DEF t, new, i
  <1>4. r.free = [s.free EXCEPT ![call.dest] = new] /\ r.issuance = i
    BY <1>2, <1>3 DEF Storage
  <1>5. /\ IsFiniteSet(Units([s.free EXCEPT ![call.dest] = new]))
        /\ Cardinality(Units(s.free)) \in Nat
        /\ Cardinality(Units([s.free EXCEPT ![call.dest] = new]))
             = Cardinality(Units(s.free)) - s.free[call.dest] + new
    BY <1>1, UnitsWritten DEF Counted
  <1>6. /\ IsFiniteSet(Units(r.free))
        /\ Cardinality(Units(r.free)) = Cardinality(Units(s.free)) - s.free[call.dest] + new
    BY <1>4, <1>5
  <1>7. i = s.issuance + new - s.free[call.dest]
    BY DEF i
  <1>8. QED
    BY <1>1, <1>4, <1>5, <1>6, <1>7 DEF Gap, Counted

(* A refund is issued again. *)
LEMMA RefundGap ==
  ASSUME NEW s \in Storage, Counted(s), NEW a \in Accounts, NEW fee \in Nat,
         NEW r, r = Refund(s, a, fee)
  PROVE  Counted(r) /\ Gap(r) = Gap(s)
  <1>1. CASE ~Alive(s, a)
    BY <1>1 DEF Refund
  <1>2. CASE Alive(s, a)
    <2>1. s.free \in Balances /\ s.issuance \in Int /\ s.free[a] \in Nat
      BY DEF Storage, Balances
    <2>2. PICK n \in Nat : n = s.free[a] + fee
      BY <2>1
    <2>3. r.free = [s.free EXCEPT ![a] = n] /\ r.issuance = s.issuance + fee
      BY <1>2, <2>2 DEF Refund, Storage
    <2>4. /\ IsFiniteSet(Units([s.free EXCEPT ![a] = n]))
          /\ Cardinality(Units(s.free)) \in Nat
          /\ Cardinality(Units([s.free EXCEPT ![a] = n]))
               = Cardinality(Units(s.free)) - s.free[a] + n
      BY <2>1, UnitsWritten DEF Counted
    <2>5. /\ IsFiniteSet(Units(r.free))
          /\ Cardinality(Units(r.free)) = Cardinality(Units(s.free)) - s.free[a] + n
      BY <2>3, <2>4
    <2>6. QED
      BY <2>1, <2>2, <2>3, <2>4, <2>5 DEF Gap, Counted
  <1>3. QED
    BY <1>1, <1>2

(* Whatever is dispatched, the issuance follows. *)
LEMMA DispatchGap ==
  ASSUME NEW s \in Storage, Clean(s), Counted(s), NEW e \in Extrinsic, NEW r, r = Dispatch(s, e)
  PROVE  Counted(r) /\ Gap(r) = Gap(s)
  <1>1. e.signer \in Accounts /\ e.call \in Call
    BY DEF Extrinsic
  <1>2. CASE e.call.fn \in Transfers
    <2>1. r = Transfer(s, e.signer, e.call)
      BY <1>2 DEF Dispatch, Transfers
    <2>2. QED
      BY <1>1, <2>1, TransferGap
  <1>3. CASE e.call.fn \notin Transfers /\ e.call.fn = "force_set_balance" /\ e.signer = Sudo
    <2> DEFINE t == ForceSetBalance(s, e.call)
    <2>1. r = Refund(t, e.signer, Fee(e.call))
      BY <1>3 DEF Dispatch, Transfers
    <2>2. t \in Storage
      BY <1>1, ForceSetBalanceClean
    <2>3. Counted(t) /\ Gap(t) = Gap(s)
      BY <1>1, ForceSetBalanceGap
    <2> HIDE DEF t
    <2>4. Counted(r) /\ Gap(r) = Gap(t)
      BY <1>1, <2>1, <2>2, <2>3, RefundGap, FeeType
    <2>5. QED
      BY <2>3, <2>4
  <1>4. CASE e.call.fn \notin Transfers /\ ~(e.call.fn = "force_set_balance" /\ e.signer = Sudo)
    <2>1. r = s
      BY <1>4 DEF Dispatch
    <2>2. QED
      BY <2>1
  <1>5. QED
    BY <1>2, <1>3, <1>4

------------------------------------------------------------------------------
(* Applying an extrinsic. *)

(* What the extensions have established when the call is dispatched. *)
LEMMA ValidMeans ==
  ASSUME RuntimeType, NEW e \in Extrinsic, Verdict(e) = "Valid"
  PROVE  /\ CheckEra(e)
         /\ e.nonce = storage.nonce[e.signer]
         /\ CheckWeight(e)
         /\ storage.free[e.signer] - Fee(e.call) >= ExistentialDeposit
  <1>1. e.signer \in Accounts /\ e.nonce \in Nat /\ storage.nonce[e.signer] \in Nat
    BY DEF Extrinsic, RuntimeType, Storage, Balances
  <1>2. ~(e.nonce < storage.nonce[e.signer]) /\ ~(e.nonce > storage.nonce[e.signer])
    BY DEF Verdict
  <1>3. CheckEra(e) /\ CheckWeight(e) /\ CanPay(storage, e.signer, Fee(e.call))
    BY DEF Verdict
  <1>4. QED
    BY <1>1, <1>2, <1>3 DEF CanPay

(* After the fee is taken and the nonce used up. *)
LEMMA PreDispatchClean ==
  ASSUME RuntimeType, Balanced, NEW e \in Extrinsic, Verdict(e) = "Valid",
         NEW s, s = PreDispatch(e)
  PROVE  /\ s \in Storage /\ Clean(s) /\ Counted(s) /\ Gap(s) = 0
         /\ s.nonce = [storage.nonce EXCEPT ![e.signer] = @ + 1]
         /\ s.removed = storage.removed
         /\ \A a \in Accounts : a # e.signer => s.free[a] = storage.free[a]
         /\ s.issuance <= storage.issuance
  <1> DEFINE a == e.signer
             fee == Fee(e.call)
  <1>1. /\ a \in Accounts /\ fee \in Nat
        /\ storage.free \in Balances /\ storage.nonce \in Balances
        /\ storage.removed \in Balances /\ storage.issuance \in Int
        /\ storage.free[a] \in Nat /\ ExistentialDeposit \in Nat \ {0}
    BY FeeType, RuntimeAssumption DEF Extrinsic, RuntimeType, Storage, Balances
  <1>2. storage.free[a] - fee >= ExistentialDeposit
    BY ValidMeans
  <1>3. s = [free |-> [storage.free EXCEPT ![a] = storage.free[a] - fee],
             nonce |-> [storage.nonce EXCEPT ![a] = @ + 1],
             removed |-> storage.removed,
             issuance |-> storage.issuance - fee]
    BY DEF PreDispatch, Charge, RuntimeType, Storage
  <1> HIDE DEF a, fee
  <1>4. PICK n \in Nat : n = storage.free[a] - fee
    BY <1>1, <1>2
  <1>5. /\ IsFiniteSet(Units([storage.free EXCEPT ![a] = n]))
        /\ Cardinality(Units(storage.free)) \in Nat
        /\ Cardinality(Units([storage.free EXCEPT ![a] = n]))
             = Cardinality(Units(storage.free)) - storage.free[a] + n
    BY <1>1, UnitsWritten DEF Balanced
  <1>6. s.free = [storage.free EXCEPT ![a] = n] /\ s.issuance = storage.issuance - fee
    BY <1>3, <1>4
  <1>7. Counted(s) /\ Gap(s) = 0
    <2>1. /\ IsFiniteSet(Units(s.free))
          /\ Cardinality(Units(s.free)) = Cardinality(Units(storage.free)) - storage.free[a] + n
      BY <1>5, <1>6
    <2>2. QED
      BY <1>1, <1>4, <1>5, <1>6, <2>1 DEF Counted, Gap, Balanced
  <1>8. s \in Storage
    BY <1>1, <1>3, <1>4 DEF Storage, Balances
  <1>9. Clean(s)
    BY <1>1, <1>2, <1>3 DEF Clean, Alive, RuntimeType, Balances
  <1>10. s.nonce = [storage.nonce EXCEPT ![e.signer] = @ + 1] /\ s.removed = storage.removed
    BY <1>3 DEF a
  <1>11. \A c \in Accounts : c # e.signer => s.free[c] = storage.free[c]
    BY <1>1, <1>6 DEF a, Balances
  <1>12. s.issuance <= storage.issuance
    BY <1>1, <1>6
  <1>13. QED
    BY <1>7, <1>8, <1>9, <1>10, <1>11, <1>12

NewEntry(e) == [signer |-> e.signer, nonce |-> e.nonce, era |-> e.era, hash |-> e.hash,
                at |-> number, life |-> storage.removed[e.signer]]

(* The log grows by one entry at its end. *)
LEMMA AppliedGrows ==
  ASSUME RuntimeType, NEW e \in Extrinsic, Apply(e)
  PROVE  /\ NewEntry(e) \in Entry
         /\ applied' \in Seq(Entry)
         /\ Len(applied') = Len(applied) + 1 /\ Len(applied) \in Nat
         /\ \A i \in 1 .. Len(applied) : applied'[i] = applied[i]
         /\ applied'[Len(applied) + 1] = NewEntry(e)
  <1>1. NewEntry(e) \in Entry
    BY DEF NewEntry, Entry, Extrinsic, RuntimeType, Storage, Balances
  <1>2. applied' = Append(applied, NewEntry(e)) /\ applied \in Seq(Entry)
    BY DEF Apply, NewEntry, RuntimeType
  <1> HIDE DEF NewEntry
  <1>3. QED
    BY <1>1, <1>2

(* The storage after an extrinsic, relative to that before it. *)
LEMMA ApplyStorage ==
  ASSUME RuntimeType, Balanced, NEW e \in Extrinsic, Apply(e)
  PROVE  /\ storage' \in Storage /\ Clean(storage)' /\ Balanced'
         /\ \A a \in Accounts :
              /\ storage.removed[a] <= storage'.removed[a]
              /\ storage.removed[a] = storage'.removed[a]
                   => storage'.nonce[a] = storage.nonce[a] + (IF a = e.signer THEN 1 ELSE 0)
         /\ e.signer # Sudo
              => /\ \A a \in Accounts : storage'.free[a] < storage.free[a] => a = e.signer
                 /\ storage'.issuance <= storage.issuance
  <1>1. Verdict(e) = "Valid" /\ storage' = Dispatch(PreDispatch(e), e)
    BY DEF Apply
  <1>2. PICK s : s = PreDispatch(e)
    OBVIOUS
  <1>3. PICK r : r = storage'
    OBVIOUS
  <1>4. r = Dispatch(s, e)
    BY <1>1, <1>2, <1>3
  <1>5. /\ s \in Storage /\ Clean(s) /\ Counted(s) /\ Gap(s) = 0
        /\ s.nonce = [storage.nonce EXCEPT ![e.signer] = @ + 1]
        /\ s.removed = storage.removed
        /\ \A a \in Accounts : a # e.signer => s.free[a] = storage.free[a]
        /\ s.issuance <= storage.issuance
    BY <1>1, <1>2, PreDispatchClean
  <1>6. /\ r \in Storage /\ Clean(r) /\ Follows(s, r)
        /\ e.signer # Sudo => /\ \A a \in Accounts : r.free[a] < s.free[a] => a = e.signer
                              /\ r.issuance <= s.issuance
    BY <1>4, <1>5, DispatchClean
  <1>7. Counted(r) /\ Gap(r) = Gap(s)
    BY <1>4, <1>5, DispatchGap
  <1>8. Balanced'
    <2>1. Cardinality(Units(r.free)) \in Nat
      BY <1>7, FS_CardinalityType DEF Counted
    <2>2. IsFiniteSet(Units(r.free)) /\ r.issuance = Cardinality(Units(r.free))
      BY <1>5, <1>6, <1>7, <2>1 DEF Counted, Gap, Storage
    <2>3. QED
      BY <1>3, <2>2 DEF Balanced, Units
  <1>9. storage' \in Storage /\ Clean(storage)'
    BY <1>3, <1>6 DEF Clean, Alive
  <1>10. ASSUME NEW a \in Accounts
         PROVE  /\ storage.removed[a] <= storage'.removed[a]
                /\ storage.removed[a] = storage'.removed[a]
                     => storage'.nonce[a] = storage.nonce[a] + (IF a = e.signer THEN 1 ELSE 0)
    <2>1. storage.nonce \in [Accounts -> Nat] /\ storage.removed \in [Accounts -> Nat]
      BY DEF RuntimeType, Storage, Balances
    <2>2. s.nonce[a] = storage.nonce[a] + (IF a = e.signer THEN 1 ELSE 0)
      BY <1>5, <2>1
    <2>3. /\ s.removed[a] <= r.removed[a]
          /\ s.removed[a] = r.removed[a] => s.nonce[a] = r.nonce[a]
      BY <1>6 DEF Follows
    <2>4. QED
      BY <1>3, <1>5, <2>2, <2>3
  <1>11. ASSUME e.signer # Sudo
         PROVE  /\ \A a \in Accounts : storage'.free[a] < storage.free[a] => a = e.signer
                /\ storage'.issuance <= storage.issuance
    <2>1. /\ r.issuance \in Int /\ s.issuance \in Int /\ storage.issuance \in Int
      BY <1>5, <1>6 DEF RuntimeType, Storage
    <2>2. r.issuance <= storage.issuance
      BY <1>5, <1>6, <1>11, <2>1
    <2>3. ASSUME NEW a \in Accounts, r.free[a] < storage.free[a], a # e.signer
          PROVE  FALSE
      <3>1. s.free[a] = storage.free[a]
        BY <1>5, <2>3
      <3>2. r.free[a] < s.free[a]
        BY <2>3, <3>1
      <3>3. QED
        BY <1>6, <1>11, <2>3, <3>2
    <2>4. QED
      BY <1>3, <2>2, <2>3
  <1>12. QED
    BY <1>8, <1>9, <1>10, <1>11

(* Nonces of a life are used up in order. *)
LEMMA ApplyNonces ==
  ASSUME RuntimeType, Balanced, NoncesUsed, NEW e \in Extrinsic, Apply(e)
  PROVE  NoncesUsed'
  <1> SUFFICES ASSUME NEW i \in 1 .. Len(applied')
               PROVE  /\ applied'[i].life <= storage'.removed[applied'[i].signer]
                      /\ applied'[i].life = storage'.removed[applied'[i].signer]
                           => applied'[i].nonce < storage'.nonce[applied'[i].signer]
    BY DEF NoncesUsed
  <1>1. /\ storage' \in Storage /\ storage \in Storage
        /\ \A a \in Accounts :
             /\ storage.removed[a] <= storage'.removed[a]
             /\ storage.removed[a] = storage'.removed[a]
                  => storage'.nonce[a] = storage.nonce[a] + (IF a = e.signer THEN 1 ELSE 0)
    BY ApplyStorage DEF RuntimeType
  <1>2. \A a \in Accounts : /\ storage.removed[a] \in Nat /\ storage'.removed[a] \in Nat
                            /\ storage.nonce[a] \in Nat /\ storage'.nonce[a] \in Nat
    BY <1>1 DEF Storage, Balances
  <1>3. CASE i = Len(applied) + 1
    <2>1. applied'[i] = NewEntry(e) /\ e.signer \in Accounts
      BY <1>3, AppliedGrows DEF Extrinsic
    <2>2. e.nonce = storage.nonce[e.signer]
      BY ValidMeans DEF Apply
    <2>3. /\ applied'[i].signer = e.signer /\ applied'[i].nonce = storage.nonce[e.signer]
          /\ applied'[i].life = storage.removed[e.signer]
      BY <2>1, <2>2 DEF NewEntry
    <2>4. QED
      BY <1>1, <1>2, <2>1, <2>3
  <1>4. CASE i # Len(applied) + 1
    <2>1. i \in 1 .. Len(applied) /\ applied'[i] = applied[i]
      BY <1>4, AppliedGrows
    <2>2. PICK x \in Entry : x = applied[i]
      BY <2>1 DEF RuntimeType
    <2>3. x.signer \in Accounts /\ x.life \in Nat /\ x.nonce \in Nat
      BY <2>2 DEF Entry
    <2>4. /\ x.life <= storage.removed[x.signer]
          /\ x.life = storage.removed[x.signer] => x.nonce < storage.nonce[x.signer]
      BY <2>1, <2>2 DEF NoncesUsed
    <2>5. /\ x.life <= storage'.removed[x.signer]
          /\ x.life = storage'.removed[x.signer] => x.nonce < storage'.nonce[x.signer]
      BY <1>1, <1>2, <2>3, <2>4
    <2>6. QED
      BY <2>1, <2>2, <2>5
  <1>5. QED
    BY <1>3, <1>4

(* The new entry's nonce is not among those of its signer's present life. *)
LEMMA ApplyOnce ==
  ASSUME RuntimeType, NoncesUsed, Once, NEW e \in Extrinsic, Apply(e)
  PROVE  Once'
  <1> SUFFICES ASSUME NEW i \in 1 .. Len(applied'), NEW j \in 1 .. Len(applied'), i < j,
                      applied'[i].signer = applied'[j].signer,
                      applied'[i].nonce = applied'[j].nonce
               PROVE  applied'[i].life < applied'[j].life
    BY DEF Once
  <1>1. i \in 1 .. Len(applied) /\ applied'[i] = applied[i]
    BY AppliedGrows
  <1>2. CASE j = Len(applied) + 1
    <2>1. applied'[j] = NewEntry(e) /\ e.signer \in Accounts
      BY <1>2, AppliedGrows DEF Extrinsic
    <2>2. e.nonce = storage.nonce[e.signer]
      BY ValidMeans DEF Apply
    <2>3. /\ applied'[j].signer = e.signer /\ applied'[j].nonce = storage.nonce[e.signer]
          /\ applied'[j].life = storage.removed[e.signer]
      BY <2>1, <2>2 DEF NewEntry
    <2>4. PICK x \in Entry : x = applied[i]
      BY <1>1 DEF RuntimeType
    <2>5. /\ x.life \in Nat /\ x.nonce \in Nat
          /\ x.signer = e.signer /\ x.nonce = storage.nonce[e.signer]
      BY <1>1, <2>3, <2>4 DEF Entry
    <2>6. /\ x.life <= storage.removed[e.signer]
          /\ x.life = storage.removed[e.signer] => x.nonce < storage.nonce[e.signer]
      BY <1>1, <2>4, <2>5 DEF NoncesUsed
    <2>7. storage.removed[e.signer] \in Nat /\ storage.nonce[e.signer] \in Nat
      BY <2>1 DEF RuntimeType, Storage, Balances
    <2>8. x.life < storage.removed[e.signer]
      BY <2>5, <2>6, <2>7
    <2>9. QED
      BY <1>1, <2>3, <2>4, <2>8
  <1>3. CASE j # Len(applied) + 1
    <2>1. j \in 1 .. Len(applied) /\ applied'[j] = applied[j]
      BY <1>3, AppliedGrows
    <2>2. QED
      BY <1>1, <2>1 DEF Once
  <1>4. QED
    BY <1>2, <1>3

------------------------------------------------------------------------------
(* Eras and limits. *)

(* Division, as eras use it. *)
LEMMA Quotient ==
  ASSUME NEW t \in Nat, NEW d \in Nat, d > 0
  PROVE  /\ t \div d \in Nat /\ (t \div d) * d \in Nat
         /\ (t \div d) * d <= t
         /\ t < (t \div d) * d + d
  OBVIOUS

(* An era is younger than its period, unless it is not born yet. *)
LEMMA BirthBounds ==
  ASSUME NEW era \in Eras, era # Immortal, NEW n \in Nat, birth(era, n) < n
  PROVE  n < birth(era, n) + era.period
  <1> DEFINE p == era.period
             start == Larger(n, era.phase)
             t == start - era.phase
  <1>1. p \in Nat /\ p > 0 /\ era.phase \in Nat
    BY DEF Eras
  <1>2. t \in Nat /\ start \in Nat /\ n <= start /\ t = start - era.phase
    BY <1>1 DEF Larger
  <1>3. birth(era, n) = (t \div p) * p + era.phase
    BY DEF birth
  <1> HIDE DEF p, t, start
  <1>4. (t \div p) * p \in Nat /\ t < (t \div p) * p + p
    BY <1>1, <1>2, Quotient
  <1>5. n < birth(era, n) + p
    BY <1>1, <1>2, <1>3, <1>4
  <1>6. QED
    BY <1>5 DEF p

(* The era is checked against the block that the hash stands for. *)
LEMMA ApplyEra ==
  ASSUME RuntimeType, InEra, NEW e \in Extrinsic, Apply(e)
  PROVE  InEra'
  <1> SUFFICES ASSUME NEW i \in 1 .. Len(applied'), applied'[i].era # Immortal
               PROVE  /\ applied'[i].hash < applied'[i].at
                      /\ applied'[i].at < applied'[i].hash + applied'[i].era.period
    BY DEF InEra
  <1>1. CASE i = Len(applied) + 1
    <2>1. applied'[i] = NewEntry(e)
      BY <1>1, AppliedGrows
    <2>2. /\ applied'[i].era = e.era /\ applied'[i].hash = e.hash /\ applied'[i].at = number
          /\ e.era \in Eras /\ number \in Nat /\ number >= 1
      BY <2>1 DEF NewEntry, Extrinsic, RuntimeType
    <2>3. birth(e.era, number) \in KnownHashes(number) /\ e.hash = birth(e.era, number)
      BY ValidMeans DEF Apply, CheckEra
    <2>4. birth(e.era, number) < number
      BY <2>2, <2>3 DEF KnownHashes
    <2>5. QED
      BY <2>2, <2>3, <2>4, BirthBounds
  <1>2. CASE i # Len(applied) + 1
    <2>1. i \in 1 .. Len(applied) /\ applied'[i] = applied[i]
      BY <1>2, AppliedGrows
    <2>2. QED
      BY <2>1 DEF InEra
  <1>3. QED
    BY <1>1, <1>2

(* The shares are natural numbers that add up. *)
LEMMA Shares ==
  /\ NormalShare(MaxBlockWeight) \in Nat
  /\ NormalShare(MaxBlockWeight) <= MaxBlockWeight
  /\ MaxBlockWeight \div 10 <= NormalShare(MaxBlockWeight)
  /\ NormalShare(MaxBlockLength) \in Nat
  /\ NormalShare(MaxBlockLength) <= MaxBlockLength
  BY BlockLimitsAssumption DEF NormalShare

Usage == [normal : Nat, operational : Nat, mandatory : Nat, length : Nat]

(* What an extrinsic adds to a block. *)
LEMMA AccruedIs ==
  ASSUME NEW u \in Usage, NEW w \in Nat, NEW l \in Nat
  PROVE  /\ Accrued(u, "normal", w, l)
              = [normal |-> u.normal + (w + BaseExtrinsic), operational |-> u.operational,
                 mandatory |-> u.mandatory, length |-> u.length + l]
         /\ Accrued(u, "operational", w, l)
              = [normal |-> u.normal, operational |-> u.operational + (w + BaseExtrinsic),
                 mandatory |-> u.mandatory, length |-> u.length + l]
  <1>1. /\ u.normal + w + BaseExtrinsic = u.normal + (w + BaseExtrinsic)
        /\ u.operational + w + BaseExtrinsic = u.operational + (w + BaseExtrinsic)
    BY BlockLimitsAssumption DEF Usage
  <1>2. Accrued(u, "normal", w, l)
          = [[u EXCEPT !.normal = u.normal + w + BaseExtrinsic] EXCEPT !.length = u.length + l]
    BY DEF Accrued, Usage
  <1>3. Accrued(u, "operational", w, l)
          = [[u EXCEPT !.operational = u.operational + w + BaseExtrinsic]
               EXCEPT !.length = u.length + l]
    BY DEF Accrued, Usage
  <1>4. QED
    BY <1>1, <1>2, <1>3 DEF Usage

(* An extrinsic that fits leaves the block within its limits. *)
LEMMA ApplyLimits ==
  ASSUME RuntimeType, Limits, NEW e \in Extrinsic, Apply(e)
  PROVE  /\ Limits'
         /\ used' \in [normal : Nat, operational : Nat, mandatory : Nat, length : Nat]
  <1> DEFINE w == e.call.weight + BaseExtrinsic
             l == e.call.length
  <1>1. /\ e.call.class \in {"normal", "operational"} /\ w \in Nat /\ l \in Nat
        /\ e.call.weight \in Nat
    BY BlockLimitsAssumption DEF Extrinsic, Call, Classes
  <1>2. /\ used.normal \in Nat /\ used.operational \in Nat /\ used.mandatory \in Nat
        /\ used.length \in Nat
        /\ used = [normal |-> used.normal, operational |-> used.operational,
                   mandatory |-> used.mandatory, length |-> used.length]
    BY DEF RuntimeType
  <1>3. used' = Accrued(used, e.call.class, e.call.weight, e.call.length)
    BY DEF Apply
  <1>4. /\ used'[e.call.class] <= max_total(e.call.class)
        /\ Total(used') > MaxBlockWeight => used'[e.call.class] <= reserved(e.call.class)
        /\ used'.length <= max_length(e.call.class)
    BY <1>3, ValidMeans DEF Apply, CheckWeight, Fits
  <1>5. BaseExtrinsic \in Nat \ {0} /\ MaxBlockWeight \in Nat /\ Initialization \in Nat
    BY BlockLimitsAssumption
  <1>6. CASE e.call.class = "normal"
    <2>1. used' = [normal |-> used.normal + w, operational |-> used.operational,
                   mandatory |-> used.mandatory, length |-> used.length + l]
      <3>1. used' = Accrued(used, "normal", e.call.weight, l) /\ used \in Usage
        BY <1>3, <1>6 DEF RuntimeType, Usage
      <3>2. QED
        BY <1>1, <3>1, AccruedIs
    <2> HIDE DEF w, l
    <2>2. used'.normal = used.normal + w /\ used'.operational = used.operational
          /\ used'.mandatory = used.mandatory /\ used'.length = used.length + l
      BY <2>1
    <2>3. used'.normal <= max_total("normal")
      BY <1>4, <1>6, <2>1
    <2>4. Total(used') > MaxBlockWeight => used'.normal <= 0
      BY <1>4, <1>6, <2>1 DEF reserved
    <2>5. Total(used') > MaxBlockWeight => used'.operational <= reserved("operational")
      <3>1. Total(used') > MaxBlockWeight => Total(used') = Total(used)
        BY <1>1, <1>2, <2>2, <2>4 DEF Total
      <3>2. QED
        BY <2>2, <3>1 DEF Limits
    <2>6. used'.length <= max_length("normal")
      BY <1>4, <1>6
    <2>7. QED
      BY <1>1, <1>2, <2>1, <2>2, <2>3, <2>5, <2>6 DEF Limits, Total, max_total, reserved
  <1>7. CASE e.call.class = "operational"
    <2>1. used' = [normal |-> used.normal, operational |-> used.operational + w,
                   mandatory |-> used.mandatory, length |-> used.length + l]
      <3>1. used' = Accrued(used, "operational", e.call.weight, l) /\ used \in Usage
        BY <1>3, <1>7 DEF RuntimeType, Usage
      <3>2. QED
        BY <1>1, <3>1, AccruedIs
    <2>2. w # 0
      BY <1>1, <1>5
    <2> HIDE DEF w, l
    <2>3. Total(used') > MaxBlockWeight => used'.operational <= reserved("operational")
      BY <1>4, <1>7, <2>1
    <2>4. used'.operational # 0
      BY <1>1, <1>2, <2>1, <2>2
    <2>5. QED
      BY <1>1, <1>2, <2>1, <2>3, <2>4 DEF Limits, Total, max_total, reserved
  <1>8. QED
    BY <1>1, <1>6, <1>7

------------------------------------------------------------------------------
(* The invariant. *)

(* Genesis: the endowments are all there is. *)
LEMMA InitBalanced == Init => Balanced
  <1> SUFFICES ASSUME Init PROVE Balanced
    OBVIOUS
  <1> DEFINE f == [a \in Accounts |-> IF a \in Endowed THEN Endowment ELSE 0]
  <1>1. Endowed \subseteq Accounts /\ IsFiniteSet(Endowed) /\ Endowment \in Nat
    BY RuntimeAssumption
  <1>2. Units(f) = Endowed \X (1 .. Endowment)
    BY <1>1 DEF Units
  <1>3. IsFiniteSet(1 .. Endowment) /\ Cardinality(1 .. Endowment) = Endowment
    BY <1>1, FS_Interval
  <1>4. /\ IsFiniteSet(Endowed \X (1 .. Endowment))
        /\ Cardinality(Endowed \X (1 .. Endowment))
             = Cardinality(Endowed) * Cardinality(1 .. Endowment)
    BY <1>1, <1>3, FS_Product
  <1>5. storage.free = f /\ storage.issuance = Cardinality(Endowed) * Endowment
    BY DEF Init
  <1> HIDE DEF f
  <1>6. QED
    BY <1>2, <1>3, <1>4, <1>5 DEF Balanced

(* The invariant holds at genesis. *)
LEMMA InitInvariant == Init => RuntimeInv
  <1> SUFFICES ASSUME Init PROVE RuntimeInv
    OBVIOUS
  <1>1. storage \in Storage
    <2>1. Cardinality(Endowed) \in Nat /\ Endowment \in Nat
      BY RuntimeAssumption, FS_CardinalityType
    <2>2. Cardinality(Endowed) * Endowment \in Int
      BY <2>1
    <2>3. [a \in Accounts |-> IF a \in Endowed THEN Endowment ELSE 0] \in [Accounts -> Nat]
      BY <2>1
    <2>4. QED
      BY <2>2, <2>3 DEF Init, Storage, Balances
  <1>2. Clean(storage)
    BY RuntimeAssumption DEF Init, Clean, Alive
  <1>3. number \in 1 .. MaxBlock /\ applied = <<>> /\ used = EmptyBlock
    BY RuntimeAssumption DEF Init
  <1>4. RuntimeType
    BY <1>1, <1>2, <1>3, BlockLimitsAssumption, RuntimeAssumption DEF RuntimeType, EmptyBlock
  <1>5. NoncesUsed /\ Once /\ InEra
    BY <1>3 DEF NoncesUsed, Once, InEra
  <1>6. Limits
    BY <1>3, BlockLimitsAssumption, Shares DEF Limits, EmptyBlock, Total, max_total, max_length, reserved
  <1>7. QED
    BY <1>4, <1>5, <1>6, InitBalanced DEF RuntimeInv

(* An extrinsic that is applied keeps it, whoever signed it. *)
LEMMA ApplyInvariant ==
  ASSUME RuntimeInv, NEW e \in Extrinsic, Apply(e)
  PROVE  RuntimeInv'
  <1> USE DEF RuntimeInv
  <1>1. RuntimeType'
    <2>1. storage' \in Storage /\ Clean(storage)'
      BY ApplyStorage
    <2>2. applied' \in Seq(Entry) /\ Len(applied') = Len(applied) + 1 /\ Len(applied) \in Nat
      BY AppliedGrows
    <2>3. Len(applied) < MaxApplied /\ number' = number
      BY DEF Apply
    <2>4. used' \in [normal : Nat, operational : Nat, mandatory : Nat, length : Nat]
      BY ApplyLimits
    <2>5. QED
      BY <2>1, <2>2, <2>3, <2>4, RuntimeAssumption DEF RuntimeType
  <1>2. NoncesUsed'
    BY ApplyNonces
  <1>3. Once'
    BY ApplyOnce
  <1>4. InEra'
    BY ApplyEra
  <1>5. Limits'
    BY ApplyLimits
  <1>6. Balanced'
    BY ApplyStorage
  <1>7. QED
    BY <1>1, <1>2, <1>3, <1>4, <1>5, <1>6

(* So does the next block. *)
LEMMA NextBlockInvariant ==
  ASSUME RuntimeInv, NextBlock
  PROVE  RuntimeInv'
  <1> USE DEF RuntimeInv
  <1>1. UNCHANGED <<storage, applied>> /\ used' = EmptyBlock /\ number' \in 1 .. MaxBlock
    BY RuntimeAssumption DEF NextBlock, RuntimeType
  <1>2. RuntimeType'
    BY <1>1, BlockLimitsAssumption DEF RuntimeType, EmptyBlock, Clean, Alive
  <1>3. NoncesUsed' /\ Once' /\ InEra' /\ Balanced'
    BY <1>1 DEF NoncesUsed, Once, InEra, Balanced
  <1>4. Limits'
    BY <1>1, BlockLimitsAssumption, Shares DEF Limits, EmptyBlock, Total, max_total, max_length, reserved
  <1>5. QED
    BY <1>2, <1>3, <1>4

(* And so does a step that leaves the chain alone. *)
LEMMA StutterInvariant ==
  ASSUME RuntimeInv, UNCHANGED vars
  PROVE  RuntimeInv'
  BY DEF vars, RuntimeInv, RuntimeType, Clean, Alive, NoncesUsed, Once, InEra, Limits, Total, Balanced

(* Every step keeps it. *)
LEMMA NextInvariant == RuntimeInv /\ [Next]_vars => RuntimeInv'
  <1> SUFFICES ASSUME RuntimeInv, [Next]_vars PROVE RuntimeInv'
    OBVIOUS
  <1>1. ASSUME NEW e \in Extrinsics, Apply(e) PROVE RuntimeInv'
    BY <1>1, ApplyInvariant, RuntimeAssumption
  <1>2. CASE NextBlock
    BY <1>2, NextBlockInvariant
  <1>3. CASE UNCHANGED vars
    BY <1>3, StutterInvariant
  <1>4. QED
    BY <1>1, <1>2, <1>3 DEF Next, Refuse

(* The invariant holds throughout. *)
THEOREM RuntimeInvariant == Spec => []RuntimeInv
  <1>1. Init => RuntimeInv
    BY InitInvariant
  <1>2. RuntimeInv /\ [Next]_vars => RuntimeInv'
    BY NextInvariant
  <1>3. QED
    BY <1>1, <1>2, PTL DEF Spec

------------------------------------------------------------------------------
(* What it means for the properties. *)

(* Balances are natural numbers and an account below the existential       *)
(* deposit is gone, whichever extrinsics come in which order.              *)
THEOREM RuntimeTypeCorrect == Spec => []TypeOK
  <1>1. RuntimeInv => TypeOK
    BY DEF RuntimeInv, RuntimeType, TypeOK, Storage, Clean
  <1>2. QED
    BY <1>1, RuntimeInvariant, PTL

(* The total issuance is what all accounts together hold, for any number   *)
(* of accounts and extrinsics: fees, refunds, dust and sudo included.      *)
THEOREM IssuanceIsAccounted == Spec => []IssuanceAccounted
  <1>1. RuntimeInv => IssuanceAccounted
    BY DEF RuntimeInv, Balanced, IssuanceAccounted
  <1>2. QED
    BY <1>1, RuntimeInvariant, PTL

(* CheckNonce admits no replay within the life of the signer's account. *)
THEOREM NoReplayWithinALife == Spec => []OncePerLife
  <1>1. RuntimeInv => OncePerLife
    <2> SUFFICES ASSUME RuntimeInv PROVE OncePerLife
      OBVIOUS
    <2>1. DOMAIN applied = 1 .. Len(applied)
      BY DEF RuntimeInv, RuntimeType
    <2>2. QED
      BY <2>1 DEF RuntimeInv, Once, OncePerLife
  <1>2. QED
    BY <1>1, RuntimeInvariant, PTL

(* CheckEra ends the life of a mortal extrinsic with its period, for any   *)
(* period and however often the era recurs.                                *)
THEOREM ErasAreRespected == Spec => []EraRespected
  <1>1. RuntimeInv => EraRespected
    <2> SUFFICES ASSUME RuntimeInv PROVE EraRespected
      OBVIOUS
    <2>1. DOMAIN applied = 1 .. Len(applied)
      BY DEF RuntimeInv, RuntimeType
    <2>2. QED
      BY <2>1 DEF RuntimeInv, InEra, EraRespected
  <1>2. QED
    BY <1>1, RuntimeInvariant, PTL

(* CheckWeight keeps every block within its limits, for any limits and     *)
(* any weights.                                                            *)
THEOREM BlocksAreNotOverfull == Spec => []BlockNotOverfull
  <1>1. RuntimeInv => BlockNotOverfull
    <2> SUFFICES ASSUME RuntimeInv PROVE BlockNotOverfull
      OBVIOUS
    <2>1. /\ used.normal \in Nat /\ used.operational \in Nat /\ used.mandatory \in Nat
          /\ MaxBlockWeight \in Nat
      BY BlockLimitsAssumption DEF RuntimeInv, RuntimeType
    <2>2. /\ used.normal <= NormalShare(MaxBlockWeight)
          /\ Total(used) > MaxBlockWeight
               => used.operational <= MaxBlockWeight - NormalShare(MaxBlockWeight)
      BY DEF RuntimeInv, Limits, max_total, reserved
    <2>3. used.normal + used.operational <= MaxBlockWeight
      BY <2>1, <2>2, Shares DEF Total
    <2>4. QED
      BY <2>2, <2>3 DEF BlockNotOverfull, max_total
  <1>2. QED
    BY <1>1, RuntimeInvariant, PTL

(* Normal extrinsics never shut operational ones out: the first one within *)
(* the reserve fits every block that the chain comes to build, because     *)
(* until then its length is at most what the normal class is allowed.      *)
THEOREM OperationalAlwaysGetsIn == Spec => []OperationalGetsIn
  <1>1. RuntimeInv => OperationalGetsIn
    <2> SUFFICES ASSUME RuntimeInv, used.operational = 0,
                        NEW w \in 0 .. reserved("operational") - BaseExtrinsic,
                        NEW l \in 0 .. MaxBlockLength - max_length("normal")
                 PROVE  Fits(used, "operational", w, l)
      BY DEF OperationalGetsIn
    <2>1. /\ MaxBlockWeight \in Nat /\ MaxBlockLength \in Nat /\ BaseExtrinsic \in Nat
          /\ MaxBlockWeight \div 10 \in Nat /\ used \in Usage
      BY BlockLimitsAssumption DEF RuntimeInv, RuntimeType, Usage
    <2>2. PICK share \in Nat : share = NormalShare(MaxBlockWeight)
      BY Shares
    <2>3. share <= MaxBlockWeight /\ MaxBlockWeight \div 10 <= share
      BY <2>2, Shares
    <2>4. w \in Nat /\ w + BaseExtrinsic <= MaxBlockWeight - share
      BY <2>1, <2>2 DEF reserved
    <2>5. l \in Nat /\ used.length + l <= MaxBlockLength
      <3>1. used.length <= NormalShare(MaxBlockLength) /\ used.length \in Nat
        BY <2>1 DEF RuntimeInv, Limits, max_length, Usage
      <3>2. l \in Nat /\ l <= MaxBlockLength - NormalShare(MaxBlockLength)
        BY <2>1, Shares DEF max_length
      <3>3. QED
        BY <2>1, <3>1, <3>2, Shares
    <2>6. Accrued(used, "operational", w, l)
            = [normal |-> used.normal, operational |-> 0 + (w + BaseExtrinsic),
               mandatory |-> used.mandatory, length |-> used.length + l]
      BY <2>1, <2>4, <2>5, AccruedIs
    <2>7. w <= max_extrinsic("operational")
      BY <2>1, <2>3, <2>4 DEF max_extrinsic, max_total
    <2>8. QED
      BY <2>1, <2>2, <2>3, <2>4, <2>5, <2>6, <2>7 DEF Fits, max_total, max_length, reserved
  <1>2. QED
    BY <1>1, RuntimeInvariant, PTL

(* Only a signature of the account's own key, or of the sudo key, lowers a *)
(* balance; only the sudo key raises the issuance.                         *)
THEOREM OthersAreSafe == Spec => OnlySudoTouchesOthers
  <1> DEFINE signer == applied'[Len(applied')].signer
             A == /\ \A a \in Accounts : storage'.free[a] < storage.free[a] => signer \in {a, Sudo}
                  /\ storage'.issuance > storage.issuance => signer = Sudo
  <1>1. RuntimeInv /\ [Next]_vars => [A]_vars
    <2> SUFFICES ASSUME RuntimeInv, Next PROVE A \/ UNCHANGED vars
      OBVIOUS
    <2>1. ASSUME NEW e \in Extrinsics, Apply(e) PROVE A
      <3>1. e \in Extrinsic
        BY RuntimeAssumption
      <3>2. signer = e.signer
        <4>1. Len(applied') = Len(applied) + 1 /\ applied'[Len(applied) + 1] = NewEntry(e)
          BY <2>1, <3>1, AppliedGrows DEF RuntimeInv
        <4>2. NewEntry(e).signer = e.signer
          BY DEF NewEntry
        <4>3. QED
          BY <4>1, <4>2
      <3>3. /\ storage' \in Storage /\ storage \in Storage
            /\ e.signer # Sudo
                 => /\ \A a \in Accounts : storage'.free[a] < storage.free[a] => a = e.signer
                    /\ storage'.issuance <= storage.issuance
        BY <2>1, <3>1, ApplyStorage DEF RuntimeInv, RuntimeType
      <3>4. storage'.issuance \in Int /\ storage.issuance \in Int
        BY <3>3 DEF Storage
      <3> HIDE DEF signer
      <3>5. QED
        BY <3>2, <3>3, <3>4
    <2>2. CASE NextBlock
      <3>1. storage' = storage /\ storage \in Storage
        BY <2>2 DEF NextBlock, RuntimeInv, RuntimeType
      <3> HIDE DEF signer
      <3>2. QED
        BY <3>1 DEF Storage, Balances
    <2>3. QED
      BY <2>1, <2>2 DEF Next, Refuse
  <1>2. QED
    BY <1>1, RuntimeInvariant, PTL DEF Spec, OnlySudoTouchesOthers

==============================================================================
