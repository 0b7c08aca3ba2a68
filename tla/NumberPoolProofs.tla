--------------------------- MODULE NumberPoolProofs ---------------------------
(* NumberPool for any set of businesses, numbers and phones: what TLC       *)
(* checks with three businesses and two numbers holds for all of them.      *)
EXTENDS NumberPool, TLAPS

(* A number is held by a row, and the two stores agree where they speak of  *)
(* the same business.  UniqueNumber alone is not inductive: the claim asks  *)
(* the rows only, so an id without a row must hold nothing.                 *)
OnlyRowsHold == \A b \in Business : assigned[b] # NoNumber => b \in rows

IInv ==
    /\ TypeOK
    /\ OnlyRowsHold
    /\ UniqueNumber
    /\ NoStrandedEntry

(* A step changes the number of one business at most: it keeps the column,  *)
(* clears one row, or gives a free number to one that has none.             *)
Assigns(b, n) ==
    /\ assigned[b] = NoNumber
    /\ n \in Number
    /\ n \notin NumbersInUse
    /\ assigned' = [assigned EXCEPT ![b] = n]

Clears(b) == assigned' = [assigned EXCEPT ![b] = NoNumber]

LEMMA InitIInv == Init => IInv
BY NumberAssumption DEF Init, IInv, TypeOK, OnlyRowsHold, UniqueNumber, NoStrandedEntry

(* The number a best-effort mirror writes is the one the row was given.     *)
LEMMA MirrorKeeps ==
    ASSUME IInv, NEW b \in Business, NEW n \in Number,
           Assigns(b, n),
           BestEffortWrite([file EXCEPT ![n] = b])
    PROVE  NoStrandedEntry' /\ file' \in [Number -> {Absent, Available} \cup Business]
           /\ readable' \in BOOLEAN
<1>1. file' = file \/ file' = [file EXCEPT ![n] = b]
  BY DEF BestEffortWrite, WriteWhole, WriteTorn, WriteSkipped
<1>2. readable' \in BOOLEAN
  BY DEF BestEffortWrite, WriteWhole, WriteTorn, WriteSkipped, IInv, TypeOK
<1>3. ASSUME NEW m \in Number, file'[m] \in Business
      PROVE  assigned'[file'[m]] = m
  <2>1. CASE file'[m] = b /\ m = n
    BY <2>1 DEF Assigns, IInv, TypeOK
  <2>2. CASE ~(file'[m] = b /\ m = n)
    <3>1. file'[m] = file[m]
      BY <1>1, <2>2 DEF IInv, TypeOK
    <3>2. assigned[file[m]] = m
      BY <3>1, <1>3 DEF IInv, NoStrandedEntry
    <3>3. file[m] # b
      BY <3>2, NumberAssumption DEF Assigns
    <3>4. QED BY <3>1, <3>2, <3>3, <1>3 DEF Assigns, IInv, TypeOK
  <2>3. QED BY <2>1, <2>2
<1>4. QED BY <1>1, <1>2, <1>3 DEF NoStrandedEntry, IInv, TypeOK

(* Giving a free number to a row keeps every number with one holder.        *)
LEMMA AssignKeeps ==
    ASSUME IInv, NEW b \in Business, NEW n \in Number,
           Assigns(b, n), b \in rows', rows \subseteq rows'
    PROVE  UniqueNumber' /\ OnlyRowsHold'
           /\ assigned' \in [Business -> Number \cup {NoNumber}]
<1>1. assigned' \in [Business -> Number \cup {NoNumber}]
  BY DEF Assigns, IInv, TypeOK
<1>2. \A c \in Business : assigned[c] # n
  BY NumberAssumption DEF Assigns, NumbersInUse, IInv, OnlyRowsHold
<1>3. UniqueNumber'
  BY <1>2 DEF UniqueNumber, Assigns, IInv, TypeOK
<1>4. OnlyRowsHold'
  BY DEF OnlyRowsHold, Assigns, IInv, TypeOK
<1>5. QED BY <1>1, <1>3, <1>4

LEMMA CandidatesUsable ==
    ASSUME NEW p, NEW n \in Candidates(p)
    PROVE  n \in Number /\ n \notin NumbersInUse
BY DEF Candidates, Usable

LEMMA AssignForKeeps ==
    ASSUME IInv, NEW b \in Business, NEW p, AssignFor(b, p),
           b \in rows, UNCHANGED rows, phone' \in [Business -> Phone \cup {NoPhone}]
    PROVE  IInv'
<1>1. PICK n \in Candidates(p) : /\ Claim(b, n)
                                /\ BestEffortWrite([file EXCEPT ![n] = b])
  BY DEF AssignFor
<1>2. n \in Number /\ Assigns(b, n)
  BY <1>1, CandidatesUsable DEF Claim, Assigns
<1>3. UniqueNumber' /\ OnlyRowsHold' /\ assigned' \in [Business -> Number \cup {NoNumber}]
  BY <1>2, AssignKeeps
<1>4. NoStrandedEntry' /\ file' \in [Number -> {Absent, Available} \cup Business]
      /\ readable' \in BOOLEAN
  BY <1>1, <1>2, MirrorKeeps
<1>5. QED BY <1>3, <1>4 DEF IInv, TypeOK

LEMMA ReleaseKeeps ==
    ASSUME IInv, NEW b \in Business, ReleaseNumber(b)
    PROVE  IInv'
<1>1. assigned' = assigned \/ Clears(b)
  BY DEF ReleaseNumber, Clears
<1>2. file' = file \/ \E n \in Number : file[n] = b /\ file' = [file EXCEPT ![n] = Available]
  BY DEF ReleaseNumber, WriteWhole, WriteTorn
<1>3. rows' = rows /\ phone' = phone /\ readable' \in BOOLEAN
  BY DEF ReleaseNumber, WriteWhole, WriteTorn, IInv, TypeOK
<1>4. TypeOK'
  BY <1>1, <1>2, <1>3 DEF Clears, IInv, TypeOK
<1>5. UniqueNumber' /\ OnlyRowsHold'
  BY <1>1, <1>3 DEF Clears, IInv, TypeOK, UniqueNumber, OnlyRowsHold
<1>6. ASSUME NEW m \in Number, file'[m] \in Business
      PROVE  assigned'[file'[m]] = m
  <2>1. file[m] = file'[m] /\ assigned[file[m]] = m
    BY <1>2, <1>6, NumberAssumption DEF IInv, TypeOK, NoStrandedEntry
  <2>2. CASE Clears(b) /\ file[m] = b
    (* the row is only cleared once its entry, if there was one, is freed   *)
    <3>1. \/ \E n \in Number : file[n] = b /\ file' = [file EXCEPT ![n] = Available]
          \/ \A n \in Number : file[n] # b
          \/ UNCHANGED assigned
      BY DEF ReleaseNumber, WriteWhole, WriteTorn
    <3>2. CASE UNCHANGED assigned
      BY <3>2, <2>1
    <3>3. CASE \E n \in Number : file[n] = b /\ file' = [file EXCEPT ![n] = Available]
      <4>1. PICK n \in Number : file[n] = b /\ file' = [file EXCEPT ![n] = Available]
        BY <3>3
      <4>2. n = m
        BY <4>1, <2>1, <2>2 DEF IInv, NoStrandedEntry
      <4>3. QED BY <4>1, <4>2, <1>6, NumberAssumption DEF IInv, TypeOK
    <3>4. QED BY <3>1, <3>2, <3>3, <2>2
  <2>3. CASE ~(Clears(b) /\ file[m] = b)
    BY <2>1, <2>3, <1>1, <1>6 DEF Clears, IInv, TypeOK
  <2>4. QED BY <2>2, <2>3
<1>7. QED BY <1>4, <1>5, <1>6 DEF IInv, NoStrandedEntry

LEMMA AddNumbersKeeps ==
    ASSUME IInv, NEW pasted \in SUBSET Number, AddNumbers(pasted)
    PROVE  IInv'
<1>1. \A m \in Number : file'[m] = file[m] \/ (file[m] = Absent /\ file'[m] = Available)
  BY DEF AddNumbers, WriteWhole, WriteTorn, IInv, TypeOK
<1>2. file' \in [Number -> {Absent, Available} \cup Business] /\ readable' \in BOOLEAN
  BY DEF AddNumbers, WriteWhole, WriteTorn, IInv, TypeOK
<1>3. UNCHANGED <<rows, assigned, phone>>
  BY DEF AddNumbers
<1>4. NoStrandedEntry'
  BY <1>1, <1>3, NumberAssumption DEF NoStrandedEntry, IInv
<1>5. QED BY <1>2, <1>3, <1>4 DEF IInv, TypeOK, UniqueNumber, OnlyRowsHold

LEMMA CreateAdminCustomerKeeps ==
    ASSUME IInv, NEW b \in Business, NEW p \in Phone, NEW n \in Number,
           CreateAdminCustomer(b, p, n)
    PROVE  IInv'
<1>1. Assigns(b, n)
  BY DEF CreateAdminCustomer, HasOwner, Assigns, IInv, OnlyRowsHold
<1>2. rows' = rows \cup {b} /\ phone' = [phone EXCEPT ![b] = p]
      /\ BestEffortWrite([file EXCEPT ![n] = b])
  BY DEF CreateAdminCustomer
<1>3. UniqueNumber' /\ OnlyRowsHold' /\ assigned' \in [Business -> Number \cup {NoNumber}]
  BY <1>1, <1>2, AssignKeeps
<1>4. NoStrandedEntry' /\ file' \in [Number -> {Absent, Available} \cup Business]
      /\ readable' \in BOOLEAN
  BY <1>1, <1>2, MirrorKeeps
<1>5. QED BY <1>2, <1>3, <1>4 DEF IInv, TypeOK

LEMMA RowOnlyKeeps ==
    ASSUME IInv, UNCHANGED <<assigned, file>>, readable' \in BOOLEAN,
           rows \subseteq rows', rows' \subseteq Business,
           phone' \in [Business -> Phone \cup {NoPhone}]
    PROVE  IInv'
BY DEF IInv, TypeOK, OnlyRowsHold, UniqueNumber, NoStrandedEntry

LEMMA OnboardingStartKeeps ==
    ASSUME IInv, NEW b \in Business, NEW p \in Phone, OnboardingStart(b, p)
    PROVE  IInv'
<1>1. b \in rows /\ rows' = rows /\ phone' \in [Business -> Phone \cup {NoPhone}]
  BY DEF OnboardingStart, IInv, TypeOK
<1>2. CASE AssignFor(b, p)
  BY <1>1, <1>2, AssignForKeeps
<1>3. CASE UNCHANGED <<assigned, file, readable>>
  BY <1>1, <1>3, RowOnlyKeeps DEF IInv, TypeOK
<1>4. QED BY <1>2, <1>3 DEF OnboardingStart

THEOREM Inductive == IInv /\ [Next]_vars => IInv'
<1> SUFFICES ASSUME IInv, [Next]_vars PROVE IInv'
  OBVIOUS
<1>1. ASSUME NEW b \in Business, AssignNumber(b) PROVE IInv'
  BY <1>1, AssignForKeeps DEF AssignNumber, IInv, TypeOK
<1>2. ASSUME NEW b \in Business, ReleaseNumber(b) PROVE IInv'
  BY <1>2, ReleaseKeeps
<1>3. ASSUME NEW b \in Business, NEW p \in Phone, SignUp(b, p) PROVE IInv'
  BY <1>3, RowOnlyKeeps DEF SignUp, IInv, TypeOK
<1>4. ASSUME NEW b \in Business, NEW p \in Phone, OnboardingStart(b, p) PROVE IInv'
  BY <1>4, OnboardingStartKeeps
<1>5. ASSUME NEW b \in Business, NEW p \in Phone, SaveSettings(b, p) PROVE IInv'
  BY <1>5, RowOnlyKeeps DEF SaveSettings, IInv, TypeOK
<1>6. ASSUME NEW b \in Business, NEW p \in Phone, NEW n \in Number,
             CreateAdminCustomer(b, p, n)
      PROVE  IInv'
  BY <1>6, CreateAdminCustomerKeeps
<1>7. ASSUME NEW pasted \in SUBSET Number, AddNumbers(pasted) PROVE IInv'
  BY <1>7, AddNumbersKeeps
<1>8. ASSUME RestoreFile PROVE IInv'
  BY <1>8, RowOnlyKeeps DEF RestoreFile, IInv, TypeOK
<1>9. ASSUME UNCHANGED vars PROVE IInv'
  BY <1>9, RowOnlyKeeps DEF vars, IInv, TypeOK
<1>10. QED
  BY <1>1, <1>2, <1>3, <1>4, <1>5, <1>6, <1>7, <1>8, <1>9 DEF Next

THEOREM InvariantHolds == Spec => []IInv
BY InitIInv, Inductive, PTL DEF Spec

(* Neither a crash nor a torn write leaves a row or an entry that the code   *)
(* could not have written: every reachable state of both stores is typed.   *)
THEOREM Types == Spec => []TypeOK
<1>1. IInv => TypeOK BY DEF IInv
<1>2. QED BY <1>1, InvariantHolds, PTL

(* Whatever crashes between the row and the file, and whatever the file is  *)
(* left saying, no two businesses share a number.                           *)
THEOREM NumbersAreUnique == Spec => []UniqueNumber
<1>1. IInv => UniqueNumber BY DEF IInv
<1>2. QED BY <1>1, InvariantHolds, PTL

(* No entry of the file is stranded: the file never says that a business    *)
(* has a number its row does not have.                                      *)
THEOREM NoEntryStranded == Spec => []NoStrandedEntry
<1>1. IInv => NoStrandedEntry BY DEF IInv
<1>2. QED BY <1>1, InvariantHolds, PTL

-----------------------------------------------------------------------------
(* The pool implements NumberOwnership.                                     *)

LEMMA StepShapes ==
    ASSUME IInv, [Next]_vars
    PROVE  \/ UNCHANGED assigned
           \/ \E b \in Business : Clears(b)
           \/ \E b \in Business, n \in Number : Assigns(b, n)
<1>1. ASSUME NEW b \in Business, NEW p, AssignFor(b, p)
      PROVE  \E n \in Number : Assigns(b, n)
  BY <1>1, CandidatesUsable DEF AssignFor, Claim, Assigns
<1>2. ASSUME NEW b \in Business, AssignNumber(b)
      PROVE  \E n \in Number : Assigns(b, n)
  BY <1>1, <1>2 DEF AssignNumber
<1>3. ASSUME NEW b \in Business, ReleaseNumber(b)
      PROVE  UNCHANGED assigned \/ Clears(b)
  BY <1>3 DEF ReleaseNumber, Clears
<1>4. ASSUME NEW b \in Business, NEW p \in Phone, OnboardingStart(b, p)
      PROVE  UNCHANGED assigned \/ \E n \in Number : Assigns(b, n)
  BY <1>1, <1>4 DEF OnboardingStart
<1>5. ASSUME NEW b \in Business, NEW p \in Phone, NEW n \in Number,
             CreateAdminCustomer(b, p, n)
      PROVE  Assigns(b, n)
  BY <1>5 DEF CreateAdminCustomer, HasOwner, Assigns, IInv, OnlyRowsHold
<1>6. QED
  BY <1>2, <1>3, <1>4, <1>5 DEF Next, SignUp, SaveSettings, AddNumbers, RestoreFile, vars

LEMMA BorrowerIs ==
    ASSUME TypeOK, UniqueNumber
    PROVE  /\ \A b \in Business, n \in Number : Borrower[n] = b <=> assigned[b] = n
           /\ \A n \in Number : Borrower[n] = NoNumber
                                <=> \A b \in Business : assigned[b] # n
           /\ Borrower \in [Number -> Business \cup {NoNumber}]
<1>1. ASSUME NEW n \in Number, NEW b \in Business, assigned[b] = n
      PROVE  Borrower[n] = b
  <2>1. \A c \in Business : assigned[c] = n => c = b
    BY <1>1, NumberAssumption DEF UniqueNumber
  <2>2. QED BY <1>1, <2>1 DEF Borrower
<1>2. ASSUME NEW n \in Number, \A b \in Business : assigned[b] # n
      PROVE  Borrower[n] = NoNumber
  BY <1>2 DEF Borrower
<1>3. QED BY <1>1, <1>2, NumberAssumption DEF Borrower

LEMMA LendStep ==
    ASSUME IInv, IInv', NEW b \in Business, NEW n \in Number, Assigns(b, n)
    PROVE  Ownership!Lend(n, b)
<1>1. TypeOK /\ UniqueNumber /\ TypeOK' /\ UniqueNumber'
  BY DEF IInv
<1>2. \A c \in Business : assigned[c] # n
  BY NumberAssumption DEF Assigns, NumbersInUse, IInv, OnlyRowsHold
<1>3. Borrower[n] = NoNumber /\ \A m \in Number : Borrower[m] # b
  BY <1>1, <1>2, BorrowerIs, NumberAssumption DEF Assigns
<1>4. \A m \in Number : Borrower'[m] = IF m = n THEN b ELSE Borrower[m]
  <2>1. \A c \in Business : assigned'[c] = IF c = b THEN n ELSE assigned[c]
    BY <1>1 DEF Assigns, TypeOK
  <2>2. ASSUME NEW m \in Number PROVE Borrower'[m] = IF m = n THEN b ELSE Borrower[m]
    <3>1. CASE \E c \in Business : assigned'[c] = m
      <4>1. PICK c \in Business : assigned'[c] = m
        BY <3>1
      <4>2. Borrower'[m] = c
        BY <1>1, <4>1, BorrowerIs, NumberAssumption DEF UniqueNumber, Borrower
      <4>3. QED BY <4>1, <4>2, <2>1, <1>1, <1>2, BorrowerIs
    <3>2. CASE \A c \in Business : assigned'[c] # m
      <4>1. Borrower'[m] = NoNumber
        BY <3>2 DEF Borrower
      <4>2. m # n /\ \A c \in Business : assigned[c] # m
        BY <3>2, <2>1, NumberAssumption DEF Assigns
      <4>3. QED BY <4>1, <4>2, <1>1, BorrowerIs
    <3>3. QED BY <3>1, <3>2
  <2>3. QED BY <2>2
<1>5. Borrower' = [Borrower EXCEPT ![n] = b]
  BY <1>4 DEF Borrower
<1>6. QED BY <1>3, <1>5 DEF Ownership!Lend

LEMMA GiveBackStep ==
    ASSUME IInv, IInv', NEW b \in Business, Clears(b)
    PROVE  Borrower' = Borrower \/ \E n \in Number : Ownership!GiveBack(n)
<1>1. TypeOK /\ UniqueNumber /\ TypeOK' /\ UniqueNumber'
  BY DEF IInv
<1>2. CASE assigned[b] = NoNumber
  <2>1. assigned' = assigned
    BY <1>1, <1>2 DEF Clears, TypeOK
  <2>2. QED BY <2>1 DEF Borrower
<1>3. CASE assigned[b] # NoNumber
  <2>1. PICK n \in Number : assigned[b] = n
    BY <1>1, <1>3 DEF TypeOK
  <2>2. Borrower[n] = b
    BY <1>1, <2>1, BorrowerIs
  <2>3. \A m \in Number : Borrower'[m] = IF m = n THEN NoNumber ELSE Borrower[m]
    <3>1. \A c \in Business : assigned'[c] = IF c = b THEN NoNumber ELSE assigned[c]
      BY <1>1 DEF Clears, TypeOK
    <3>2. ASSUME NEW m \in Number
          PROVE  Borrower'[m] = IF m = n THEN NoNumber ELSE Borrower[m]
      <4>1. CASE \E c \in Business : assigned'[c] = m
        <5>1. PICK c \in Business : assigned'[c] = m
          BY <4>1
        <5>2. Borrower'[m] = c
          BY <1>1, <5>1, NumberAssumption DEF UniqueNumber, Borrower
        <5>3. c # b /\ m # n /\ assigned[c] = m
          BY <5>1, <3>1, <2>1, <1>1, NumberAssumption DEF UniqueNumber
        <5>4. QED BY <5>2, <5>3, <1>1, BorrowerIs
      <4>2. CASE \A c \in Business : assigned'[c] # m
        <5>1. Borrower'[m] = NoNumber
          BY <4>2 DEF Borrower
        <5>2. m # n => \A c \in Business : assigned[c] # m
          BY <4>2, <3>1, <2>1
        <5>3. QED BY <5>1, <5>2, <1>1, BorrowerIs
      <4>3. QED BY <4>1, <4>2
    <3>3. QED BY <3>2
  <2>4. Borrower' = [Borrower EXCEPT ![n] = NoNumber]
    BY <2>3 DEF Borrower
  <2>5. QED BY <2>2, <2>4, NumberAssumption DEF Ownership!GiveBack
<1>4. QED BY <1>2, <1>3

(* Every behaviour of the pool and the rows, crashes included, is one of    *)
(* the abstract lending: a number changes hands only by being given back.   *)
THEOREM PoolImplementsOwnership == Spec => ExclusiveLending
<1>1. Init => Ownership!Init
  BY NumberAssumption DEF Init, Ownership!Init, Borrower
<1>2. IInv /\ IInv' /\ [Next]_vars => [Ownership!Next]_(Ownership!vars)
  <2> SUFFICES ASSUME IInv, IInv', [Next]_vars
               PROVE  [Ownership!Next]_(Ownership!vars)
    OBVIOUS
  <2>1. CASE UNCHANGED assigned
    BY <2>1 DEF Ownership!vars, Borrower
  <2>2. ASSUME NEW b \in Business, Clears(b) PROVE [Ownership!Next]_(Ownership!vars)
    BY <2>2, GiveBackStep DEF Ownership!Next, Ownership!vars
  <2>3. ASSUME NEW b \in Business, NEW n \in Number, Assigns(b, n)
        PROVE  [Ownership!Next]_(Ownership!vars)
    BY <2>3, LendStep DEF Ownership!Next
  <2>4. QED BY <2>1, <2>2, <2>3, StepShapes
<1>3. QED
  BY <1>1, <1>2, InvariantHolds, PTL DEF Spec, ExclusiveLending, Ownership!Spec

-----------------------------------------------------------------------------
(* The area code of an assigned number.                                    *)
LeavesArea(b) ==
    /\ b \in rows
    /\ assigned[b] = NoNumber
    /\ assigned'[b] # NoNumber
    /\ AreaOf[assigned'[b]] # AreaOf[phone'[b]]

NoneNear(area) ==
    \A n \in Number : file[n] = Available /\ n \notin NumbersInUse => AreaOf[n] # area

(* Candidates() takes from the area whenever it has one: a number of       *)
(* another means that there was none, abroad as at home.                   *)
LEMMA CandidatesLocal ==
    ASSUME NEW p, NEW n \in Candidates(p), AreaOf[n] # AreaOf[p]
    PROVE  NoneNear(AreaOf[p])
<1> DEFINE local == {m \in Usable : AreaOf[m] = AreaOf[p]}
<1>1. CASE AreaOf[p] = NoArea
  BY <1>1, NumberAssumption DEF NoneNear
<1>2. CASE AreaOf[p] # NoArea /\ local # {}
  BY <1>2 DEF Candidates
<1>3. CASE local = {}
  BY <1>3 DEF NoneNear, Usable
<1>4. QED BY <1>1, <1>2, <1>3

LEMMA AssignForLocal ==
    ASSUME TypeOK, NEW b \in Business, NEW p, AssignFor(b, p), phone'[b] = p,
           NEW c \in Business, LeavesArea(c)
    PROVE  NoneNear(AreaOf[phone'[c]])
<1>1. PICK n \in Candidates(p) : Claim(b, n)
  BY DEF AssignFor
<1>2. assigned' = [assigned EXCEPT ![b] = n] /\ assigned \in [Business -> Number \cup {NoNumber}]
  BY <1>1 DEF Claim, TypeOK
<1>3. c = b /\ assigned'[b] = n
  BY <1>2 DEF LeavesArea
<1>4. AreaOf[n] # AreaOf[p]
  BY <1>3 DEF LeavesArea
<1>5. QED BY <1>1, <1>3, <1>4, CandidatesLocal

(* An automatic assignment leaves the area code of the owner only when no  *)
(* free number has it, through whichever route it comes (assignNumber,     *)
(* numbers-pool.ts:163).                                                   *)
THEOREM LocalNumbersFirst == Spec => LocalFirst
<1> DEFINE Local == \A b \in rows :
                       assigned[b] = NoNumber /\ assigned'[b] # NoNumber
                       /\ AreaOf[assigned'[b]] # AreaOf[phone'[b]]
                       => NoneNear(AreaOf[phone'[b]])
<1>1. IInv /\ [Next]_vars => [Local]_vars
  <2> SUFFICES ASSUME IInv, Next, NEW c \in rows, LeavesArea(c)
               PROVE  NoneNear(AreaOf[phone'[c]])
    BY DEF LeavesArea
  <2>1. TypeOK /\ c \in Business
    BY DEF IInv, TypeOK
  <2>2. ASSUME NEW b \in Business, AssignNumber(b)
        PROVE  NoneNear(AreaOf[phone'[c]])
    BY <2>1, <2>2, AssignForLocal DEF AssignNumber
  <2>3. ASSUME NEW b \in Business, NEW p \in Phone, OnboardingStart(b, p)
        PROVE  NoneNear(AreaOf[phone'[c]])
    <3>1. phone'[b] = p
      BY <2>1, <2>3 DEF OnboardingStart, TypeOK
    <3>2. AssignFor(b, p)
      BY <2>3 DEF OnboardingStart, LeavesArea
    <3>3. QED BY <2>1, <3>1, <3>2, AssignForLocal
  <2>4. ASSUME NEW b \in Business, NEW p \in Phone, NEW n \in Number,
               CreateAdminCustomer(b, p, n)
        PROVE  FALSE
    BY <2>1, <2>4 DEF CreateAdminCustomer, LeavesArea, TypeOK
  <2>5. ASSUME NEW b \in Business, ReleaseNumber(b)
        PROVE  FALSE
    BY <2>1, <2>5 DEF ReleaseNumber, LeavesArea, TypeOK
  <2>6. CASE assigned' = assigned
    BY <2>6 DEF LeavesArea
  <2>7. QED
    BY <2>2, <2>3, <2>4, <2>5, <2>6 DEF Next, SignUp, SaveSettings, AddNumbers, RestoreFile
<1>2. QED BY <1>1, InvariantHolds, PTL DEF Spec, LocalFirst, NoneNear
=============================================================================
