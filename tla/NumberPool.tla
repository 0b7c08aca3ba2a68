----------------------------- MODULE NumberPool -----------------------------
(***************************************************************************)
(* src/lib/numbers-pool.ts with the rows of the businesses table it reads  *)
(* and writes (src/lib/db.ts, src/lib/admin-customers.ts).                 *)
(*                                                                         *)
(* Two stores hold the same fact and no transaction spans them: the column *)
(* businesses.assignedNumber decides routing, and data/phone_numbers.json  *)
(* says which numbers exist and which are free.  The process may die       *)
(* between the write of one and the write of the other, and in the middle  *)
(* of writeFileSync, which truncates the file it rewrites.                 *)
(*                                                                         *)
(* A handler runs from one wait on the network to the next without being   *)
(* interrupted (one Node process, synchronous SQLite and file calls), so   *)
(* each is one action; what a crash leaves behind is a choice inside it.   *)
(***************************************************************************)
CONSTANTS
    Business,       \* ids that a row may have
    Number,         \* numbers in the strict pool format
    Phone,          \* values of businesses.phoneNumber, pool-format ones included
    AreaOf,         \* usAreaCode of a phone, NoArea when it has none
    NoArea,
    NoNumber,       \* assignedNumber IS NULL
    NoPhone,        \* the phone of an id that has no row
    Absent,         \* no entry of the file has this number
    Available       \* a free entry; an assigned one holds its business

ASSUME NumberAssumption ==
    /\ Number \subseteq Phone
    /\ NoNumber \notin Phone
    /\ NoPhone \notin Phone
    /\ NoNumber \notin Business
    /\ Absent \notin Business
    /\ Available \notin Business
    /\ Absent # Available
    /\ \A n \in Number : AreaOf[n] # NoArea       \* US_POOL_NUMBER_PATTERN

VARIABLES
    rows,       \* ids of the rows of the businesses table
    assigned,   \* column assignedNumber
    phone,      \* column phoneNumber
    file,       \* the entries of phone_numbers.json, by number
    readable    \* the file is valid JSON: readPool does not throw

vars == <<rows, assigned, phone, file, readable>>

TypeOK ==
    /\ rows \subseteq Business
    /\ assigned \in [Business -> Number \cup {NoNumber}]
    /\ phone \in [Business -> Phone \cup {NoPhone}]
    /\ file \in [Number -> {Absent, Available} \cup Business]
    /\ readable \in BOOLEAN

Init ==
    /\ rows = {}
    /\ assigned = [b \in Business |-> NoNumber]
    /\ phone = [b \in Business |-> NoPhone]
    /\ file = [n \in Number |-> Absent]
    /\ readable = TRUE

-----------------------------------------------------------------------------
(* The two stores.                                                         *)

(* Mutant of NumbersInUse: the file is asked, not the rows.                 *)
NumbersInUseByFile == {n \in Number : file[n] \in Business}

NumbersInUse == {assigned[b] : b \in rows} \ {NoNumber}

OwnerPhones == {phone[b] : b \in rows}

WriteWhole(entries) == file' = entries /\ UNCHANGED readable

(* The process dies inside writeFileSync, or the disk is full: the file no *)
(* longer parses, and the operator who restores it has the entries of      *)
(* before the write or those it was writing.                               *)
WriteTorn(entries) == file' \in {file, entries} /\ readable' = FALSE

WriteSkipped == UNCHANGED <<file, readable>>

(* A write made after the row was committed, whose failure is only logged. *)
BestEffortWrite(entries) ==
    WriteWhole(entries) \/ WriteTorn(entries) \/ WriteSkipped

-----------------------------------------------------------------------------
(* assignNumber.                                                           *)

Usable == {n \in Number : file[n] = Available /\ n \notin NumbersInUse}

(* Mutant of Candidates: no preference for the owner's area.                *)
CandidatesAnyArea(ownerPhone) == Usable

(* The owner's own area first, then any other.                             *)
Candidates(ownerPhone) ==
    LET local == {n \in Usable : AreaOf[n] = AreaOf[ownerPhone]}
    IN  IF AreaOf[ownerPhone] # NoArea /\ local # {} THEN local ELSE Usable

(* Mutant of Claim: a business that has a number is given another.          *)
ClaimAgain(b, n) ==
    /\ n \notin NumbersInUse
    /\ assigned' = [assigned EXCEPT ![b] = n]

(* claimBusinessNumber: one transaction.                                   *)
Claim(b, n) ==
    /\ assigned[b] = NoNumber
    /\ n \notin NumbersInUse
    /\ assigned' = [assigned EXCEPT ![b] = n]

AssignFor(b, ownerPhone) ==
    /\ readable
    /\ \E n \in Candidates(ownerPhone) :
           /\ Claim(b, n)
           /\ BestEffortWrite([file EXCEPT ![n] = b])

(* The Dodo webhook, the checkout return, the onboarding step and the      *)
(* admin's "Assign number" all end here.                                   *)
AssignNumber(b) ==
    /\ b \in rows
    /\ AssignFor(b, phone[b])
    /\ UNCHANGED <<rows, phone>>

-----------------------------------------------------------------------------
(* The other operations on the two stores.                                 *)

(* Mutant of ReleaseNumber: the row is cleared first, and a crash leaves   *)
(* the entry.                                                              *)
ReleaseRowFirst(b) ==
    LET mine     == {n \in Number : file[n] = b}
        freed(n) == [file EXCEPT ![n] = Available]
    IN  /\ b \in rows
        /\ readable
        /\ assigned' = [assigned EXCEPT ![b] = NoNumber]
        /\ \/ \E n \in mine : WriteWhole(freed(n))
           \/ UNCHANGED <<file, readable>>
        /\ UNCHANGED <<rows, phone>>

(* The entry is freed and written first, the row cleared after; a business *)
(* without an entry in the file only has its row cleared.                  *)
ReleaseNumber(b) ==
    LET mine     == {n \in Number : file[n] = b}
        freed(n) == [file EXCEPT ![n] = Available]
        clear    == assigned' = [assigned EXCEPT ![b] = NoNumber]
    IN  /\ b \in rows
        /\ readable
        /\ \/ /\ \E n \in mine : WriteWhole(freed(n))
              /\ clear \/ UNCHANGED assigned
           \/ /\ \E n \in mine : WriteTorn(freed(n))
              /\ UNCHANGED assigned
           \/ /\ mine = {}
              /\ clear
              /\ UNCHANGED <<file, readable>>
        /\ UNCHANGED <<rows, phone>>

(* A pasted line is skipped when it is in the file or on any row.          *)
AddNumbers(pasted) ==
    LET known == {n \in Number : file[n] # Absent} \cup NumbersInUse \cup OwnerPhones
        added == [n \in Number |-> IF n \in pasted \ known THEN Available ELSE file[n]]
    IN  /\ readable
        /\ added # file
        /\ WriteWhole(added) \/ WriteTorn(added)
        /\ UNCHANGED <<rows, assigned, phone>>

(* findNumberOwner: the file and the rows are both asked.                  *)
HasOwner(n) == file[n] \in Business \/ n \in NumbersInUse \/ n \in OwnerPhones

(* The row and its number in one transaction, the file after the commit.   *)
CreateAdminCustomer(b, ownerPhone, n) ==
    /\ b \notin rows
    /\ ownerPhone \notin OwnerPhones
    /\ readable
    /\ ~HasOwner(n)
    /\ rows' = rows \cup {b}
    /\ phone' = [phone EXCEPT ![b] = ownerPhone]
    /\ assigned' = [assigned EXCEPT ![b] = n]
    /\ BestEffortWrite([file EXCEPT ![n] = b])

(* createBillingSignup's new row: a phone that no row has yet.             *)
SignUp(b, ownerPhone) ==
    /\ b \notin rows
    /\ ownerPhone \notin OwnerPhones
    /\ rows' = rows \cup {b}
    /\ phone' = [phone EXCEPT ![b] = ownerPhone]
    /\ UNCHANGED <<assigned, file, readable>>

(* POST /api/onboarding/start: the row first, then the pool; nothing is    *)
(* assigned when the business has a number, the pool is empty or           *)
(* unreadable, or the process dies between the two.                        *)
OnboardingStart(b, ownerPhone) ==
    /\ b \in rows
    /\ phone' = [phone EXCEPT ![b] = ownerPhone]
    /\ AssignFor(b, ownerPhone) \/ UNCHANGED <<assigned, file, readable>>
    /\ UNCHANGED rows

(* POST /api/settings writes the phone as typed, and asks nothing.         *)
SaveSettings(b, typed) ==
    /\ b \in rows
    /\ phone' = [phone EXCEPT ![b] = typed]
    /\ UNCHANGED <<rows, assigned, file, readable>>

(* The operator restores the pool file.                                    *)
RestoreFile ==
    /\ ~readable
    /\ readable' = TRUE
    /\ UNCHANGED <<rows, assigned, phone, file>>

Next ==
    \/ \E b \in Business : AssignNumber(b) \/ ReleaseNumber(b)
    \/ \E b \in Business, p \in Phone :
           \/ SignUp(b, p)
           \/ OnboardingStart(b, p)
           \/ SaveSettings(b, p)
           \/ \E n \in Number : CreateAdminCustomer(b, p, n)
    \/ \E pasted \in SUBSET Number : AddNumbers(pasted)
    \/ RestoreFile

Spec == Init /\ [][Next]_vars

-----------------------------------------------------------------------------
(* Two businesses never hold the same number, whatever the file says: a    *)
(* call to a number reaches one dashboard (claimBusinessNumber).           *)
UniqueNumber ==
    \A b, c \in Business :
        assigned[b] # NoNumber /\ assigned[b] = assigned[c] => b = c

(* An entry the file calls assigned is the number of that business's row.  *)
(* An entry of a business whose row has another number, or none, could     *)
(* never be drawn again: assignNumber takes only free entries and Release  *)
(* frees an entry only through its business.  It holds across a crash      *)
(* because assignNumber writes row then file and releaseNumber the reverse.*)
NoStrandedEntry ==
    \A n \in Number : file[n] \in Business => assigned[file[n]] = n

(* A number moves from one business to another only by being given back,   *)
(* and a business that has one keeps it until then.                        *)
Borrower == [n \in Number |->
                IF \E b \in Business : assigned[b] = n
                THEN CHOOSE b \in Business : assigned[b] = n
                ELSE NoNumber]

Ownership == INSTANCE NumberOwnership
                WITH borrower <- Borrower, Nobody <- NoNumber

ExclusiveLending == Ownership!Spec

(* An automatic assignment leaves the owner's area only when no free entry *)
(* is in it (numbers-pool.ts, "Area-code preference").                     *)
LocalFirst ==
    [][\A b \in rows :
          assigned[b] = NoNumber /\ assigned'[b] # NoNumber
          /\ AreaOf[assigned'[b]] # AreaOf[phone'[b]]
          => \A n \in Number : file[n] = Available /\ n \notin NumbersInUse
                               => AreaOf[n] # AreaOf[phone'[b]]]_vars
=============================================================================
