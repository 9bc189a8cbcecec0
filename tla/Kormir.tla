------------------------------- MODULE Kormir -------------------------------
(***************************************************************************)
(* The kormir oracle (kormir/src) over its in-memory storage, called by    *)
(* several tasks at once: the tests and applications that hold a           *)
(* MemoryOracle, and the HTTP server behind KormirOracleClient.            *)
(*                                                                         *)
(* An announcement commits to one nonce per message it will sign: one for  *)
(* an enumeration, one per digit (and one for the sign) for a number.  A   *)
(* nonce is named by its derivation index.  Whoever sees two messages      *)
(* signed with one nonce can compute the key of the oracle, and a contract *)
(* relies on an event being attested once.                                 *)
(*                                                                         *)
(* A call that fails before it changes anything is not a step: it leaves   *)
(* every variable as it is.                                                *)
(***************************************************************************)
EXTENDS Integers, Sequences, FiniteSets, FiniteSetsExt, SequencesExt

CONSTANTS
    Tasks,          \* tasks that call the oracle
    EventIds,       \* identifiers of events; a client draws a fresh one (UUID)
    Outcomes,       \* outcomes of enumerations
    MaxNumber,      \* bound on the numbers the oracle is asked to sign
    DigitCounts,    \* numbers of digits an event may be asked for
    MaxDigits,      \* the most digits supported (63)
    MaxIndex,       \* bound on the nonces derived (2^31 in the code)
    None

ASSUME KormirAssumption ==
    /\ DigitCounts \subseteq Nat /\ MaxDigits \in Nat /\ MaxIndex \in Nat
    /\ MaxNumber \in Nat

VARIABLES
    counter,    \* MemoryStorage::current_index
    data,       \* MemoryStorage::data: the records of the events stored
    call,       \* the call each task is in, past its first storage access
    requested,  \* history: identifiers used in a request to create
    announced,  \* history: announcements that reached the caller
    released    \* history: attestations that reached a caller or a reader

kormir == <<counter, data, call, requested, announced, released>>

Numbers == -MaxNumber..MaxNumber

(* Event descriptors; the empty enumeration and the unsupported numbers of *)
(* digits are among the requests.                                          *)
Enum(S) == [enum |-> TRUE, outcomes |-> S, digits |-> 0, signed |-> FALSE]
Numeric(n, s) == [enum |-> FALSE, outcomes |-> {}, digits |-> n, signed |-> s]
Descriptors == {Enum({}), Enum(Outcomes)}
               \cup {Numeric(n, s) : n \in DigitCounts, s \in BOOLEAN}

NbNonces(d) == IF d.enum THEN 1 ELSE d.digits + (IF d.signed THEN 1 ELSE 0)

ValidDescriptor(d) ==
    IF d.enum THEN d.outcomes # {} ELSE d.digits \in 1..MaxDigits

-----------------------------------------------------------------------------
(* Numbers as signed messages.                                             *)

GetMaxValue(d) == 2^d.digits - 1
GetMinValue(d) == IF d.signed THEN -GetMaxValue(d) ELSE 0

AbsoluteValue(n) == IF n < 0 THEN -n ELSE n

(* format!("{:0width$b}"): at least nb_digits binary digits, more when the *)
(* number does not fit.                                                    *)
Binary(n, width) ==
    LET len == CHOOSE k \in width..(width + n) :
                   n < 2^k /\ (k = width \/ n >= 2^(k - 1))
    IN  [i \in 1..len |-> IF (n \div 2^(len - i)) % 2 = 1 THEN "1" ELSE "0"]

WithSign(d, n, digits) ==
    IF d.signed THEN <<IF n < 0 THEN "-" ELSE "+">> \o digits ELSE digits

(* Mutant: the low digits of the number asked for, without clamping it.    *)
NumericOutcomesUnclamped(d, n) ==
    WithSign(d, n, [i \in 1..d.digits |->
        IF (AbsoluteValue(n) \div 2^(d.digits - i)) % 2 = 1 THEN "1" ELSE "0"])

NumericOutcomes(d, n) ==
    LET clamped == IF n < GetMinValue(d) \/ n > GetMaxValue(d)
                   THEN Max({Min({n, GetMaxValue(d)}), GetMinValue(d)})
                   ELSE n
    IN  WithSign(d, clamped, Binary(AbsoluteValue(clamped), d.digits))

-----------------------------------------------------------------------------
(* Storage.  Its lock is held for the length of one access only, but it is *)
(* taken with try_write().unwrap(): the task that finds it held panics.    *)

Busy(t) == call[t] # None

SomeoneElseAccesses(t) == \E u \in Tasks \ {t} : Busy(u)

Panics(t) ==
    /\ Busy(t) /\ SomeoneElseAccesses(t)
    /\ call' = [call EXCEPT ![t] = None]
    /\ UNCHANGED <<counter, data, requested, announced, released>>

(* fetch_add: the indexes are used up whatever becomes of the call.        *)
GetNextNonceIndexes(n) ==
    /\ counter' = counter + n
    /\ counter + n <= MaxIndex

Indexes(n) == [i \in 1..n |-> counter + i - 1]

Drafted(t, id, d) ==
    [call EXCEPT ![t] = [op |-> "create", id |-> id, descriptor |-> d,
                         indexes |-> Indexes(NbNonces(d))]]

(* create_enum_event, create_numeric_event up to the call of storage: the  *)
(* nonces are derived before the request is looked at.                     *)
CreateEvent(t, id, d) ==
    /\ ~Busy(t) /\ id \notin requested
    /\ GetNextNonceIndexes(NbNonces(d))
    /\ requested' = requested \cup {id}
    /\ call' = IF ValidDescriptor(d) THEN Drafted(t, id, d) ELSE call
    /\ UNCHANGED <<data, announced, released>>

Announcement(c) == [id |-> c.id, descriptor |-> c.descriptor, indexes |-> c.indexes]

(* save_announcement, and the answer, which may be lost on its way.        *)
SaveAnnouncement(t) ==
    /\ Busy(t) /\ call[t].op = "create"
    /\ data' = [id \in DOMAIN data \cup {call[t].id} |->
                  IF id = call[t].id
                  THEN [descriptor |-> call[t].descriptor, indexes |-> call[t].indexes,
                        signatures |-> <<>>]
                  ELSE data[id]]
    /\ announced' \in {announced, announced \cup {Announcement(call[t])}}
    /\ call' = [call EXCEPT ![t] = None]
    /\ UNCHANGED <<counter, requested, released>>

(* sign_enum_event and sign_numeric_event up to the second call of         *)
(* storage, on the copy of the record that get_event returned.             *)
Messages(d, request) ==
    IF d.enum THEN <<request>> ELSE NumericOutcomes(d, request)

(* An enumeration is signed by sign_enum_event, a number by                *)
(* sign_numeric_event.                                                     *)
Requests(id) ==
    IF id \notin DOMAIN data THEN {}
    ELSE IF data[id].descriptor.enum THEN Outcomes ELSE Numbers

SignEvent(t, id, request) ==
    /\ ~Busy(t) /\ id \in DOMAIN data
    /\ data[id].signatures = <<>>
    /\ LET d == data[id].descriptor IN
       /\ d.enum => request \in d.outcomes
       /\ DOMAIN Messages(d, request) = DOMAIN data[id].indexes
       /\ call' = [call EXCEPT ![t] =
                     [op |-> "sign", id |-> id, indexes |-> data[id].indexes,
                      request |-> request, messages |-> Messages(d, request)]]
    /\ UNCHANGED <<counter, data, requested, announced, released>>

Attestation(c) ==
    [id |-> c.id, indexes |-> c.indexes, messages |-> c.messages, request |-> c.request]

StoreSignatures(t) ==
    /\ data' = [data EXCEPT ![call[t].id].signatures = call[t].messages]
    /\ released' \in {released, released \cup {Attestation(call[t])}}

(* Mutant: the second look at the record is left out.                      *)
SaveSignaturesUnchecked(t) ==
    /\ Busy(t) /\ call[t].op = "sign"
    /\ StoreSignatures(t)
    /\ call' = [call EXCEPT ![t] = None]
    /\ UNCHANGED <<counter, requested, announced>>

(* save_signatures looks at the record again under the lock: a task that   *)
(* signed the copy of an event another task signed meanwhile gets an error *)
(* and its signatures go nowhere.                                          *)
SaveSignatures(t) ==
    /\ Busy(t) /\ call[t].op = "sign"
    /\ IF data[call[t].id].signatures = <<>>
       THEN StoreSignatures(t)
       ELSE UNCHANGED <<data, released>>
    /\ call' = [call EXCEPT ![t] = None]
    /\ UNCHANGED <<counter, requested, announced>>

(* get_attestation.  Of an event that is not signed a MemoryOracle answers *)
(* an attestation with no signature, the server an error: nothing gets out.*)
GetAttestation(id) ==
    /\ id \in DOMAIN data /\ data[id].signatures # <<>>
    /\ released' = released \cup
         {[id |-> id, indexes |-> data[id].indexes,
           messages |-> data[id].signatures, request |-> None]}
    /\ UNCHANGED <<counter, data, call, requested, announced>>

-----------------------------------------------------------------------------

KormirInit ==
    /\ counter = 0
    /\ data = [id \in {} |-> None]
    /\ call = [t \in Tasks |-> None]
    /\ requested = {} /\ announced = {} /\ released = {}

KormirNext ==
    \/ \E t \in Tasks :
         \/ \E id \in EventIds, d \in Descriptors : CreateEvent(t, id, d)
         \/ \E id \in EventIds :
              \E request \in Requests(id) : SignEvent(t, id, request)
         \/ SaveAnnouncement(t)
         \/ SaveSignatures(t)
         \/ Panics(t)
    \/ \E id \in EventIds : GetAttestation(id)

KormirSpec == KormirInit /\ [][KormirNext]_kormir

-----------------------------------------------------------------------------
(* Properties.                                                             *)

(* What the history variables and the store hold: in particular every      *)
(* stored event has one nonce for each message it will sign, so that no    *)
(* event is announced that could not be attested.                          *)
KormirTypeOK ==
    /\ counter \in 0..MaxIndex
    /\ DOMAIN data \subseteq requested
    /\ \A id \in DOMAIN data :
         /\ data[id].descriptor \in Descriptors
         /\ ValidDescriptor(data[id].descriptor)
         /\ Len(data[id].indexes) = NbNonces(data[id].descriptor)
         /\ Len(data[id].signatures) \in {0, Len(data[id].indexes)}
    /\ \A a \in announced : a.id \in requested

(* Two tasks that sign one event at once, or sign it again after an answer *)
(* was lost, never let two messages signed with one nonce out, and no two  *)
(* announcements commit to one nonce, whatever calls fail, overlap or      *)
(* panic between drawing the indexes and storing the announcement          *)
(* (get_next_nonce_indexes, sign_enum_event, sign_numeric_event,           *)
(* save_signatures).                                                       *)
NonceSignsOnce ==
    /\ \A r, q \in released :
          \A i \in DOMAIN r.messages, j \in DOMAIN q.messages :
              r.indexes[i] = q.indexes[j] => r.id = q.id /\ i = j
                                             /\ r.messages[i] = q.messages[j]
    /\ \A a, b \in announced :
          a.id # b.id => ToSet(a.indexes) \cap ToSet(b.indexes) = {}

(* An announcement a party builds a contract on stays in the store as it   *)
(* was answered, so that it can be attested (create_enum_event,            *)
(* create_numeric_event, save_announcement).                               *)
AnnouncedIsKept ==
    \A a \in announced :
        /\ a.id \in DOMAIN data
        /\ data[a.id].descriptor = a.descriptor
        /\ data[a.id].indexes = a.indexes

(* The number a sequence of signed messages stands for.                    *)
NumberOf(d, m) ==
    LET digits == IF d.signed THEN Tail(m) ELSE m
        weight(i) == IF digits[i] = "1" THEN 2^(Len(digits) - i) ELSE 0
        n == FoldSet(LAMBDA i, acc : acc + weight(i), 0, DOMAIN digits)
    IN  IF d.signed /\ Head(m) = "-" THEN -n ELSE n

(* A number is attested as the representable number nearest to the one the *)
(* operator asked for, one message per nonce (sign_numeric_event).         *)
AttestsNearestNumber ==
    \A r \in released :
        LET d == data[r.id].descriptor IN
        r.request # None /\ ~d.enum =>
            \A n \in GetMinValue(d)..GetMaxValue(d) :
                AbsoluteValue(NumberOf(d, r.messages) - r.request)
                    <= AbsoluteValue(n - r.request)

(* What clients were answered stays true: announced events are in the      *)
(* store, and attestations are of the number asked for (save_announcement, *)
(* sign_numeric_event).                                                    *)
KormirInv == KormirTypeOK /\ AnnouncedIsKept /\ AttestsNearestNumber

=============================================================================
