--------------------------- MODULE TransactionIds ---------------------------
(***************************************************************************)
(* Transaction ids: 32 bits that wrap, compared modulo 2^32, next to full  *)
(* ids of 64 bits that do not.  Ids below FirstNormalTransactionId have a  *)
(* meaning of their own, so a counter steps over them after every wrap;    *)
(* full ids step over those that would look like one of them.              *)
(*                                                                         *)
(* The counter and the horizons are kept by compiled code, which assigns   *)
(* ids while none in use is so old that half the ids lie between: they are *)
(* external.  They start as initdb leaves them.                            *)
(***************************************************************************)
EXTENDS Integers

CONSTANTS Modulus,      \* 2^32
          MaxFull       \* a bound on the full ids

ASSUME TransactionIdAssumption ==
  Modulus \in Nat /\ Modulus > 8 /\ Modulus % 2 = 0

FirstNormalTransactionId == 3

VARIABLES nextXid,      \* the next transaction id, in 32 bits
          nextFullXid,  \* and in full
          oldestXid,    \* the oldest that is in use, in full
          latest        \* the latest that was assigned, in full, while the server runs

xidVars == <<nextXid, nextFullXid, oldestXid, latest>>

XidFromFullTransactionId(x) == x % Modulus
FullTransactionIdIsNormal(x) == x >= FirstNormalTransactionId

\* A variant that forgets that ids wrap.
AdvanceUnchecked(xid) == (xid + 1) % Modulus

TransactionIdAdvance(xid) ==
  LET dest == (xid + 1) % Modulus
  IN IF dest < FirstNormalTransactionId THEN FirstNormalTransactionId ELSE dest

TransactionIdRetreat(xid) ==
  LET dest == (xid - 1) % Modulus
  IN IF dest < FirstNormalTransactionId THEN Modulus - 1 ELSE dest

TransactionIdRetreatedBy(xid, amount) ==
  LET dest == (xid - amount) % Modulus
  IN IF dest < FirstNormalTransactionId THEN Modulus - 1 ELSE dest

\* Special ids are at most three in a row: the loops, in closed form.
Up(x) ==
  IF XidFromFullTransactionId(x) < FirstNormalTransactionId
    THEN x + FirstNormalTransactionId - XidFromFullTransactionId(x) ELSE x
Down(x) ==
  IF XidFromFullTransactionId(x) < FirstNormalTransactionId
    THEN x - XidFromFullTransactionId(x) - 1 ELSE x

FullTransactionIdAdvance(x) ==
  IF ~FullTransactionIdIsNormal(x + 1) THEN x + 1 ELSE Up(x + 1)

\* A variant that does not step over ids.
RetreatByOne(x) == x - 1

FullTransactionIdRetreat(x) ==
  IF ~FullTransactionIdIsNormal(x - 1) THEN x - 1 ELSE Down(x - 1)

\* A variant that compares the ids as they are.
PrecedesUnsigned(id1, id2) == id1 < id2

\* (int32) (id1 - id2) < 0
NormalTransactionIdPrecedes(id1, id2) == (id1 - id2) % Modulus >= Modulus \div 2

NormalTransactionIdFollows(id1, id2) ==
  (id1 - id2) % Modulus \in 1..(Modulus \div 2) - 1

InvalidFullTransactionId == 0

XidInit ==
  /\ nextXid = FirstNormalTransactionId /\ nextFullXid = FirstNormalTransactionId
  /\ oldestXid = FirstNormalTransactionId
  /\ latest = InvalidFullTransactionId

\* StartupXLOG: what is known is the next id.
StartUp ==
  /\ latest = InvalidFullTransactionId
  /\ latest' = FullTransactionIdRetreat(nextFullXid)
  /\ UNCHANGED <<nextXid, nextFullXid, oldestXid>>

\* A shutdown or a crash.
Stop ==
  /\ latest # InvalidFullTransactionId
  /\ latest' = InvalidFullTransactionId
  /\ UNCHANGED <<nextXid, nextFullXid, oldestXid>>

\* GetNewTransactionId, before the oldest id gets too old.
AssignXid ==
  /\ latest # InvalidFullTransactionId
  /\ nextFullXid <= MaxFull
  /\ nextFullXid + 1 < oldestXid + (Modulus \div 2) - FirstNormalTransactionId
  /\ nextXid' = TransactionIdAdvance(nextXid)
  /\ nextFullXid' = FullTransactionIdAdvance(nextFullXid)
  /\ latest' = nextFullXid
  /\ UNCHANGED oldestXid

\* VACUUM: older ids are frozen.
AdvanceOldest ==
  /\ oldestXid < nextFullXid
  /\ oldestXid' = FullTransactionIdAdvance(oldestXid)
  /\ UNCHANGED <<nextXid, nextFullXid, latest>>

XidNext == StartUp \/ Stop \/ AssignXid \/ AdvanceOldest

XidSpec == XidInit /\ [][XidNext]_xidVars

-----------------------------------------------------------------------------
(* Properties. *)

\* The ids that have been in use from the oldest one to the next.
InUse ==
  {x \in oldestXid..nextFullXid :
     XidFromFullTransactionId(x) >= FirstNormalTransactionId}

\* The counter of 32 bits and the full one stay the same id, which is never a
\* special one, through every wrap.  After a restart a retreat finds the id that was
\* assigned last, in full and in 32 bits; and one by an amount, the id so far back.
CountersAgree ==
  /\ nextXid = XidFromFullTransactionId(nextFullXid)
  /\ nextXid >= FirstNormalTransactionId
  /\ latest # InvalidFullTransactionId =>
       /\ latest < nextFullXid
       /\ FullTransactionIdAdvance(latest) = nextFullXid
       /\ nextFullXid > FirstNormalTransactionId =>
            /\ XidFromFullTransactionId(latest) >= FirstNormalTransactionId
            /\ TransactionIdRetreat(nextXid) = XidFromFullTransactionId(latest)
  /\ \A x \in InUse :
       TransactionIdRetreatedBy(nextXid, nextFullXid - x) = XidFromFullTransactionId(x)

\* Of two ids in use the one that was assigned first precedes the other, also when
\* the 32 bits have wrapped in between, and exactly then the other one follows it.
OrderKept ==
  \A x, y \in InUse :
    LET id1 == XidFromFullTransactionId(x)
        id2 == XidFromFullTransactionId(y)
    IN /\ NormalTransactionIdPrecedes(id1, id2) <=> x < y
       /\ NormalTransactionIdFollows(id1, id2) <=> x > y

=============================================================================
