--------------------------- MODULE SmsCodesProofs ---------------------------
(***************************************************************************)
(* Proofs about SmsCodes, for any phones, purposes, codes, callers, limits *)
(* and midnights.  Only Write creates rows and moves what the limits count *)
(* (the other steps keep the phones, purposes and times of all rows, and   *)
(* make no code live again: Keeps).  What it writes was checked earlier,   *)
(* so the invariant carries the check to the write: nobody else holds the  *)
(* lock of the phone, and what was counted then is what is there now.      *)
(***************************************************************************)
EXTENDS SmsCodes, FiniteSetTheorems, TLAPS

Granted(r) == issue[r].pc = "granted"

\* The lock of a phone has one holder.
OneHolder ==
    \A r, s \in Issuer : Granted(r) /\ Granted(s) /\ issue[r].phone = issue[s].phone => r = s

\* What the holder has checked is still so.
CheckHolds ==
    \A r \in Issuer : Granted(r) =>
        /\ issue[r].now <= clock
        /\ Cardinality(Today(issue[r].phone, issue[r].now)) < Limit
        /\ \A e \in Of(issue[r].phone) : issue[r].now - row[e].createdAt >= Interval

IndInv == TypeOK /\ RateLimited /\ OneLiveCode /\ OneHolder /\ CheckHolds

-----------------------------------------------------------------------------
(* Steps that write no new code                                            *)

Keeps ==
    \A c \in Code :
        /\ Exists(c)' <=> Exists(c)
        /\ Exists(c) => /\ row'[c].phone = row[c].phone
                        /\ row'[c].purpose = row[c].purpose
                        /\ row'[c].createdAt = row[c].createdAt
                        /\ Live(c)' => Live(c)

LEMMA RowsTyped ==
  ASSUME TypeOK, NEW c \in Code, Exists(c)
  PROVE  row[c] \in Row
  BY DEF TypeOK, Exists

LEMMA KeepsRows ==
  ASSUME Keeps
  PROVE  /\ \A p : Of(p)' = Of(p)
         /\ \A p, t : Today(p, t)' = Today(p, t)
         /\ RateLimited => RateLimited'
         /\ OneLiveCode => OneLiveCode'
<1>1. \A p : Of(p)' = Of(p)
  BY DEF Keeps, Of
<1>2. ASSUME NEW p, NEW t
      PROVE  Today(p, t)' = Today(p, t)
  <2>1. \A c \in Of(p) : row'[c].createdAt = row[c].createdAt
    BY DEF Keeps, Of
  <2> QED
    BY <1>1, <2>1 DEF Today
<1>3. ASSUME NEW c \in Code, Exists(c)
      PROVE  UpTo(c)' = UpTo(c) /\ DayOf(c)' = DayOf(c)
  <2>1. row'[c].phone = row[c].phone /\ row'[c].createdAt = row[c].createdAt
    BY <1>3 DEF Keeps
  <2>2. \A e \in Code : Exists(e) => row'[e].phone = row[e].phone /\ row'[e].createdAt = row[e].createdAt
    BY DEF Keeps
  <2>3. \A e \in Code : Exists(e)' <=> Exists(e)
    BY DEF Keeps
  <2>4. UpTo(c)' = UpTo(c)
    BY <2>1, <2>2, <2>3 DEF UpTo, Of
  <2>5. Today(row[c].phone, row[c].createdAt)' = Today(row[c].phone, row[c].createdAt)
    BY <2>1, <2>2, <2>3 DEF Today, Of
  <2> QED
    BY <2>4, <2>5 DEF DayOf
<1>4. RateLimited => RateLimited'
  <2> SUFFICES ASSUME RateLimited, NEW c \in Code, Exists(c)'
               PROVE  (/\ Cardinality(DayOf(c)) <= Limit
                       /\ \A e \in UpTo(c) \ {c} : row[c].createdAt - row[e].createdAt >= Interval)'
    BY DEF RateLimited
  <2>1. Exists(c) /\ row'[c].createdAt = row[c].createdAt
    BY DEF Keeps
  <2>2. \A e \in UpTo(c) : row'[e].createdAt = row[e].createdAt
    BY DEF Keeps, UpTo, Of
  <2> QED
    BY <1>3, <2>1, <2>2 DEF RateLimited
<1>5. OneLiveCode => OneLiveCode'
  BY DEF Keeps, OneLiveCode, Live
<1> QED
  BY <1>1, <1>2, <1>4, <1>5

\* The checks of the holders survive, as time passes or holders go.
LEMMA KeepsChecks ==
  ASSUME IndInv, Keeps, clock' >= clock, clock' \in Nat,
         \A r \in Issuer : issue'[r] = issue[r] \/ issue'[r] = Idle
  PROVE  RateLimited' /\ OneLiveCode' /\ OneHolder' /\ CheckHolds'
<1>1. RateLimited' /\ OneLiveCode'
  BY KeepsRows DEF IndInv
<1>2. OneHolder'
  BY DEF IndInv, OneHolder, Granted, Idle
<1>3. ASSUME NEW r \in Issuer, Granted(r)'
      PROVE  /\ issue'[r] = issue[r]
             /\ issue[r].now <= clock'
             /\ Cardinality(Today(issue[r].phone, issue[r].now)') < Limit
             /\ \A e \in Of(issue[r].phone)' : issue[r].now - row'[e].createdAt >= Interval
  <2>1. issue'[r] = issue[r] /\ Granted(r)
    BY <1>3 DEF Granted, Idle
  <2>2. issue[r].now \in Nat /\ clock \in Nat
    BY <2>1 DEF IndInv, TypeOK, Issuing, Granted, Idle
  <2>3. \A e \in Of(issue[r].phone)' : row'[e].createdAt = row[e].createdAt
    BY KeepsRows DEF Keeps, Of
  <2> QED
    BY <2>1, <2>2, <2>3, KeepsRows DEF IndInv, CheckHolds
<1>4. CheckHolds'
  BY <1>3 DEF CheckHolds
<1> QED
  BY <1>1, <1>2, <1>4

-----------------------------------------------------------------------------
(* The step that writes a code                                             *)

\* The row is well-formed, the others lose at most their life, and the holder's
\* check speaks of them.
LEMMA WriteShape ==
  ASSUME IndInv, NEW r \in Issuer, NEW c \in Code, Write(r, c)
  PROVE  /\ issue[r].phone \in Phone /\ issue[r].purpose \in Purpose /\ issue[r].now \in Nat
         /\ clock \in Nat /\ issue[r].now <= clock
         /\ ~Exists(c) /\ row'[c] \in Row /\ Exists(c)'
         /\ row'[c].phone = issue[r].phone /\ row'[c].purpose = issue[r].purpose
         /\ row'[c].createdAt = clock /\ ~row'[c].consumed /\ ~row'[c].superseded
         /\ \A e \in Code \ {c} :
              /\ Exists(e)' <=> Exists(e)
              /\ Exists(e) => /\ row'[e] \in Row
                              /\ row'[e].phone = row[e].phone
                              /\ row'[e].purpose = row[e].purpose
                              /\ row'[e].createdAt = row[e].createdAt
                              /\ row'[e].consumed = row[e].consumed
                              /\ row'[e].attempts = row[e].attempts
                              /\ row'[e].expiresAt = row[e].expiresAt
                              /\ Live(e)' <=> Live(e) /\ e \notin LiveOf(issue[r].phone, issue[r].purpose)
                              /\ row'[e].superseded =>
                                   row[e].superseded \/ ~row[e].consumed
         /\ \A e \in Of(issue[r].phone) : clock - row[e].createdAt >= Interval /\ row[e].createdAt < clock
<1>0. TypeOK
  BY DEF IndInv
<1>1. /\ issue[r].phone \in Phone /\ issue[r].purpose \in Purpose /\ issue[r].now \in Nat
      /\ clock \in Nat
  BY <1>0 DEF TypeOK, Write, Issuing, Idle
<1>2. issue[r].now <= clock
  BY DEF IndInv, CheckHolds, Granted, Write
<1>3. row'[c] = NewRow(r) /\ ~Exists(c)
  BY DEF Write
<1>4. /\ row'[c] \in Row
      /\ row'[c].phone = issue[r].phone /\ row'[c].purpose = issue[r].purpose
      /\ row'[c].createdAt = clock /\ ~row'[c].consumed /\ ~row'[c].superseded
  BY <1>1, <1>3, LimitAssumption DEF NewRow, Row
<1>5. ASSUME NEW e \in Code \ {c}
      PROVE  /\ Exists(e)' <=> Exists(e)
             /\ Exists(e) => /\ row'[e] \in Row
                             /\ row'[e].phone = row[e].phone
                             /\ row'[e].purpose = row[e].purpose
                             /\ row'[e].createdAt = row[e].createdAt
                             /\ row'[e].consumed = row[e].consumed
                             /\ row'[e].attempts = row[e].attempts
                             /\ row'[e].expiresAt = row[e].expiresAt
                             /\ Live(e)' <=> Live(e) /\ e \notin LiveOf(issue[r].phone, issue[r].purpose)
                             /\ row'[e].superseded =>
                                  row[e].superseded \/ ~row[e].consumed
  <2>1. CASE e \in LiveOf(issue[r].phone, issue[r].purpose)
    <3>1. row'[e] = [row[e] EXCEPT !.superseded = TRUE] /\ Live(e) /\ Exists(e)
      BY <2>1 DEF Write, Superseded, LiveOf, Live
    <3>2. row[e] \in Row
      BY <1>0, <3>1, RowsTyped
    <3>3. row'[e] \in Row /\ row'[e].superseded
      BY <3>1, <3>2 DEF Row
    <3> QED
      BY <2>1, <3>1, <3>2, <3>3, NoneAssumption DEF Live, Exists, Row
  <2>2. CASE e \notin LiveOf(issue[r].phone, issue[r].purpose)
    <3>1. row'[e] = row[e]
      BY <2>2 DEF Write, Superseded
    <3> QED
      BY <1>0, <2>2, <3>1, RowsTyped DEF Live, Exists
  <2> QED
    BY <2>1, <2>2
<1>6. ASSUME NEW e \in Of(issue[r].phone)
      PROVE  clock - row[e].createdAt >= Interval /\ row[e].createdAt < clock
  <2>1. row[e].createdAt \in Nat
    BY <1>0, RowsTyped DEF Of, Row
  <2>2. issue[r].now - row[e].createdAt >= Interval
    BY DEF IndInv, CheckHolds, Granted, Write
  <2> QED
    BY <1>1, <1>2, <2>1, <2>2, LimitAssumption
<1> QED
  BY <1>1, <1>2, <1>3, <1>4, <1>5, <1>6, NoneAssumption DEF Exists

LEMMA WriteLimits ==
  ASSUME IndInv, NEW r \in Issuer, NEW c \in Code, Write(r, c)
  PROVE  RateLimited'
<1> DEFINE p == issue[r].phone
<1>1. row'[c].phone = p /\ row'[c].createdAt = clock /\ clock \in Nat
  BY WriteShape
<1>2. ASSUME NEW x \in Code \ {c}, Exists(x)'
      PROVE  /\ Cardinality(DayOf(x)') <= Limit
             /\ \A e \in UpTo(x)' \ {x} : row'[x].createdAt - row'[e].createdAt >= Interval
  <2>1. Exists(x) /\ row'[x].phone = row[x].phone /\ row'[x].createdAt = row[x].createdAt
    BY <1>2, WriteShape
  <2>2. row[x].createdAt \in Nat
    BY <2>1, RowsTyped DEF IndInv, Row
  <2>3. row[x].phone = p => row[x].createdAt < clock
    BY <2>1, WriteShape DEF Of
  <2>4. c \notin UpTo(x)'
    BY <1>1, <2>1, <2>2, <2>3 DEF UpTo, Of
  <2>5. UpTo(x)' = UpTo(x) /\ \A e \in UpTo(x) : row'[e].createdAt = row[e].createdAt
    BY <2>1, <2>4, WriteShape DEF UpTo, Of
  <2>6. DayOf(x)' = DayOf(x)
    BY <2>1, <2>5, WriteShape DEF DayOf, Today, UpTo, Of
  <2> QED
    BY <2>1, <2>5, <2>6 DEF IndInv, RateLimited
<1>3. Cardinality(DayOf(c)') <= Limit
  <2> DEFINE T == Today(p, issue[r].now)
  <2>1. Cardinality(T) < Limit
    BY DEF IndInv, CheckHolds, Granted, Write
  <2>2. IsFiniteSet(T)
    <3>1. T \in SUBSET Code
      BY DEF Today, Of
    <3> QED
      BY <3>1, CodeAssumption, FS_Subset
  <2>3. ASSUME NEW e \in DayOf(c)', e # c
        PROVE  e \in T
    <3>1. e \in Code /\ Exists(e) /\ row[e].phone = p /\ row'[e].createdAt = row[e].createdAt
      BY <1>1, <2>3, WriteShape DEF DayOf, UpTo, Of
    <3>2. \A m \in Midnights : m <= clock => m <= row[e].createdAt
      BY <1>1, <2>3, <3>1 DEF DayOf, Today
    <3>3. \A m \in Midnights : m <= issue[r].now => m <= clock
      BY WriteShape, LimitAssumption
    <3> QED
      BY <3>1, <3>2, <3>3 DEF Today, Of
  <2>4. DayOf(c)' \in SUBSET (T \cup {c})
    BY <2>3
  <2>5. IsFiniteSet(T \cup {c}) /\ Cardinality(T \cup {c}) <= Cardinality(T) + 1
    <3>1. IsFiniteSet(T \cup {c})
          /\ Cardinality(T \cup {c}) = IF c \in T THEN Cardinality(T) ELSE Cardinality(T) + 1
      BY <2>2, FS_AddElement
    <3>2. Cardinality(T) \in Nat
      BY <2>2, FS_CardinalityType
    <3> HIDE DEF T
    <3> QED
      BY <3>1, <3>2
  <2>6. Cardinality(DayOf(c)') <= Cardinality(T \cup {c})
    BY <2>4, <2>5, FS_Subset
  <2>7. Cardinality(DayOf(c)') \in Nat /\ Cardinality(T) \in Nat /\ Cardinality(T \cup {c}) \in Nat
    BY <2>2, <2>4, <2>5, FS_Subset, FS_CardinalityType
  <2> QED
    BY <2>1, <2>5, <2>6, <2>7, LimitAssumption
<1>4. ASSUME NEW e \in UpTo(c)' \ {c}
      PROVE  row'[c].createdAt - row'[e].createdAt >= Interval
  <2>1. e \in Of(p) /\ row'[e].createdAt = row[e].createdAt
    BY <1>1, <1>4, WriteShape DEF UpTo, Of
  <2> QED
    BY <1>1, <2>1, WriteShape
<1> QED
  BY <1>2, <1>3, <1>4 DEF RateLimited

LEMMA WriteInvariants ==
  ASSUME IndInv, NEW r \in Issuer, NEW c \in Code, Write(r, c)
  PROVE  IndInv'
<1>0. TypeOK
  BY DEF IndInv
<1>1. TypeOK'
  <2>1. row' \in [Code -> Row \cup {None}]
    <3>1. row' = [e \in Code |-> row'[e]]
      BY DEF Write
    <3>2. \A e \in Code : row'[e] \in Row \cup {None}
      BY WriteShape DEF Exists
    <3> QED
      BY <3>1, <3>2
  <2>2. \A e \in Code : Exists(e)' => ~(row'[e].consumed /\ row'[e].superseded)
    BY <1>0, WriteShape DEF TypeOK
  <2>3. clock' \in Nat /\ issue' \in [Issuer -> Issuing] /\ verify' \in [Verifier -> Verifying]
    BY <1>0 DEF TypeOK, Write, Issuing
  <2> QED
    BY <2>1, <2>2, <2>3 DEF TypeOK
<1>2. OneLiveCode'
  <2> SUFFICES ASSUME NEW d \in Code, NEW e \in Code, Live(d)', Live(e)',
                      row'[d].phone = row'[e].phone, row'[d].purpose = row'[e].purpose, d # e
               PROVE  FALSE
    BY DEF OneLiveCode
  <2>1. \A x \in Code : Live(x)' => Exists(x)'
    BY DEF Live
  <2>2. \A x \in Code \ {c} : Live(x)' => Exists(x)
    BY <2>1, WriteShape
  <2>3. ASSUME NEW x \in Code \ {c}, Live(x)', row'[x].phone = row'[c].phone,
               row'[x].purpose = row'[c].purpose
        PROVE  FALSE
    <3>1. Live(x) /\ Exists(x) /\ x \notin LiveOf(issue[r].phone, issue[r].purpose)
          /\ row[x].phone = issue[r].phone /\ row[x].purpose = issue[r].purpose
      BY <2>2, <2>3, WriteShape
    <3> QED
      BY <3>1 DEF LiveOf, Of
  <2>4. d # c /\ e # c
    BY <2>3
  <2> QED
    BY <2>2, <2>4, WriteShape DEF IndInv, OneLiveCode
<1>3. ASSUME NEW s \in Issuer, Granted(s)'
      PROVE  s # r /\ issue'[s] = issue[s] /\ Granted(s) /\ issue[s].phone # issue[r].phone
  <2>1. s # r
    BY <1>0, <1>3 DEF Write, Granted, Idle, TypeOK
  <2>2. issue'[s] = issue[s] /\ Granted(s)
    BY <1>3, <2>1 DEF Write, Granted
  <2> QED
    BY <2>1, <2>2 DEF IndInv, OneHolder, Granted, Write
<1>4. OneHolder'
  BY <1>3 DEF IndInv, OneHolder
<1>5. ASSUME NEW s \in Issuer, Granted(s)'
      PROVE  /\ issue'[s].now <= clock'
             /\ Cardinality(Today(issue[s].phone, issue[s].now)') < Limit
             /\ \A e \in Of(issue[s].phone)' : issue[s].now - row'[e].createdAt >= Interval
  <2>1. issue'[s] = issue[s] /\ Granted(s) /\ issue[s].phone # issue[r].phone
    BY <1>3, <1>5
  <2>2. clock' = clock
    BY DEF Write
  <2>3. row'[c].phone = issue[r].phone
    BY WriteShape
  <2>4. \A e \in Code : Exists(e)' /\ row'[e].phone = issue[s].phone
                        <=> Exists(e) /\ row[e].phone = issue[s].phone
    BY <2>1, <2>3, WriteShape
  <2>5. \A e \in Code : Exists(e) => row'[e].createdAt = row[e].createdAt
    BY WriteShape
  <2>6. {e \in Code : Exists(e)' /\ row'[e].phone = issue[s].phone} = Of(issue[s].phone)
    BY <2>4 DEF Of
  <2>7. Of(issue[s].phone)' = Of(issue[s].phone)
    BY <2>1, <2>6 DEF Of
  <2>8. Today(issue[s].phone, issue[s].now)' = Today(issue[s].phone, issue[s].now)
    BY <2>1, <2>5, <2>7 DEF Today, Of
  <2> QED
    BY <2>1, <2>2, <2>5, <2>7, <2>8 DEF IndInv, CheckHolds, Of
<1>6. CheckHolds'
  BY <1>3, <1>5 DEF CheckHolds
<1> QED
  BY <1>1, <1>2, <1>4, <1>6, WriteLimits DEF IndInv

-----------------------------------------------------------------------------
(* The invariant                                                           *)

\* One row that changes and keeps its phone, purpose and time.
LEMMA OneRowKeeps ==
  ASSUME TypeOK, NEW c \in Code, Valid(c),
         \/ row' = [row EXCEPT ![c].consumed = TRUE]
         \/ row' = [row EXCEPT ![c].attempts = @ + 1]
  PROVE  /\ Keeps
         /\ row' \in [Code -> Row \cup {None}]
         /\ \A e \in Code : Exists(e)' => ~(row'[e].consumed /\ row'[e].superseded)
<1>1. row[c] \in Row /\ row[c].attempts < MaxAttempts /\ ~row[c].superseded /\ Exists(c)
  BY RowsTyped DEF Valid, Live
<1>2. /\ row'[c] \in Row
      /\ row'[c].phone = row[c].phone /\ row'[c].purpose = row[c].purpose
      /\ row'[c].createdAt = row[c].createdAt /\ row'[c].superseded = row[c].superseded
  <2>1. CASE row' = [row EXCEPT ![c].consumed = TRUE]
    BY <1>1, <2>1 DEF TypeOK, Row
  <2>2. CASE row' = [row EXCEPT ![c].attempts = @ + 1]
    <3>1. row[c].attempts + 1 \in 0..MaxAttempts
      BY <1>1, LimitAssumption DEF Row
    <3> QED
      BY <1>1, <2>2, <3>1 DEF TypeOK, Row
  <2> QED
    BY <2>1, <2>2
<1>3. \A e \in Code \ {c} : row'[e] = row[e]
  BY DEF TypeOK
<1>4. row' = [e \in Code |-> row'[e]]
  BY DEF TypeOK
<1>5. Exists(c)' /\ Live(c)
  BY <1>2, NoneAssumption DEF Exists, Valid
<1>6. Keeps
  BY <1>1, <1>2, <1>3, <1>5 DEF Keeps, Exists, Live
<1>7. row' \in [Code -> Row \cup {None}]
  BY <1>2, <1>3, <1>4 DEF TypeOK
<1> QED
  BY <1>1, <1>2, <1>3, <1>6, <1>7 DEF TypeOK, Exists

LEMMA SameRowsKeep == row' = row => Keeps
  BY DEF Keeps, Exists, Live

LEMMA InitInvariant == Init => IndInv
<1> SUFFICES ASSUME Init PROVE IndInv
  OBVIOUS
<1>1. \A c \in Code : ~Exists(c)
  BY DEF Init, Exists
<1>2. \A r \in Issuer : ~Granted(r)
  BY DEF Init, Granted, Idle
<1>3. TypeOK
  BY <1>1, LimitAssumption DEF Init, TypeOK, Issuing, Verifying
<1>4. RateLimited /\ OneLiveCode
  BY <1>1 DEF RateLimited, OneLiveCode, Live
<1> QED
  BY <1>2, <1>3, <1>4 DEF IndInv, OneHolder, CheckHolds

LEMMA NextInvariant == IndInv /\ [Next]_vars => IndInv'
<1> SUFFICES ASSUME IndInv, [Next]_vars PROVE IndInv'
  OBVIOUS
<1>0. TypeOK /\ clock \in Nat
  BY DEF IndInv, TypeOK
<1>1. ASSUME NEW r \in Issuer, NEW p \in Phone, NEW k \in Purpose, Grant(r, p, k) PROVE IndInv'
  <2>1. RateLimited' /\ OneLiveCode' /\ Keeps
    BY <1>1, SameRowsKeep, KeepsRows DEF Grant, IndInv
  <2>2. issue'[r] = [pc |-> "granted", phone |-> p, purpose |-> k, now |-> clock]
        /\ \A s \in Issuer \ {r} : issue'[s] = issue[s]
    BY <1>0, <1>1 DEF Grant, TypeOK
  <2>3. TypeOK'
    <3>1. issue' \in [Issuer -> Issuing]
      BY <1>0, <1>1 DEF Grant, TypeOK, Issuing
    <3> QED
      BY <1>0, <1>1, <3>1 DEF Grant, TypeOK, Exists
  <2>4. \A s \in Issuer \ {r} : Granted(s) => issue[s].phone # p
    BY <1>1 DEF Grant, Locked, Conflicts, Granted
  <2>5. OneHolder'
    BY <2>2, <2>4 DEF IndInv, OneHolder, Granted
  <2>6. CheckHolds'
    <3>1. \A e \in Of(p)' : clock - row'[e].createdAt >= Interval
      BY <1>1, <2>1, KeepsRows DEF Grant, Spaced
    <3>2. Cardinality(Today(p, clock)') < Limit
      BY <1>1, <2>1, KeepsRows DEF Grant
    <3>3. clock' = clock
      BY <1>1 DEF Grant
    <3>4. ASSUME NEW s \in Issuer \ {r}, Granted(s)
          PROVE  /\ issue[s].now <= clock
                 /\ Cardinality(Today(issue[s].phone, issue[s].now)') < Limit
                 /\ \A e \in Of(issue[s].phone)' : issue[s].now - row'[e].createdAt >= Interval
      <4>1. row' = row
        BY <1>1 DEF Grant
      <4> QED
        BY <2>1, <2>2, <3>4, <4>1, KeepsRows DEF IndInv, CheckHolds
    <3>5. Today(issue'[r].phone, issue'[r].now) = Today(p, clock) /\ row' = row
      BY <1>1, <2>2 DEF Grant
    <3>6. \A s \in Issuer \ {r} : Granted(s)' => Granted(s)
      BY <2>2 DEF Granted
    <3> QED
      BY <1>0, <2>2, <3>1, <3>2, <3>3, <3>4, <3>6 DEF CheckHolds
  <2> QED
    BY <2>1, <2>3, <2>5, <2>6 DEF IndInv
<1>2. ASSUME NEW r \in Issuer, NEW c \in Code, Write(r, c) PROVE IndInv'
  BY <1>2, WriteInvariants
<1>3. ASSUME NEW r \in Issuer, GiveUp(r) PROVE IndInv'
  <2>1. TypeOK'
    BY <1>0, <1>3 DEF GiveUp, TypeOK, Exists, Issuing
  <2>2. \A s \in Issuer : issue'[s] = issue[s] \/ issue'[s] = Idle
    BY <1>0, <1>3 DEF GiveUp, TypeOK
  <2>3. Keeps /\ clock' = clock
    BY <1>3, SameRowsKeep DEF GiveUp
  <2> QED
    BY <1>0, <2>1, <2>2, <2>3, KeepsChecks DEF IndInv
<1>4. ASSUME NEW q \in Verifier, NEW c \in Code, NEW right \in BOOLEAN, Present(q, c, right) PROVE IndInv'
  <2>1. TypeOK'
    BY <1>0, <1>4 DEF Present, TypeOK, Exists, Verifying
  <2>2. Keeps /\ clock' = clock /\ issue' = issue
    BY <1>4, SameRowsKeep DEF Present
  <2> QED
    BY <1>0, <2>1, <2>2, KeepsChecks DEF IndInv
<1>5. ASSUME NEW q \in Verifier, Consume(q) \/ Miss(q) PROVE IndInv'
  <2>1. verify[q].code \in Code
    BY <1>0, <1>5 DEF Consume, Miss, TypeOK, Verifying, Idle
  <2>2. /\ Keeps
        /\ row' \in [Code -> Row \cup {None}]
        /\ \A e \in Code : Exists(e)' => ~(row'[e].consumed /\ row'[e].superseded)
    <3>1. CASE row' = row
      BY <1>0, <3>1, SameRowsKeep DEF TypeOK, Exists
    <3>2. CASE row' # row
      <4>1. Valid(verify[q].code)
        BY <1>5, <3>2 DEF Consume, Miss, Open
      <4>2. \/ row' = [row EXCEPT ![verify[q].code].consumed = TRUE]
            \/ row' = [row EXCEPT ![verify[q].code].attempts = @ + 1]
        BY <1>5, <3>2 DEF Consume, Miss
      <4> QED
        BY <1>0, <2>1, <4>1, <4>2, OneRowKeeps
    <3> QED
      BY <3>1, <3>2
  <2>3. clock' = clock /\ issue' = issue /\ verify' \in [Verifier -> Verifying]
    BY <1>0, <1>5 DEF Consume, Miss, TypeOK, Verifying
  <2>4. TypeOK'
    BY <1>0, <2>2, <2>3 DEF TypeOK
  <2> QED
    BY <1>0, <2>2, <2>3, <2>4, KeepsChecks DEF IndInv
<1>6. ASSUME NEW q \in Verifier, Leave(q) PROVE IndInv'
  <2>1. TypeOK'
    BY <1>0, <1>6 DEF Leave, TypeOK, Exists, Verifying
  <2>2. Keeps /\ clock' = clock /\ issue' = issue
    BY <1>6, SameRowsKeep DEF Leave
  <2> QED
    BY <1>0, <2>1, <2>2, KeepsChecks DEF IndInv
<1>7. CASE Tick
  <2>1. TypeOK'
    BY <1>0, <1>7 DEF Tick, TypeOK, Exists
  <2>2. Keeps /\ clock' = clock + 1 /\ issue' = issue
    BY <1>7, SameRowsKeep DEF Tick
  <2> QED
    BY <1>0, <2>1, <2>2, KeepsChecks DEF IndInv
<1>8. CASE UNCHANGED vars
  <2>1. TypeOK'
    BY <1>0, <1>8 DEF vars, TypeOK, Exists
  <2>2. Keeps /\ clock' = clock /\ issue' = issue
    BY <1>8, SameRowsKeep DEF vars
  <2> QED
    BY <1>0, <2>1, <2>2, KeepsChecks DEF IndInv
<1> QED
  BY <1>1, <1>2, <1>3, <1>4, <1>5, <1>6, <1>7, <1>8 DEF Next

\* The inductive invariant holds of every reachable state.
THEOREM Invariance == Spec => []IndInv
  BY InitInvariant, NextInvariant, PTL DEF Spec

\* No code is charged more wrong guesses than allowed, and none is both consumed
\* and superseded, however calls of issue and verifyAndConsume interleave.
THEOREM TypeCorrect == Spec => []TypeOK
<1>1. IndInv => TypeOK
  BY DEF IndInv
<1> QED
  BY <1>1, Invariance, PTL

\* The day's limit and the interval hold for every phone, though issue checks them
\* before it writes and time and midnights pass in between.
THEOREM Limits == Spec => []RateLimited
<1>1. IndInv => RateLimited
  BY DEF IndInv
<1> QED
  BY <1>1, Invariance, PTL

\* At most one code of a phone and purpose is live: superseding in issue and the
\* lock leave no other.
THEOREM OneLive == Spec => []OneLiveCode
<1>1. IndInv => OneLiveCode
  BY DEF IndInv
<1> QED
  BY <1>1, Invariance, PTL

-----------------------------------------------------------------------------
(* Refinement                                                              *)

LEMMA SentExists ==
  ASSUME TypeOK, NEW c \in Code
  PROVE  /\ Sents[c] # None <=> Exists(c)
         /\ Exists(c) => Sents[c].phone = row[c].phone /\ Sents[c].purpose = row[c].purpose
                         /\ Sents[c].time = row[c].createdAt
<1>1. ASSUME Exists(c) PROVE SentOf(c) \in Sent
  BY <1>1, RowsTyped DEF SentOf, Sent, Row
<1> QED
  BY <1>1, NoneAssumption DEF Sents, SentOf

LEMMA SameSets ==
  ASSUME TypeOK
  PROVE  /\ \A p : Promise!Of(p) = Of(p)
         /\ \A p, t : Promise!Today(p, t) = Today(p, t)
<1>1. \A p : Promise!Of(p) = Of(p)
  BY SentExists DEF Promise!Of, Of
<1> QED
  BY <1>1, SentExists DEF Promise!Today, Today, Of

\* Rows whose phone, purpose and time are kept were sent as before.
LEMMA SentsKept ==
  ASSUME Keeps
  PROVE  Sents' = Sents
<1>1. \A c \in Code : SentOf(c)' = SentOf(c)
  BY DEF Keeps, SentOf
<1> QED
  BY <1>1 DEF Sents

LEMMA SameCardinality == \A S : Promise!Cardinality(S) = Cardinality(S)
  BY DEF Promise!Cardinality, Cardinality, Promise!IsFiniteSet, IsFiniteSet

LEMMA WritePromise ==
  ASSUME IndInv, NEW r \in Issuer, NEW c \in Code, Write(r, c)
  PROVE  Promise!Issue(c, issue[r].phone, issue[r].purpose)
<1> DEFINE p == issue[r].phone
           k == issue[r].purpose
<1>0. TypeOK /\ clock' = clock
  BY DEF IndInv, Write
<1>1. Lives[c] = "none"
  BY WriteShape DEF Lives, LifeOf
<1>2. Cardinality(Promise!Today(p, clock)) < Limit
  <2> DEFINE T == Today(p, issue[r].now)
  <2>1. Promise!Today(p, clock) = Today(p, clock)
    BY <1>0, SameSets
  <2>2. \A m \in Midnights : m <= issue[r].now => m <= clock
    BY WriteShape, LimitAssumption
  <2>3. Today(p, clock) \in SUBSET T
    BY <2>2 DEF Today
  <2>4. T \in SUBSET Code
    BY DEF Today, Of
  <2>5. IsFiniteSet(T)
    BY <2>4, CodeAssumption, FS_Subset
  <2>6. Cardinality(Today(p, clock)) <= Cardinality(T)
    BY <2>3, <2>5, FS_Subset
  <2>7. Cardinality(Today(p, clock)) \in Nat /\ Cardinality(T) \in Nat
    BY <2>3, <2>5, FS_Subset, FS_CardinalityType
  <2>8. Cardinality(T) < Limit
    BY DEF IndInv, CheckHolds, Granted, Write
  <2> QED
    BY <2>1, <2>6, <2>7, <2>8, LimitAssumption
<1>3. \A e \in Promise!Of(p) : clock - Sents[e].time >= Interval
  <2>1. ASSUME NEW e \in Of(p)
        PROVE  clock - Sents[e].time >= Interval
    <3>1. Sents[e].time = row[e].createdAt
      BY <1>0, SentExists DEF Of
    <3> QED
      BY <3>1, WriteShape
  <2> QED
    BY <1>0, <2>1, SameSets
<1>4. Sents' = [Sents EXCEPT ![c] = [phone |-> p, purpose |-> k, time |-> clock]]
  <2>1. SentOf(c)' = [phone |-> p, purpose |-> k, time |-> clock]
    BY WriteShape DEF SentOf
  <2>2. \A e \in Code \ {c} : SentOf(e)' = SentOf(e)
    BY WriteShape DEF SentOf
  <2> QED
    BY <2>1, <2>2 DEF Sents
<1>5. Lives'[c] \in {"open", "void"}
  BY WriteShape DEF Lives, LifeOf
<1>6. ASSUME NEW e \in Code \ {c}
      PROVE  Lives'[e] = IF Lives[e] = "open" /\ Sents[e].phone = p /\ Sents[e].purpose = k
                         THEN "void" ELSE Lives[e]
  <2>1. CASE ~Exists(e)
    <3>1. ~Exists(e)'
      BY <2>1, WriteShape
    <3> QED
      BY <2>1, <3>1 DEF Lives, LifeOf
  <2>2. CASE Exists(e)
    <3>1. /\ Exists(e)' /\ row'[e].consumed = row[e].consumed
          /\ row'[e].attempts = row[e].attempts /\ row'[e].expiresAt = row[e].expiresAt
          /\ Live(e)' <=> Live(e) /\ e \notin LiveOf(p, k)
      BY <2>2, WriteShape
    <3>2. Sents[e].phone = row[e].phone /\ Sents[e].purpose = row[e].purpose
      BY <1>0, <2>2, SentExists
    <3>3. e \in LiveOf(p, k) <=> Live(e) /\ Sents[e].phone = p /\ Sents[e].purpose = k
      BY <2>2, <3>2 DEF LiveOf, Of
    <3>4. Valid(e)' <=> Valid(e) /\ e \notin LiveOf(p, k)
      BY <1>0, <3>1 DEF Valid
    <3>5. Valid(e) => Live(e) /\ ~row[e].consumed
      BY DEF Valid, Live
    <3> QED
      BY <2>2, <3>1, <3>3, <3>4, <3>5 DEF Lives, LifeOf
  <2> QED
    BY <2>1, <2>2
<1>7. Lives' = [e \in Code |->
         IF e = c THEN Lives'[c]
         ELSE IF Lives[e] = "open" /\ Sents[e].phone = p /\ Sents[e].purpose = k THEN "void"
         ELSE Lives[e]]
  <2>1. Lives' = [e \in Code |-> Lives'[e]]
    BY DEF Lives
  <2> QED
    BY <1>6, <2>1
<1>8. Promise!Issue(c, p, k)
  <2> HIDE DEF p, k
  <2>1. Promise!Today(p, clock) = {e \in Promise!Of(p) : \A m \in Midnights : m <= clock => m <= Sents[e].time}
    BY DEF Promise!Today
  <2> QED
    BY <1>0, <1>1, <1>2, <1>3, <1>4, <1>5, <1>7, SameCardinality DEF Promise!Issue
<1> QED
  BY <1>8

LEMMA ConsumePromise ==
  ASSUME IndInv, NEW c \in Code, Valid(c), row' = [row EXCEPT ![c].consumed = TRUE], clock' = clock
  PROVE  Promise!Accept(c)
<1>0. TypeOK
  BY DEF IndInv
<1>1. row[c] \in Row /\ Exists(c) /\ ~row[c].consumed
  BY <1>0, RowsTyped DEF Valid, Live
<1>2. row'[c].consumed /\ \A e \in Code \ {c} : row'[e] = row[e]
  BY <1>0, <1>1 DEF TypeOK, Row
<1>3. Lives[c] = "open"
  BY <1>1 DEF Lives, LifeOf
<1>4. Keeps
  BY <1>0, OneRowKeeps
<1>5. Lives'[c] = "accepted"
  BY <1>1, <1>2, <1>4 DEF Lives, LifeOf, Keeps
<1>6. \A e \in Code \ {c} : Lives'[e] = Lives[e]
  BY <1>2 DEF Lives, LifeOf, Exists, Valid, Live
<1>7. Lives' = [Lives EXCEPT ![c] = "accepted"]
  BY <1>5, <1>6 DEF Lives
<1> QED
  BY <1>3, <1>4, <1>7, SentsKept DEF Promise!Accept

\* Wrong guesses and time only end codes.
LEMMA EndingPromise ==
  ASSUME IndInv, Keeps, clock' >= clock, clock' \in Nat,
         \A c \in Code : Exists(c) => /\ row'[c].consumed = row[c].consumed
                                      /\ Valid(c)' => Valid(c)
  PROVE  Promise!Pass
<1>1. ASSUME NEW c \in Code
      PROVE  Lives'[c] = IF Lives[c] = "open" /\ Lives'[c] = "void" THEN "void" ELSE Lives[c]
  <2>1. Exists(c)' <=> Exists(c)
    BY DEF Keeps
  <2>2. CASE ~Exists(c)
    BY <2>1, <2>2 DEF Lives, LifeOf
  <2>3. CASE Exists(c)
    BY <2>1, <2>3 DEF Lives, LifeOf
  <2> QED
    BY <2>2, <2>3
<1>2. Lives' = [c \in Code |-> IF Lives[c] = "open" /\ Lives'[c] = "void" THEN "void" ELSE Lives[c]]
  <2>1. Lives' = [c \in Code |-> Lives'[c]]
    BY DEF Lives
  <2> QED
    BY <1>1, <2>1
<1> QED
  BY <1>2, SentsKept DEF Promise!Pass

LEMMA StutterPromise ==
  ASSUME row' = row, clock' = clock
  PROVE  UNCHANGED Promise!vars
  BY DEF Promise!vars, Lives, Sents, LifeOf, SentOf, Exists, Valid, Live

LEMMA StepPromise == IndInv /\ IndInv' /\ [Next]_vars => [Promise!Next]_(Promise!vars)
<1> SUFFICES ASSUME IndInv, IndInv', [Next]_vars PROVE Promise!Next \/ UNCHANGED Promise!vars
  OBVIOUS
<1>0. TypeOK /\ clock \in Nat
  BY DEF IndInv, TypeOK
<1>1. ASSUME NEW r \in Issuer, NEW c \in Code, Write(r, c) PROVE Promise!Next
  BY <1>1, WritePromise, WriteShape DEF Promise!Next
<1>2. ASSUME NEW q \in Verifier, Consume(q) PROVE Promise!Next \/ UNCHANGED Promise!vars
  <2>1. verify[q].code \in Code /\ clock' = clock
    BY <1>0, <1>2 DEF Consume, TypeOK, Verifying, Idle
  <2>2. CASE Valid(verify[q].code)
    <3>1. row' = [row EXCEPT ![verify[q].code].consumed = TRUE]
      BY <1>2, <2>2 DEF Consume, Open
    <3> QED
      BY <2>1, <2>2, <3>1, ConsumePromise DEF Promise!Next
  <2>3. CASE ~Valid(verify[q].code)
    BY <1>2, <2>1, <2>3, StutterPromise DEF Consume, Open
  <2> QED
    BY <2>2, <2>3
<1>3. ASSUME NEW q \in Verifier, Miss(q) PROVE Promise!Next \/ UNCHANGED Promise!vars
  <2> DEFINE c == verify[q].code
  <2>1. c \in Code /\ clock' = clock
    BY <1>0, <1>3 DEF Miss, TypeOK, Verifying, Idle
  <2>2. CASE Valid(c)
    <3>1. row' = [row EXCEPT ![c].attempts = @ + 1]
      BY <1>3, <2>2 DEF Miss, Open
    <3>2. Keeps
      BY <1>0, <2>1, <2>2, <3>1, OneRowKeeps
    <3>3. \A e \in Code \ {c} : row'[e] = row[e]
      BY <1>0, <3>1 DEF TypeOK
    <3>4. row[c] \in Row
      BY <1>0, <2>1, <2>2, RowsTyped DEF Valid, Live
    <3>5. row'[c].consumed = row[c].consumed
      BY <1>0, <2>1, <3>1, <3>4 DEF TypeOK, Row
    <3>6. \A e \in Code : Exists(e) => row'[e].consumed = row[e].consumed /\ (Valid(e)' => Valid(e))
      BY <2>1, <2>2, <3>3, <3>5 DEF Valid, Live, Exists
    <3> QED
      BY <1>0, <2>1, <3>2, <3>6, EndingPromise DEF Promise!Next
  <2>3. CASE ~Valid(c)
    BY <1>3, <2>1, <2>3, StutterPromise DEF Miss, Open
  <2> QED
    BY <2>2, <2>3
<1>4. CASE Tick
  <2>1. row' = row /\ clock' = clock + 1
    BY <1>4 DEF Tick
  <2>2. ASSUME NEW c \in Code, Exists(c), Valid(c)'
        PROVE  Valid(c)
    <3>1. row[c].expiresAt \in Nat
      BY <1>0, <2>2, RowsTyped DEF Row
    <3> QED
      BY <1>0, <2>1, <2>2, <3>1 DEF Valid, Live, Exists
  <2> QED
    BY <1>0, <2>1, <2>2, SameRowsKeep, EndingPromise DEF Promise!Next
<1>5. ASSUME NEW r \in Issuer, NEW p \in Phone, NEW k \in Purpose, Grant(r, p, k) PROVE UNCHANGED Promise!vars
  BY <1>5, StutterPromise DEF Grant
<1>6. ASSUME NEW r \in Issuer, GiveUp(r) PROVE UNCHANGED Promise!vars
  BY <1>6, StutterPromise DEF GiveUp
<1>7. ASSUME NEW q \in Verifier, NEW c \in Code, NEW right \in BOOLEAN, Present(q, c, right) PROVE UNCHANGED Promise!vars
  BY <1>7, StutterPromise DEF Present
<1>8. ASSUME NEW q \in Verifier, Leave(q) PROVE UNCHANGED Promise!vars
  BY <1>8, StutterPromise DEF Leave
<1>9. CASE UNCHANGED vars
  BY <1>9, StutterPromise DEF vars
<1> QED
  BY <1>1, <1>2, <1>3, <1>4, <1>5, <1>6, <1>7, <1>8, <1>9 DEF Next

\* The calls of issue and verifyAndConsume implement the atomic limiter and the
\* one-time codes of OneTimeCodes.
THEOREM Refinement == Spec => ImplementsOneTimeCodes
<1>1. Init => Promise!Init
  <2> SUFFICES ASSUME Init PROVE Promise!Init
    OBVIOUS
  <2>1. \A c \in Code : ~Exists(c)
    BY DEF Init, Exists
  <2> QED
    BY <2>1 DEF Promise!Init, Init, Lives, Sents, LifeOf, SentOf
<1> QED
  BY <1>1, StepPromise, Invariance, PTL DEF Spec, ImplementsOneTimeCodes, Promise!Spec

-----------------------------------------------------------------------------
(* What verification is worth                                              *)

\* Every step but the writing of a code keeps the rows what they are.
LEMMA StepKeeps ==
  ASSUME IndInv, [Next]_vars
  PROVE  Keeps \/ \E r \in Issuer, c \in Code : Write(r, c)
<1>0. TypeOK
  BY DEF IndInv
<1>1. ASSUME row' = row PROVE Keeps
  BY <1>1, SameRowsKeep
<1>2. ASSUME NEW q \in Verifier, Consume(q) \/ Miss(q), row' # row PROVE Keeps
  <2>1. Valid(verify[q].code)
    BY <1>2 DEF Consume, Miss, Open
  <2>2. verify[q].code \in Code
    BY <1>0, <1>2 DEF Consume, Miss, TypeOK, Verifying, Idle
  <2>3. \/ row' = [row EXCEPT ![verify[q].code].consumed = TRUE]
        \/ row' = [row EXCEPT ![verify[q].code].attempts = @ + 1]
    BY <1>2 DEF Consume, Miss
  <2> QED BY <1>0, <2>1, <2>2, <2>3, OneRowKeeps
<1> QED
  BY <1>1, <1>2 DEF Next, vars, Grant, GiveUp, Present, Leave, Tick

\* A live code is the newest of its phone and purpose, dead ones included.
LiveIsNewest ==
    \A c, e \in Code :
        /\ Live(c) /\ Exists(e)
        /\ row[e].phone = row[c].phone /\ row[e].purpose = row[c].purpose
        => row[e].createdAt <= row[c].createdAt

LEMMA NewestStep ==
  ASSUME IndInv, IndInv', [Next]_vars, LiveIsNewest
  PROVE  LiveIsNewest'
<1>1. CASE Keeps
  BY <1>1 DEF Keeps, LiveIsNewest, Live
<1>2. ASSUME NEW r \in Issuer, NEW n \in Code, Write(r, n) PROVE LiveIsNewest'
  <2> SUFFICES ASSUME NEW c \in Code, NEW e \in Code, Live(c)', Exists(e)',
                      row'[e].phone = row'[c].phone, row'[e].purpose = row'[c].purpose
               PROVE  row'[e].createdAt <= row'[c].createdAt
    BY DEF LiveIsNewest
  <2>1. /\ clock \in Nat /\ row'[n].createdAt = clock /\ Live(n)' /\ Exists(n)'
        /\ \A x \in Code \ {n} : Exists(x)' =>
              /\ Exists(x) /\ row'[x].phone = row[x].phone /\ row'[x].purpose = row[x].purpose
              /\ row'[x].createdAt = row[x].createdAt /\ (Live(x)' => Live(x))
        /\ \A x \in Of(row'[n].phone) : row[x].createdAt < clock
    BY <1>2, WriteShape DEF Live
  <2>2. CASE c = n
    <3>1. CASE e = n
      BY <2>1, <2>2, <3>1
    <3>2. CASE e # n
      <4>1. Exists(e) /\ row[e].phone = row'[n].phone /\ row'[e].createdAt = row[e].createdAt
        BY <2>1, <2>2, <3>2
      <4>2. e \in Of(row'[n].phone)
        BY <4>1 DEF Of
      <4>3. row[e].createdAt < clock /\ row[e].createdAt \in Nat
        BY <2>1, <4>1, <4>2, RowsTyped DEF IndInv, Row
      <4> QED BY <2>1, <2>2, <4>1, <4>3
    <3> QED BY <3>1, <3>2
  <2>3. CASE c # n /\ e = n
    <3>1. c = n
      BY <2>1, <2>3 DEF IndInv, OneLiveCode
    <3> QED BY <2>3, <3>1
  <2>4. CASE c # n /\ e # n
    BY <2>1, <2>4 DEF LiveIsNewest, Live
  <2> QED BY <2>2, <2>3, <2>4
<1> QED
  BY <1>1, <1>2, StepKeeps

\* A code that is taken as consumed was valid until that moment, and no newer code
\* of its phone and purpose had been issued, though the comparison was made on an
\* earlier read (the conditional update of verifyAndConsume).
THEOREM OnlyNewestAccepted ==
  Spec => [][\A c \in Code :
                Exists(c) /\ ~row[c].consumed /\ row'[c].consumed =>
                    /\ Valid(c)
                    /\ \A e \in Code \ {c} :
                          Exists(e) /\ row[e].phone = row[c].phone
                                    /\ row[e].purpose = row[c].purpose
                          => row[e].createdAt < row[c].createdAt]_vars
<1> DEFINE Step == \A c \in Code :
                Exists(c) /\ ~row[c].consumed /\ row'[c].consumed =>
                    /\ Valid(c)
                    /\ \A e \in Code \ {c} :
                          Exists(e) /\ row[e].phone = row[c].phone
                                    /\ row[e].purpose = row[c].purpose
                          => row[e].createdAt < row[c].createdAt
<1>1. Spec => []LiveIsNewest
  <2>1. Init => LiveIsNewest
    BY DEF Init, LiveIsNewest, Live, Exists
  <2>2. IndInv /\ IndInv' /\ [Next]_vars /\ LiveIsNewest => LiveIsNewest'
    BY NewestStep
  <2> QED BY <2>1, <2>2, Invariance, PTL DEF Spec
<1>2. ASSUME IndInv, LiveIsNewest, Next PROVE Step
  <2> SUFFICES ASSUME NEW c \in Code, Exists(c), ~row[c].consumed, row'[c].consumed
               PROVE  /\ Valid(c)
                      /\ \A e \in Code \ {c} :
                            Exists(e) /\ row[e].phone = row[c].phone
                                      /\ row[e].purpose = row[c].purpose
                            => row[e].createdAt < row[c].createdAt
    OBVIOUS
  <2>0. TypeOK /\ row \in [Code -> Row \cup {None}] /\ row[c] \in Row
    BY <1>2, RowsTyped DEF IndInv, TypeOK
  <2>1. row'[c] # row[c]
    OBVIOUS
  <2>2. ASSUME NEW r \in Issuer, NEW n \in Code, Write(r, n) PROVE FALSE
    <3>1. c # n
      BY <2>2 DEF Write
    <3>2. row'[c] = [row[c] EXCEPT !.superseded = TRUE] \/ row'[c] = row[c]
      BY <2>2, <3>1 DEF Write
    <3>3. row'[c].consumed = row[c].consumed
      BY <2>0, <3>2 DEF Row
    <3> QED BY <3>3
  <2>3. ASSUME NEW q \in Verifier, Miss(q) PROVE FALSE
    <3>1. row'[c] = [row[c] EXCEPT !.attempts = @ + 1] \/ row'[c] = row[c]
      BY <2>0, <2>3 DEF Miss
    <3>2. row'[c].consumed = row[c].consumed
      BY <2>0, <3>1 DEF Row
    <3> QED BY <3>2
  <2>4. PICK q \in Verifier : Consume(q)
    BY <1>2, <2>1, <2>2, <2>3 DEF Next, Grant, GiveUp, Present, Leave, Tick
  <2>5. c = verify[q].code /\ Valid(c)
    BY <2>0, <2>1, <2>4 DEF Consume, Open
  <2>6. ASSUME NEW e \in Code \ {c}, Exists(e),
               row[e].phone = row[c].phone, row[e].purpose = row[c].purpose
        PROVE  row[e].createdAt < row[c].createdAt
    <3>1. row[e] \in Row /\ Live(c)
      BY <2>0, <2>5, <2>6, RowsTyped DEF Valid
    <3>2. row[e].createdAt <= row[c].createdAt
      BY <1>2, <2>6, <3>1 DEF LiveIsNewest
    <3>3. e \in UpTo(c) \ {c}
      BY <2>6, <3>2 DEF UpTo, Of
    <3>4. row[c].createdAt - row[e].createdAt >= Interval
      BY <1>2, <3>3 DEF IndInv, RateLimited
    <3> QED BY <2>0, <3>1, <3>4, LimitAssumption DEF Row
  <2> QED BY <2>5, <2>6
<1>3. IndInv /\ LiveIsNewest /\ [Next]_vars => [Step]_vars
  BY <1>2
<1> QED
  BY <1>1, <1>3, Invariance, PTL DEF Spec

\* The wrong guesses at the codes of c's phone on c's day, up to c.
Guesses(c) == {g \in DayOf(c) \X (1..MaxAttempts) : g[2] <= row[g[1]].attempts}

\* All purposes together, a phone's codes of one day stand at most so many guesses.
GuessesBounded ==
    \A c \in Code : Exists(c) =>
        IsFiniteSet(Guesses(c)) /\ Cardinality(Guesses(c)) <= Limit * MaxAttempts

LEMMA TimesMonotone ==
  ASSUME NEW a \in Nat, NEW b \in Nat, a <= b, NEW k \in Nat
  PROVE  a * k <= b * k /\ a * k \in Nat /\ b * k \in Nat
<1>1. (b - a) * k >= 0
  OBVIOUS
<1>2. (b - a) * k = b * k - a * k
  OBVIOUS
<1>3. \A x, y \in Nat : x * y \in Nat
  OBVIOUS
<1> QED
  BY <1>1, <1>2, <1>3

\* How often somebody may try to guess a code of a phone is bounded for the day,
\* not only for the code: asking for a new one does not buy unlimited guesses.
THEOREM GuessesCounted == Spec => []GuessesBounded
<1>1. IndInv => GuessesBounded
  <2> SUFFICES ASSUME IndInv, NEW c \in Code, Exists(c)
               PROVE  IsFiniteSet(Guesses(c)) /\ Cardinality(Guesses(c)) <= Limit * MaxAttempts
    BY DEF GuessesBounded
  <2>1. IsFiniteSet(DayOf(c)) /\ Cardinality(DayOf(c)) <= Limit
    <3>1. DayOf(c) \in SUBSET Code
      BY DEF DayOf, UpTo, Of
    <3> QED BY <3>1, CodeAssumption, FS_Subset DEF IndInv, RateLimited
  <2>2. IsFiniteSet(1..MaxAttempts) /\ Cardinality(1..MaxAttempts) = MaxAttempts
    <3>1. \A a, b \in Int : /\ IsFiniteSet(a..b)
                           /\ Cardinality(a..b) = IF a > b THEN 0 ELSE b - a + 1
      BY FS_Interval, Zenon
    <3>2. 1 \in Int /\ MaxAttempts \in Int
      BY LimitAssumption
    <3>3. (IF 1 > MaxAttempts THEN 0 ELSE MaxAttempts - 1 + 1) = MaxAttempts
      BY LimitAssumption
    <3> QED BY <3>1, <3>2, <3>3, Zenon
  <2> DEFINE D == DayOf(c)
             A == 1..MaxAttempts
             G == Guesses(c)
  <2>3. G \in SUBSET (D \X A)
    BY DEF Guesses
  <2> HIDE DEF D, A, G
  <2>4. IsFiniteSet(D \X A) /\ Cardinality(D \X A) = Cardinality(D) * Cardinality(A)
    BY <2>1, <2>2, FS_Product DEF D, A
  <2>5. IsFiniteSet(G) /\ Cardinality(G) <= Cardinality(D \X A)
    BY <2>3, <2>4, FS_Subset
  <2>6. Cardinality(D) \in Nat /\ Cardinality(D) <= Limit /\ Cardinality(A) = MaxAttempts
    BY <2>1, <2>2, FS_CardinalityType DEF D, A
  <2>7. Cardinality(D) * MaxAttempts <= Limit * MaxAttempts
    BY <2>6, LimitAssumption, TimesMonotone
  <2>8. Cardinality(G) \in Nat /\ Cardinality(D) * MaxAttempts \in Nat /\ Limit * MaxAttempts \in Nat
    <3>1. Cardinality(G) \in Nat
      BY <2>5, FS_CardinalityType, Zenon
    <3> QED BY <2>6, <3>1, LimitAssumption, TimesMonotone
  <2>9. Cardinality(G) <= Limit * MaxAttempts
    BY <2>4, <2>5, <2>6, <2>7, <2>8
  <2> QED BY <2>5, <2>9 DEF G
<1> QED
  BY <1>1, Invariance, PTL
=============================================================================
