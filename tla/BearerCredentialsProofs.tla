---------------------- MODULE BearerCredentialsProofs ----------------------
(* Proofs about BearerCredentials. *)
EXTENDS BearerCredentials, TLAPS

(* The rows, requests and evictions are well formed. *)
Shape == TypeOK /\ LineagePoints /\ RequestsPoint /\ PassesLeft

LEMMA ShapeKept ==
  ASSUME Shape, [Next]_vars
  PROVE  Shape'
<1> USE CredentialsAssumption
<1> USE DEF Shape, TypeOK, LineagePoints, RequestsPoint, PassesLeft, InFlight, Sharing,
           Ended, Sweeping, Over, Ways, Roots, rows, secrets, request, eviction
<1>1. ASSUME NEW s \in Sessions, SignIn(s) PROVE Shape'
  BY <1>1 DEF SignIn
<1>2. ASSUME NEW s \in Sessions, SignOut(s) PROVE Shape'
  BY <1>2 DEF SignOut
<1>3. ASSUME NEW q \in Requests, NEW w \in Ways,
             NEW id \in Sessions \cup Creds \cup Requests \cup {None},
             Authenticate(q, w, id)
      PROVE  Shape'
  BY <1>3 DEF Authenticate, SourceLive, SourceActive
<1>4. ASSUME NEW q \in Requests, NEW c \in Creds, RotateRead(q, c) PROVE Shape'
  BY <1>4 DEF RotateRead
<1>5. ASSUME NEW q \in Requests, NEW c \in Creds, VerifyCredential(q, c)
      PROVE  Shape'
  BY <1>5 DEF VerifyCredential
<1>6. ASSUME NEW q \in Requests, EnterFence(q) PROVE Shape'
  BY <1>6 DEF EnterFence
<1>7. ASSUME NEW q \in Requests, Recheck(q) PROVE Shape'
  BY <1>7 DEF Recheck
<1>8. ASSUME NEW q \in Requests, NEW c \in Creds, NEW f \in {"key", "client"},
             Insert(q, c, f)
      PROVE  Shape'
  BY <1>8 DEF Insert, MayInsert, RootOf
<1>9. ASSUME NEW q \in Requests, RotateLock(q) PROVE Shape'
  BY <1>9 DEF RotateLock
<1>10. ASSUME NEW q \in Requests, NEW c \in Creds, RotateSwap(q, c) PROVE Shape'
  BY <1>10 DEF RotateSwap, Succeeds
<1>11. ASSUME NEW q \in Requests, MintToken(q) PROVE Shape'
  BY <1>11 DEF MintToken
<1>12. ASSUME NEW q \in Requests, Abandon(q) PROVE Shape'
  BY <1>12 DEF Abandon
<1>13. ASSUME NEW q \in Requests, TokenExpires(q) PROVE Shape'
  BY <1>13 DEF TokenExpires
<1>14. ASSUME NEW c \in Creds, RevokeOne(c) PROVE Shape'
  BY <1>14 DEF RevokeOne
<1>15. ASSUME NEW c \in Creds, RotateSecret(c) PROVE Shape'
  BY <1>15 DEF RotateSecret
<1>16. ASSUME NEW e \in Evictions, ReplacePassword(e) PROVE Shape'
  BY <1>16 DEF ReplacePassword
<1>17. ASSUME NEW e \in Evictions, EndSessions(e) PROVE Shape'
  BY <1>17 DEF EndSessions
<1>18. ASSUME NEW e \in Evictions, EndSessionsFails(e) PROVE Shape'
  BY <1>18 DEF EndSessionsFails
<1>19. ASSUME NEW e \in Evictions, PassLock(e) PROVE Shape'
  BY <1>19 DEF PassLock
<1>20. ASSUME NEW e \in Evictions, SweepKeys(e) PROVE Shape'
  BY <1>20 DEF SweepKeys
<1>21. ASSUME NEW e \in Evictions, PassCommit(e) PROVE Shape'
  BY <1>21 DEF PassCommit, Revoking
<1>22. ASSUME NEW e \in Evictions, EvictionCrash(e) PROVE Shape'
  BY <1>22 DEF EvictionCrash
<1>23. ASSUME Tick PROVE Shape'
  BY <1>23 DEF Tick
<1>24. CASE UNCHANGED vars
  BY <1>24 DEF vars
<1>25. QED
  <2> HIDE DEF Shape
  <2> QED
    BY <1>1, <1>2, <1>3, <1>4, <1>5, <1>6, <1>7, <1>8, <1>9, <1>10, <1>11, <1>12,
       <1>13, <1>14, <1>15, <1>16, <1>17, <1>18, <1>19, <1>20, <1>21, <1>22,
       <1>23, <1>24 DEF Next, Start, Issue, Evict

LEMMA ShapeHolds == Spec => []Shape
<1>1. Init => Shape
  BY CredentialsAssumption
  DEF Init, Shape, TypeOK, LineagePoints, RequestsPoint, PassesLeft, InFlight, Sharing,
      Ended, Sweeping, Over, Ways, Roots
<1>2. QED
  BY <1>1, ShapeKept, PTL DEF Spec

(* Type correctness: the columns, the requests and the evictions keep their  *)
(* types, and no eviction starts more passes than MAX_EVICTION_PASSES.       *)
THEOREM TypeCorrect == Spec => []TypeOK
BY ShapeHolds, PTL DEF Shape
-----------------------------------------------------------------------------
LEMMA LocksKept ==
  ASSUME Shape, LocksExclude, [Next]_vars
  PROVE  LocksExclude'
<1> USE DEF Shape, TypeOK, LocksExclude, InFlight, Sharing, Ended, Sweeping, Over,
           rows, secrets, request, eviction
<1>1. ASSUME NEW s \in Sessions, SignIn(s) PROVE LocksExclude'
  BY <1>1 DEF SignIn
<1>2. ASSUME NEW s \in Sessions, SignOut(s) PROVE LocksExclude'
  BY <1>2 DEF SignOut
<1>3. ASSUME NEW q \in Requests, NEW w \in Ways,
             NEW id \in Sessions \cup Creds \cup Requests \cup {None},
             Authenticate(q, w, id)
      PROVE  LocksExclude'
  BY <1>3 DEF Authenticate
<1>4. ASSUME NEW q \in Requests, NEW c \in Creds, RotateRead(q, c)
      PROVE  LocksExclude'
  BY <1>4 DEF RotateRead
<1>5. ASSUME NEW q \in Requests, NEW c \in Creds, VerifyCredential(q, c)
      PROVE  LocksExclude'
  BY <1>5 DEF VerifyCredential
<1>6. ASSUME NEW q \in Requests, EnterFence(q) PROVE LocksExclude'
  BY <1>6 DEF EnterFence, ShareGranted
<1>7. ASSUME NEW q \in Requests, Recheck(q) PROVE LocksExclude'
  BY <1>7 DEF Recheck
<1>8. ASSUME NEW q \in Requests, NEW c \in Creds, NEW f \in {"key", "client"},
             Insert(q, c, f)
      PROVE  LocksExclude'
  BY <1>8 DEF Insert
<1>9. ASSUME NEW q \in Requests, RotateLock(q) PROVE LocksExclude'
  BY <1>9 DEF RotateLock, ShareGranted
<1>10. ASSUME NEW q \in Requests, NEW c \in Creds, RotateSwap(q, c)
       PROVE  LocksExclude'
  BY <1>10 DEF RotateSwap, Succeeds
<1>11. ASSUME NEW q \in Requests, MintToken(q) PROVE LocksExclude'
  BY <1>11 DEF MintToken
<1>12. ASSUME NEW q \in Requests, Abandon(q) PROVE LocksExclude'
  BY <1>12 DEF Abandon
<1>13. ASSUME NEW q \in Requests, TokenExpires(q) PROVE LocksExclude'
  BY <1>13 DEF TokenExpires
<1>14. ASSUME NEW c \in Creds, RevokeOne(c) PROVE LocksExclude'
  BY <1>14 DEF RevokeOne
<1>15. ASSUME NEW c \in Creds, RotateSecret(c) PROVE LocksExclude'
  BY <1>15 DEF RotateSecret
<1>16. ASSUME NEW e \in Evictions, ReplacePassword(e) PROVE LocksExclude'
  BY <1>16 DEF ReplacePassword
<1>17. ASSUME NEW e \in Evictions, EndSessions(e) PROVE LocksExclude'
  BY <1>17 DEF EndSessions
<1>18. ASSUME NEW e \in Evictions, EndSessionsFails(e) PROVE LocksExclude'
  BY <1>18 DEF EndSessionsFails
<1>19. ASSUME NEW e \in Evictions, PassLock(e) PROVE LocksExclude'
  BY <1>19 DEF PassLock, ExclusiveGranted
<1>20. ASSUME NEW e \in Evictions, SweepKeys(e) PROVE LocksExclude'
  BY <1>20 DEF SweepKeys
<1>21. ASSUME NEW e \in Evictions, PassCommit(e) PROVE LocksExclude'
  BY <1>21 DEF PassCommit, Revoking
<1>22. ASSUME NEW e \in Evictions, EvictionCrash(e) PROVE LocksExclude'
  BY <1>22 DEF EvictionCrash
<1>23. ASSUME Tick PROVE LocksExclude'
  BY <1>23 DEF Tick
<1>24. CASE UNCHANGED vars
  BY <1>24 DEF vars
<1>25. QED
  <2> HIDE DEF Shape, LocksExclude
  <2> QED
    BY <1>1, <1>2, <1>3, <1>4, <1>5, <1>6, <1>7, <1>8, <1>9, <1>10, <1>11, <1>12,
       <1>13, <1>14, <1>15, <1>16, <1>17, <1>18, <1>19, <1>20, <1>21, <1>22,
       <1>23, <1>24 DEF Next, Start, Issue, Evict

(* Of any number of rotations of one key that run at once, one hands out a   *)
(* successor: the retiring UPDATE of rotateApiKey matches an active row      *)
(* only, and the insert is in its transaction.                               *)
THEOREM OneSuccessorHolds == Spec => []OneSuccessor
<1>1. Init => OneSuccessor
  BY DEF Init, OneSuccessor
<1>2. Shape /\ OneSuccessor /\ [Next]_vars => OneSuccessor'
  <2> SUFFICES ASSUME Shape, OneSuccessor, [Next]_vars
               PROVE  OneSuccessor'
    OBVIOUS
  <2> USE DEF Shape, TypeOK, LineagePoints, RequestsPoint, OneSuccessor, rows, secrets,
             request, eviction
  <2>1. ASSUME NEW s \in Sessions, SignIn(s) PROVE OneSuccessor'
    BY <2>1 DEF SignIn
  <2>2. ASSUME NEW s \in Sessions, SignOut(s) PROVE OneSuccessor'
    BY <2>2 DEF SignOut
  <2>3. ASSUME NEW q \in Requests, NEW w \in Ways,
               NEW id \in Sessions \cup Creds \cup Requests \cup {None},
               Authenticate(q, w, id)
        PROVE  OneSuccessor'
    BY <2>3 DEF Authenticate
  <2>4. ASSUME NEW q \in Requests, NEW c \in Creds, RotateRead(q, c)
        PROVE  OneSuccessor'
    BY <2>4 DEF RotateRead
  <2>5. ASSUME NEW q \in Requests, NEW c \in Creds, VerifyCredential(q, c)
        PROVE  OneSuccessor'
    BY <2>5 DEF VerifyCredential
  <2>6. ASSUME NEW q \in Requests, EnterFence(q) PROVE OneSuccessor'
    BY <2>6 DEF EnterFence
  <2>7. ASSUME NEW q \in Requests, Recheck(q) PROVE OneSuccessor'
    BY <2>7 DEF Recheck
  <2>8. ASSUME NEW q \in Requests, NEW c \in Creds, NEW f \in {"key", "client"},
               Insert(q, c, f)
        PROVE  OneSuccessor'
    BY <2>8 DEF Insert
  <2>9. ASSUME NEW q \in Requests, RotateLock(q) PROVE OneSuccessor'
    BY <2>9 DEF RotateLock
  <2>10. ASSUME NEW q \in Requests, NEW c \in Creds, RotateSwap(q, c)
         PROVE  OneSuccessor'
    BY <2>10 DEF RotateSwap, Succeeds
  <2>11. ASSUME NEW q \in Requests, MintToken(q) PROVE OneSuccessor'
    BY <2>11 DEF MintToken
  <2>12. ASSUME NEW q \in Requests, Abandon(q) PROVE OneSuccessor'
    BY <2>12 DEF Abandon
  <2>13. ASSUME NEW q \in Requests, TokenExpires(q) PROVE OneSuccessor'
    BY <2>13 DEF TokenExpires
  <2>14. ASSUME NEW c \in Creds, RevokeOne(c) PROVE OneSuccessor'
    BY <2>14 DEF RevokeOne
  <2>15. ASSUME NEW c \in Creds, RotateSecret(c) PROVE OneSuccessor'
    BY <2>15 DEF RotateSecret
  <2>16. ASSUME NEW e \in Evictions, ReplacePassword(e) PROVE OneSuccessor'
    BY <2>16 DEF ReplacePassword
  <2>17. ASSUME NEW e \in Evictions, EndSessions(e) PROVE OneSuccessor'
    BY <2>17 DEF EndSessions
  <2>18. ASSUME NEW e \in Evictions, EndSessionsFails(e) PROVE OneSuccessor'
    BY <2>18 DEF EndSessionsFails
  <2>19. ASSUME NEW e \in Evictions, PassLock(e) PROVE OneSuccessor'
    BY <2>19 DEF PassLock
  <2>20. ASSUME NEW e \in Evictions, SweepKeys(e) PROVE OneSuccessor'
    BY <2>20 DEF SweepKeys
  <2>21. ASSUME NEW e \in Evictions, PassCommit(e) PROVE OneSuccessor'
    BY <2>21 DEF PassCommit, Revoking
  <2>22. ASSUME NEW e \in Evictions, EvictionCrash(e) PROVE OneSuccessor'
    BY <2>22 DEF EvictionCrash
  <2>23. ASSUME Tick PROVE OneSuccessor'
    BY <2>23 DEF Tick
  <2>24. CASE UNCHANGED vars
    BY <2>24 DEF vars
  <2>25. QED
    <3> HIDE DEF Shape, OneSuccessor
    <3> QED
      BY <2>1, <2>2, <2>3, <2>4, <2>5, <2>6, <2>7, <2>8, <2>9, <2>10, <2>11,
         <2>12, <2>13, <2>14, <2>15, <2>16, <2>17, <2>18, <2>19, <2>20, <2>21,
         <2>22, <2>23, <2>24 DEF Next, Start, Issue, Evict
<1>3. QED
  BY <1>1, <1>2, ShapeHolds, PTL DEF Spec
-----------------------------------------------------------------------------
(* The locks, what an eviction has ended and what has passed the re-check. *)
Fence ==
  /\ LocksExclude /\ SessionsGone /\ SweptIsAll /\ CheckedIsFresh
  /\ NoOldCredentialSurvives

LEMMA FenceKept ==
  ASSUME Shape, Fence, [Next]_vars
  PROVE  Fence'
<1>a. LocksExclude'
  BY LocksKept DEF Fence
<1>b. SessionsGone'
  <2> USE DEF Shape, TypeOK, Fence, SessionsGone, SweptSessions, Sweeping, Over, rows,
             secrets, request, eviction
  <2>1. ASSUME NEW s \in Sessions, SignIn(s) PROVE SessionsGone'
    BY <2>1 DEF SignIn
  <2>2. ASSUME NEW s \in Sessions, SignOut(s) PROVE SessionsGone'
    BY <2>2 DEF SignOut
  <2>3. ASSUME NEW q \in Requests, NEW w \in Ways,
               NEW id \in Sessions \cup Creds \cup Requests \cup {None},
               Authenticate(q, w, id)
        PROVE  SessionsGone'
    BY <2>3 DEF Authenticate
  <2>4. ASSUME NEW q \in Requests, NEW c \in Creds, RotateRead(q, c)
        PROVE  SessionsGone'
    BY <2>4 DEF RotateRead
  <2>5. ASSUME NEW q \in Requests, NEW c \in Creds, VerifyCredential(q, c)
        PROVE  SessionsGone'
    BY <2>5 DEF VerifyCredential
  <2>6. ASSUME NEW q \in Requests, EnterFence(q) PROVE SessionsGone'
    BY <2>6 DEF EnterFence
  <2>7. ASSUME NEW q \in Requests, Recheck(q) PROVE SessionsGone'
    BY <2>7 DEF Recheck
  <2>8. ASSUME NEW q \in Requests, NEW c \in Creds, NEW f \in {"key", "client"},
               Insert(q, c, f)
        PROVE  SessionsGone'
    BY <2>8 DEF Insert
  <2>9. ASSUME NEW q \in Requests, RotateLock(q) PROVE SessionsGone'
    BY <2>9 DEF RotateLock
  <2>10. ASSUME NEW q \in Requests, NEW c \in Creds, RotateSwap(q, c)
         PROVE  SessionsGone'
    BY <2>10 DEF RotateSwap, Succeeds
  <2>11. ASSUME NEW q \in Requests, MintToken(q) PROVE SessionsGone'
    BY <2>11 DEF MintToken
  <2>12. ASSUME NEW q \in Requests, Abandon(q) PROVE SessionsGone'
    BY <2>12 DEF Abandon
  <2>13. ASSUME NEW q \in Requests, TokenExpires(q) PROVE SessionsGone'
    BY <2>13 DEF TokenExpires
  <2>14. ASSUME NEW c \in Creds, RevokeOne(c) PROVE SessionsGone'
    BY <2>14 DEF RevokeOne
  <2>15. ASSUME NEW c \in Creds, RotateSecret(c) PROVE SessionsGone'
    BY <2>15 DEF RotateSecret
  <2>16. ASSUME NEW e \in Evictions, ReplacePassword(e) PROVE SessionsGone'
    BY <2>16 DEF ReplacePassword
  <2>17. ASSUME NEW e \in Evictions, EndSessions(e) PROVE SessionsGone'
    BY <2>17 DEF EndSessions
  <2>18. ASSUME NEW e \in Evictions, EndSessionsFails(e) PROVE SessionsGone'
    BY <2>18 DEF EndSessionsFails
  <2>19. ASSUME NEW e \in Evictions, PassLock(e) PROVE SessionsGone'
    BY <2>19 DEF PassLock
  <2>20. ASSUME NEW e \in Evictions, SweepKeys(e) PROVE SessionsGone'
    BY <2>20 DEF SweepKeys
  <2>21. ASSUME NEW e \in Evictions, PassCommit(e) PROVE SessionsGone'
    BY <2>21 DEF PassCommit, Revoking
  <2>22. ASSUME NEW e \in Evictions, EvictionCrash(e) PROVE SessionsGone'
    BY <2>22 DEF EvictionCrash
  <2>23. ASSUME Tick PROVE SessionsGone'
    BY <2>23 DEF Tick
  <2>24. CASE UNCHANGED vars
    BY <2>24 DEF vars
  <2>25. QED
    <3> HIDE DEF Shape, Fence, SessionsGone
    <3> QED
      BY <2>1, <2>2, <2>3, <2>4, <2>5, <2>6, <2>7, <2>8, <2>9, <2>10, <2>11,
         <2>12, <2>13, <2>14, <2>15, <2>16, <2>17, <2>18, <2>19, <2>20, <2>21,
         <2>22, <2>23, <2>24 DEF Next, Start, Issue, Evict
<1>c. SweptIsAll'
  <2> USE DEF Shape, TypeOK, RequestsPoint, Fence, LocksExclude, SweptIsAll, Sharing,
             Sweeping, Over, rows, secrets, request, eviction
  <2>1. ASSUME NEW s \in Sessions, SignIn(s) PROVE SweptIsAll'
    BY <2>1 DEF SignIn
  <2>2. ASSUME NEW s \in Sessions, SignOut(s) PROVE SweptIsAll'
    BY <2>2 DEF SignOut
  <2>3. ASSUME NEW q \in Requests, NEW w \in Ways,
               NEW id \in Sessions \cup Creds \cup Requests \cup {None},
               Authenticate(q, w, id)
        PROVE  SweptIsAll'
    BY <2>3 DEF Authenticate
  <2>4. ASSUME NEW q \in Requests, NEW c \in Creds, RotateRead(q, c)
        PROVE  SweptIsAll'
    BY <2>4 DEF RotateRead
  <2>5. ASSUME NEW q \in Requests, NEW c \in Creds, VerifyCredential(q, c)
        PROVE  SweptIsAll'
    BY <2>5 DEF VerifyCredential
  <2>6. ASSUME NEW q \in Requests, EnterFence(q) PROVE SweptIsAll'
    BY <2>6 DEF EnterFence
  <2>7. ASSUME NEW q \in Requests, Recheck(q) PROVE SweptIsAll'
    BY <2>7 DEF Recheck
  <2>8. ASSUME NEW q \in Requests, NEW c \in Creds, NEW f \in {"key", "client"},
               Insert(q, c, f)
        PROVE  SweptIsAll'
    BY <2>8 DEF Insert, MayInsert, RootOf
  <2>9. ASSUME NEW q \in Requests, RotateLock(q) PROVE SweptIsAll'
    BY <2>9 DEF RotateLock
  <2>10. ASSUME NEW q \in Requests, NEW c \in Creds, RotateSwap(q, c)
         PROVE  SweptIsAll'
    BY <2>10 DEF RotateSwap, Succeeds
  <2>11. ASSUME NEW q \in Requests, MintToken(q) PROVE SweptIsAll'
    BY <2>11 DEF MintToken
  <2>12. ASSUME NEW q \in Requests, Abandon(q) PROVE SweptIsAll'
    BY <2>12 DEF Abandon
  <2>13. ASSUME NEW q \in Requests, TokenExpires(q) PROVE SweptIsAll'
    BY <2>13 DEF TokenExpires
  <2>14. ASSUME NEW c \in Creds, RevokeOne(c) PROVE SweptIsAll'
    BY <2>14 DEF RevokeOne
  <2>15. ASSUME NEW c \in Creds, RotateSecret(c) PROVE SweptIsAll'
    BY <2>15 DEF RotateSecret
  <2>16. ASSUME NEW e \in Evictions, ReplacePassword(e) PROVE SweptIsAll'
    BY <2>16 DEF ReplacePassword
  <2>17. ASSUME NEW e \in Evictions, EndSessions(e) PROVE SweptIsAll'
    BY <2>17 DEF EndSessions
  <2>18. ASSUME NEW e \in Evictions, EndSessionsFails(e) PROVE SweptIsAll'
    BY <2>18 DEF EndSessionsFails
  <2>19. ASSUME NEW e \in Evictions, PassLock(e) PROVE SweptIsAll'
    BY <2>19 DEF PassLock
  <2>20. ASSUME NEW e \in Evictions, SweepKeys(e) PROVE SweptIsAll'
    BY <2>20 DEF SweepKeys
  <2>21. ASSUME NEW e \in Evictions, PassCommit(e) PROVE SweptIsAll'
    BY <2>21 DEF PassCommit, Revoking
  <2>22. ASSUME NEW e \in Evictions, EvictionCrash(e) PROVE SweptIsAll'
    BY <2>22 DEF EvictionCrash
  <2>23. ASSUME Tick PROVE SweptIsAll'
    BY <2>23 DEF Tick
  <2>24. CASE UNCHANGED vars
    BY <2>24 DEF vars
  <2>25. QED
    <3> HIDE DEF Shape, Fence, SweptIsAll
    <3> QED
      BY <2>1, <2>2, <2>3, <2>4, <2>5, <2>6, <2>7, <2>8, <2>9, <2>10, <2>11,
         <2>12, <2>13, <2>14, <2>15, <2>16, <2>17, <2>18, <2>19, <2>20, <2>21,
         <2>22, <2>23, <2>24 DEF Next, Start, Issue, Evict
<1>d. NoOldCredentialSurvives'
  <2> USE DEF Shape, TypeOK, RequestsPoint, Fence, LocksExclude, SessionsGone,
             SweptSessions, SweptIsAll, CheckedIsFresh, NoOldCredentialSurvives, Sharing,
             Sweeping, Over, rows, secrets, request, eviction
  <2>1. ASSUME NEW s \in Sessions, SignIn(s) PROVE NoOldCredentialSurvives'
    BY <2>1 DEF SignIn
  <2>2. ASSUME NEW s \in Sessions, SignOut(s) PROVE NoOldCredentialSurvives'
    BY <2>2 DEF SignOut
  <2>3. ASSUME NEW q \in Requests, NEW w \in Ways,
               NEW id \in Sessions \cup Creds \cup Requests \cup {None},
               Authenticate(q, w, id)
        PROVE  NoOldCredentialSurvives'
    BY <2>3 DEF Authenticate
  <2>4. ASSUME NEW q \in Requests, NEW c \in Creds, RotateRead(q, c)
        PROVE  NoOldCredentialSurvives'
    BY <2>4 DEF RotateRead
  <2>5. ASSUME NEW q \in Requests, NEW c \in Creds, VerifyCredential(q, c)
        PROVE  NoOldCredentialSurvives'
    BY <2>5 DEF VerifyCredential
  <2>6. ASSUME NEW q \in Requests, EnterFence(q) PROVE NoOldCredentialSurvives'
    BY <2>6 DEF EnterFence
  <2>7. ASSUME NEW q \in Requests, Recheck(q) PROVE NoOldCredentialSurvives'
    BY <2>7 DEF Recheck
  <2>8. ASSUME NEW q \in Requests, NEW c \in Creds, NEW f \in {"key", "client"},
               Insert(q, c, f)
        PROVE  NoOldCredentialSurvives'
    BY <2>8 DEF Insert
  <2>9. ASSUME NEW q \in Requests, RotateLock(q) PROVE NoOldCredentialSurvives'
    BY <2>9 DEF RotateLock
  <2>10. ASSUME NEW q \in Requests, NEW c \in Creds, RotateSwap(q, c)
         PROVE  NoOldCredentialSurvives'
    BY <2>10 DEF RotateSwap, Succeeds
  <2>11. ASSUME NEW q \in Requests, MintToken(q) PROVE NoOldCredentialSurvives'
    BY <2>11 DEF MintToken
  <2>12. ASSUME NEW q \in Requests, Abandon(q) PROVE NoOldCredentialSurvives'
    BY <2>12 DEF Abandon
  <2>13. ASSUME NEW q \in Requests, TokenExpires(q) PROVE NoOldCredentialSurvives'
    BY <2>13 DEF TokenExpires
  <2>14. ASSUME NEW c \in Creds, RevokeOne(c) PROVE NoOldCredentialSurvives'
    BY <2>14 DEF RevokeOne
  <2>15. ASSUME NEW c \in Creds, RotateSecret(c) PROVE NoOldCredentialSurvives'
    BY <2>15 DEF RotateSecret
  <2>16. ASSUME NEW e \in Evictions, ReplacePassword(e)
         PROVE  NoOldCredentialSurvives'
    BY <2>16 DEF ReplacePassword
  <2>17. ASSUME NEW e \in Evictions, EndSessions(e) PROVE NoOldCredentialSurvives'
    BY <2>17 DEF EndSessions
  <2>18. ASSUME NEW e \in Evictions, EndSessionsFails(e)
         PROVE  NoOldCredentialSurvives'
    BY <2>18 DEF EndSessionsFails
  <2>19. ASSUME NEW e \in Evictions, PassLock(e) PROVE NoOldCredentialSurvives'
    BY <2>19 DEF PassLock
  <2>20. ASSUME NEW e \in Evictions, SweepKeys(e) PROVE NoOldCredentialSurvives'
    BY <2>20 DEF SweepKeys
  <2>21. ASSUME NEW e \in Evictions, PassCommit(e) PROVE NoOldCredentialSurvives'
    BY <2>21 DEF PassCommit, Revoking, ActiveClients
  <2>22. ASSUME NEW e \in Evictions, EvictionCrash(e) PROVE NoOldCredentialSurvives'
    BY <2>22 DEF EvictionCrash
  <2>23. ASSUME Tick PROVE NoOldCredentialSurvives'
    BY <2>23 DEF Tick
  <2>24. CASE UNCHANGED vars
    BY <2>24 DEF vars
  <2>25. QED
    <3> HIDE DEF Shape, Fence, NoOldCredentialSurvives
    <3> QED
      BY <2>1, <2>2, <2>3, <2>4, <2>5, <2>6, <2>7, <2>8, <2>9, <2>10, <2>11,
         <2>12, <2>13, <2>14, <2>15, <2>16, <2>17, <2>18, <2>19, <2>20, <2>21,
         <2>22, <2>23, <2>24 DEF Next, Start, Issue, Evict
<1>e. CheckedIsFresh'
  <2> USE DEF Shape, TypeOK, RequestsPoint, Fence, LocksExclude, CheckedIsFresh,
             NoOldCredentialSurvives, Sharing, Sweeping, Over, MayInsert, RootOf, rows,
             secrets, request, eviction
  <2>1. ASSUME NEW s \in Sessions, SignIn(s) PROVE CheckedIsFresh'
    BY <2>1 DEF SignIn
  <2>2. ASSUME NEW s \in Sessions, SignOut(s) PROVE CheckedIsFresh'
    BY <2>2 DEF SignOut
  <2>3. ASSUME NEW q \in Requests, NEW w \in Ways,
               NEW id \in Sessions \cup Creds \cup Requests \cup {None},
               Authenticate(q, w, id)
        PROVE  CheckedIsFresh'
    BY <2>3 DEF Authenticate, Ways
  <2>4. ASSUME NEW q \in Requests, NEW c \in Creds, RotateRead(q, c)
        PROVE  CheckedIsFresh'
    BY <2>4 DEF RotateRead
  <2>5. ASSUME NEW q \in Requests, NEW c \in Creds, VerifyCredential(q, c)
        PROVE  CheckedIsFresh'
    BY <2>5 DEF VerifyCredential
  <2>6. ASSUME NEW q \in Requests, EnterFence(q) PROVE CheckedIsFresh'
    BY <2>6 DEF EnterFence, Ways
  <2>7. ASSUME NEW q \in Requests, Recheck(q) PROVE CheckedIsFresh'
    BY <2>7 DEF Recheck, SourceLive, SourceActive, Ways
  <2>8. ASSUME NEW q \in Requests, NEW c \in Creds, NEW f \in {"key", "client"},
               Insert(q, c, f)
        PROVE  CheckedIsFresh'
    BY <2>8 DEF Insert
  <2>9. ASSUME NEW q \in Requests, RotateLock(q) PROVE CheckedIsFresh'
    BY <2>9 DEF RotateLock
  <2>10. ASSUME NEW q \in Requests, NEW c \in Creds, RotateSwap(q, c)
         PROVE  CheckedIsFresh'
    BY <2>10 DEF RotateSwap, Succeeds
  <2>11. ASSUME NEW q \in Requests, MintToken(q) PROVE CheckedIsFresh'
    BY <2>11 DEF MintToken
  <2>12. ASSUME NEW q \in Requests, Abandon(q) PROVE CheckedIsFresh'
    BY <2>12 DEF Abandon
  <2>13. ASSUME NEW q \in Requests, TokenExpires(q) PROVE CheckedIsFresh'
    BY <2>13 DEF TokenExpires
  <2>14. ASSUME NEW c \in Creds, RevokeOne(c) PROVE CheckedIsFresh'
    BY <2>14 DEF RevokeOne
  <2>15. ASSUME NEW c \in Creds, RotateSecret(c) PROVE CheckedIsFresh'
    BY <2>15 DEF RotateSecret
  <2>16. ASSUME NEW e \in Evictions, ReplacePassword(e) PROVE CheckedIsFresh'
    BY <2>16 DEF ReplacePassword
  <2>17. ASSUME NEW e \in Evictions, EndSessions(e) PROVE CheckedIsFresh'
    BY <2>17 DEF EndSessions
  <2>18. ASSUME NEW e \in Evictions, EndSessionsFails(e) PROVE CheckedIsFresh'
    BY <2>18 DEF EndSessionsFails
  <2>19. ASSUME NEW e \in Evictions, PassLock(e) PROVE CheckedIsFresh'
    BY <2>19 DEF PassLock
  <2>20. ASSUME NEW e \in Evictions, SweepKeys(e) PROVE CheckedIsFresh'
    BY <2>20 DEF SweepKeys
  <2>21. ASSUME NEW e \in Evictions, PassCommit(e) PROVE CheckedIsFresh'
    BY <2>21 DEF PassCommit, Revoking
  <2>22. ASSUME NEW e \in Evictions, EvictionCrash(e) PROVE CheckedIsFresh'
    BY <2>22 DEF EvictionCrash
  <2>23. ASSUME Tick PROVE CheckedIsFresh'
    BY <2>23 DEF Tick
  <2>24. CASE UNCHANGED vars
    BY <2>24 DEF vars
  <2>25. QED
    <3> HIDE DEF Shape, Fence, CheckedIsFresh
    <3> QED
      BY <2>1, <2>2, <2>3, <2>4, <2>5, <2>6, <2>7, <2>8, <2>9, <2>10, <2>11,
         <2>12, <2>13, <2>14, <2>15, <2>16, <2>17, <2>18, <2>19, <2>20, <2>21,
         <2>22, <2>23, <2>24 DEF Next, Start, Issue, Evict
<1>f. QED
  BY <1>a, <1>b, <1>c, <1>d, <1>e DEF Fence

LEMMA FenceHolds == Spec => []Fence
<1>1. Init => Fence
  BY DEF Init, Fence, LocksExclude, SessionsGone, SweptSessions, SweptIsAll, CheckedIsFresh,
         NoOldCredentialSurvives, Sweeping
<1>2. QED
  BY <1>1, FenceKept, ShapeHolds, PTL DEF Spec

(* F-10, for any number of credentials, sessions, requests and evictions: an *)
(* eviction that has reported success leaves no active key or client that    *)
(* goes back to an old session or credential, and no old session.            *)
THEOREM EvictionIsComplete == Spec => []NoOldCredentialSurvives
BY FenceHolds, PTL DEF Fence

(* The inductive invariant the two results above rest on, as it is checked:  *)
(* the two locks exclude each other, a pass sees every old key, and what has *)
(* passed the fence's re-check goes back to no old source.                   *)
THEOREM FenceBookkeepingHolds == Spec => []FenceBookkeeping
<1>1. Shape /\ Fence => FenceBookkeeping
  BY DEF Shape, Fence, FenceBookkeeping
<1>2. QED
  BY <1>1, FenceHolds, ShapeHolds, PTL
=============================================================================
