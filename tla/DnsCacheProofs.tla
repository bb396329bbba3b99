--------------------------- MODULE DnsCacheProofs ---------------------------
(***************************************************************************)
(* Proofs about DnsCache, for any callers, refresh tasks and number of     *)
(* network changes.                                                        *)
(***************************************************************************)
EXTENDS DnsCache, TLAPS

-----------------------------------------------------------------------------
(* The inductive invariant.                                                *)

\* The caller that resolves runs the one lookup of try_get_with, which began
\* in that caller's generation.
LookupOK ==
    \A c \in Callers : pc[c] = "resolving" => owner = c /\ begun = gen[c]

IInv == TypeOK /\ LookupOK /\ OldLookupLeaves /\ MarkerHasTask

-----------------------------------------------------------------------------
(* It holds at the start, and every step keeps it.                         *)

\* The cache starts empty, with nobody at work.
LEMMA InvInit == Init => IInv
<1> SUFFICES ASSUME Init PROVE IInv
  OBVIOUS
<1>1. TypeOK
  <2>1. marker \in BOOLEAN
    BY Zenon DEF Init
  <2>2. /\ entry \in Entries
        /\ generation \in 0..MaxChanges /\ resolver \in 0..generation
        /\ changer \in {"idle", "invalidating", "releasing", "building"}
        /\ asked \in 0..MaxChanges /\ begun \in 0..MaxChanges
    BY DnsAssumption DEF Init, Entries, NoEntry
  <2>3. /\ gen \in [Callers -> 0..generation]
        /\ taskGen \in [Refreshes -> 0..generation]
        /\ taskAsked \in [Refreshes -> 0..generation]
    BY DnsAssumption DEF Init
  <2> QED
    BY <2>1, <2>2, <2>3, Zenon DEF Init, TypeOK
<1>2. LookupOK /\ OldLookupLeaves /\ MarkerHasTask
  BY DEF Init, LookupOK, OldLookupLeaves, MarkerHasTask, NoEntry
<1> QED
  BY <1>1, <1>2 DEF IInv

\* A generation that was read is never ahead of the current one, and the owner
\* of the lookup is a caller that resolves.
LEMMA TypeStep == IInv /\ [Next]_vars => TypeOK'
<1> SUFFICES ASSUME IInv, [Next]_vars PROVE TypeOK'
  OBVIOUS
<1> USE DnsAssumption DEF IInv, TypeOK, LookupOK, Entries, NoEntry, NoCaller,
        cache, network, lookups, tasks
<1>1. CASE Expire
  BY <1>1 DEF Expire
<1>2. ASSUME NEW c \in Callers, Miss(c) PROVE TypeOK'
  BY <1>2 DEF Miss
<1>3. ASSUME NEW c \in Callers, Ask(c) PROVE TypeOK'
  BY <1>3 DEF Ask
<1>4. ASSUME NEW c \in Callers, Resolved(c) PROVE TypeOK'
  BY <1>4 DEF Resolved, Entry
<1>5. ASSUME NEW c \in Callers, GiveUp(c) PROVE TypeOK'
  BY <1>5 DEF GiveUp
<1>6. ASSUME NEW c \in Callers, Check(c) PROVE TypeOK'
  BY <1>6 DEF Check
<1>7. ASSUME NEW t \in Refreshes, ServeStale(t) PROVE TypeOK'
  BY <1>7 DEF ServeStale
<1>8. ASSUME NEW t \in Refreshes, RefreshStart(t) PROVE TypeOK'
  BY <1>8 DEF RefreshStart
<1>9. ASSUME NEW t \in Refreshes, RefreshResolved(t) PROVE TypeOK'
  BY <1>9 DEF RefreshResolved
<1>10. ASSUME NEW t \in Refreshes, RefreshInsert(t) PROVE TypeOK'
  BY <1>10 DEF RefreshInsert, Entry
<1>11. ASSUME NEW t \in Refreshes, RefreshEnd(t) PROVE TypeOK'
  BY <1>11 DEF RefreshEnd
<1>12. CASE ChangeBump
  BY <1>12 DEF ChangeBump
<1>13. CASE ChangeInvalidate
  BY <1>13 DEF ChangeInvalidate
<1>14. CASE ChangeRelease
  BY <1>14 DEF ChangeRelease
<1>15. CASE ChangeInstall
  BY <1>15 DEF ChangeInstall
<1>16. CASE ChangeFails
  BY <1>16 DEF ChangeFails
<1>17. CASE UNCHANGED vars
  BY <1>17 DEF vars
<1> HIDE DEF IInv, TypeOK
<1> QED
  BY <1>1, <1>2, <1>3, <1>4, <1>5, <1>6, <1>7, <1>8, <1>9, <1>10, <1>11,
     <1>12, <1>13, <1>14, <1>15, <1>16, <1>17
  DEF Next

\* A second lookup starts only when the first is over.
LEMMA LookupStep == IInv /\ [Next]_vars => LookupOK'
<1> SUFFICES ASSUME IInv, [Next]_vars PROVE LookupOK'
  OBVIOUS
<1> USE DnsAssumption DEF IInv, TypeOK, LookupOK, NoCaller, cache, network, lookups, tasks
<1>1. CASE Expire
  BY <1>1 DEF Expire
<1>2. ASSUME NEW c \in Callers, Miss(c) PROVE LookupOK'
  BY <1>2 DEF Miss
<1>3. ASSUME NEW c \in Callers, Ask(c) PROVE LookupOK'
  BY <1>3 DEF Ask
<1>4. ASSUME NEW c \in Callers, Resolved(c) PROVE LookupOK'
  BY <1>4 DEF Resolved, Entry
<1>5. ASSUME NEW c \in Callers, GiveUp(c) PROVE LookupOK'
  BY <1>5 DEF GiveUp
<1>6. ASSUME NEW c \in Callers, Check(c) PROVE LookupOK'
  BY <1>6 DEF Check
<1>7. ASSUME NEW t \in Refreshes, ServeStale(t) PROVE LookupOK'
  BY <1>7 DEF ServeStale
<1>8. ASSUME NEW t \in Refreshes, RefreshStart(t) PROVE LookupOK'
  BY <1>8 DEF RefreshStart
<1>9. ASSUME NEW t \in Refreshes, RefreshResolved(t) PROVE LookupOK'
  BY <1>9 DEF RefreshResolved
<1>10. ASSUME NEW t \in Refreshes, RefreshInsert(t) PROVE LookupOK'
  BY <1>10 DEF RefreshInsert, Entry
<1>11. ASSUME NEW t \in Refreshes, RefreshEnd(t) PROVE LookupOK'
  BY <1>11 DEF RefreshEnd
<1>12. CASE ChangeBump
  BY <1>12 DEF ChangeBump
<1>13. CASE ChangeInvalidate
  BY <1>13 DEF ChangeInvalidate
<1>14. CASE ChangeRelease
  BY <1>14 DEF ChangeRelease
<1>15. CASE ChangeInstall
  BY <1>15 DEF ChangeInstall
<1>16. CASE ChangeFails
  BY <1>16 DEF ChangeFails
<1>17. CASE UNCHANGED vars
  BY <1>17 DEF vars
<1> HIDE DEF IInv, LookupOK
<1> QED
  BY <1>1, <1>2, <1>3, <1>4, <1>5, <1>6, <1>7, <1>8, <1>9, <1>10, <1>11,
     <1>12, <1>13, <1>14, <1>15, <1>16, <1>17
  DEF Next

\* An old answer enters the cache with a caller that will check it.
LEMMA OldLookupStep == IInv /\ [Next]_vars => OldLookupLeaves'
<1> SUFFICES ASSUME IInv, [Next]_vars PROVE OldLookupLeaves'
  OBVIOUS
<1> USE DnsAssumption DEF IInv, TypeOK, LookupOK, OldLookupLeaves, Entries,
        NoEntry, cache, network, lookups, tasks
<1>1. CASE Expire
  BY <1>1 DEF Expire
<1>2. ASSUME NEW c \in Callers, Miss(c) PROVE OldLookupLeaves'
  BY <1>2 DEF Miss
<1>3. ASSUME NEW c \in Callers, Ask(c) PROVE OldLookupLeaves'
  BY <1>3 DEF Ask
<1>4. ASSUME NEW c \in Callers, Resolved(c) PROVE OldLookupLeaves'
  BY <1>4 DEF Resolved, Entry
<1>5. ASSUME NEW c \in Callers, GiveUp(c) PROVE OldLookupLeaves'
  BY <1>5 DEF GiveUp
<1>6. ASSUME NEW c \in Callers, Check(c) PROVE OldLookupLeaves'
  BY <1>6 DEF Check
<1>7. ASSUME NEW t \in Refreshes, ServeStale(t) PROVE OldLookupLeaves'
  BY <1>7 DEF ServeStale
<1>8. ASSUME NEW t \in Refreshes, RefreshStart(t) PROVE OldLookupLeaves'
  BY <1>8 DEF RefreshStart
<1>9. ASSUME NEW t \in Refreshes, RefreshResolved(t) PROVE OldLookupLeaves'
  BY <1>9 DEF RefreshResolved
<1>10. ASSUME NEW t \in Refreshes, RefreshInsert(t) PROVE OldLookupLeaves'
  BY <1>10 DEF RefreshInsert, Entry
<1>11. ASSUME NEW t \in Refreshes, RefreshEnd(t) PROVE OldLookupLeaves'
  BY <1>11 DEF RefreshEnd
<1>12. CASE ChangeBump
  BY <1>12 DEF ChangeBump
<1>13. CASE ChangeInvalidate
  BY <1>13 DEF ChangeInvalidate
<1>14. CASE ChangeRelease
  BY <1>14 DEF ChangeRelease
<1>15. CASE ChangeInstall
  BY <1>15 DEF ChangeInstall
<1>16. CASE ChangeFails
  BY <1>16 DEF ChangeFails
<1>17. CASE UNCHANGED vars
  BY <1>17 DEF vars
<1> HIDE DEF IInv, OldLookupLeaves
<1> QED
  BY <1>1, <1>2, <1>3, <1>4, <1>5, <1>6, <1>7, <1>8, <1>9, <1>10, <1>11,
     <1>12, <1>13, <1>14, <1>15, <1>16, <1>17
  DEF Next

\* The marker is set by a task that starts and cleared by one that ends.
LEMMA MarkerStep == IInv /\ [Next]_vars => MarkerHasTask'
<1> SUFFICES ASSUME IInv, [Next]_vars PROVE MarkerHasTask'
  OBVIOUS
<1> USE DEF IInv, TypeOK, MarkerHasTask, cache, network, lookups, tasks
<1>1. CASE Expire
  BY <1>1 DEF Expire
<1>2. ASSUME NEW c \in Callers, Miss(c) PROVE MarkerHasTask'
  BY <1>2 DEF Miss
<1>3. ASSUME NEW c \in Callers, Ask(c) PROVE MarkerHasTask'
  BY <1>3 DEF Ask
<1>4. ASSUME NEW c \in Callers, Resolved(c) PROVE MarkerHasTask'
  BY <1>4 DEF Resolved, Entry
<1>5. ASSUME NEW c \in Callers, GiveUp(c) PROVE MarkerHasTask'
  BY <1>5 DEF GiveUp
<1>6. ASSUME NEW c \in Callers, Check(c) PROVE MarkerHasTask'
  BY <1>6 DEF Check
<1>7. ASSUME NEW t \in Refreshes, ServeStale(t) PROVE MarkerHasTask'
  BY <1>7 DEF ServeStale
<1>8. ASSUME NEW t \in Refreshes, RefreshStart(t) PROVE MarkerHasTask'
  BY <1>8 DEF RefreshStart
<1>9. ASSUME NEW t \in Refreshes, RefreshResolved(t) PROVE MarkerHasTask'
  BY <1>9 DEF RefreshResolved
<1>10. ASSUME NEW t \in Refreshes, RefreshInsert(t) PROVE MarkerHasTask'
  BY <1>10 DEF RefreshInsert, Entry
<1>11. ASSUME NEW t \in Refreshes, RefreshEnd(t) PROVE MarkerHasTask'
  BY <1>11 DEF RefreshEnd
<1>12. CASE ChangeBump
  BY <1>12 DEF ChangeBump
<1>13. CASE ChangeInvalidate
  BY <1>13 DEF ChangeInvalidate
<1>14. CASE ChangeRelease
  BY <1>14 DEF ChangeRelease
<1>15. CASE ChangeInstall
  BY <1>15 DEF ChangeInstall
<1>16. CASE ChangeFails
  BY <1>16 DEF ChangeFails
<1>17. CASE UNCHANGED vars
  BY <1>17 DEF vars
<1> HIDE DEF IInv, MarkerHasTask
<1> QED
  BY <1>1, <1>2, <1>3, <1>4, <1>5, <1>6, <1>7, <1>8, <1>9, <1>10, <1>11,
     <1>12, <1>13, <1>14, <1>15, <1>16, <1>17
  DEF Next

-----------------------------------------------------------------------------
(* The theorems.                                                           *)

\* The inductive invariant holds in every reachable state.
THEOREM Inductive == Spec => []IInv
<1>1. IInv /\ [Next]_vars => IInv'
  BY TypeStep, LookupStep, OldLookupStep, MarkerStep DEF IInv
<1> QED
  BY InvInit, <1>1, PTL DEF Spec

\* What a caller looked up before a network change does not stay in the cache
\* after it: as long as it is there, the change has yet to clear the cache or
\* a caller has yet to compare the generations.
THEOREM OldAnswersLeave == Spec => []OldLookupLeaves
<1>1. IInv => OldLookupLeaves
  BY DEF IInv
<1> QED
  BY Inductive, <1>1, PTL

\* No caller that gives up and no refresh that ends, in whatever order with a
\* network change, leaves a marker without a task or a lookup without a caller.
THEOREM NobodyLeavesAMarker == Spec => []NothingLeftBehind
<1>1. IInv => NothingLeftBehind
  BY DEF IInv, NothingLeftBehind
<1> QED
  BY Inductive, <1>1, PTL
=============================================================================
