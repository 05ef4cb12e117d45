------------------------ MODULE RegistryCacheProofs ------------------------
(***************************************************************************)
(* The age of what the cache answers, for any number of scans and for all  *)
(* values of the TTL, of the time a scan may be held up, and of the error  *)
(* of the clock.                                                           *)
(*                                                                         *)
(* AnswersAreCurrent is not inductive: that an old archive answers depends *)
(* on metadata that some other scan wrote, with a time taken before.  The  *)
(* invariant CacheInv relates each file and each scan to elapsed time.     *)
(***************************************************************************)
EXTENDS RegistryCache, TLAPS

Writing == {"downloaded", "stamped", "archived", "asked"}

\* A scan between two dependent steps is there for at most Hold, and writes
\* what it fetched when it came there.
Prompt ==
    \A s \in Scans :
        /\ scan[s].at \in Dependent =>
             scan[s].since <= elapsed /\ elapsed <= scan[s].since + Hold
        /\ scan[s].at \in Writing => scan[s].asOf = scan[s].since

\* What files say of time: a content is not from the future, a stamp is ahead
\* of true time by the error of the clock at most, and it is honest.
FilesOnTime ==
    /\ archive # None => archive <= elapsed
    /\ metadata # None => metadata <= elapsed + MaxSkew
    /\ MetadataIsHonest
    /\ entry # None =>
         /\ entry.asOf <= elapsed
         /\ entry.fetchedAt <= entry.asOf + Hold + MaxSkew

\* A stamp taken but not yet written is as honest, about its own archive and
\* about any that another scan puts there in the meantime.
StampsOnTime ==
    \A s \in Scans :
        /\ scan[s].at \in {"stamped", "archived"} =>
             scan[s].stamp <= elapsed + MaxSkew
        /\ scan[s].at = "archived" /\ Parses(archive) =>
             scan[s].stamp <= archive + Hold + MaxSkew

\* Metadata found fresh vouches for the archive until it is read.
FreshMeansYoung ==
    \A s \in Scans :
        scan[s].at = "fresh" /\ Parses(archive) =>
            scan[s].since <= archive + TTL + Hold + MaxSkew

CacheInv ==
    /\ TypeOK
    /\ Prompt
    /\ FilesOnTime
    /\ StampsOnTime
    /\ FreshMeansYoung
    /\ AnswersAreCurrent

-----------------------------------------------------------------------------
(***************************************************************************)
(* The records that scans move to.                                         *)
(***************************************************************************)
\* A scan outside a lookup has the type of a scan.
LEMMA IdleType == Idle \in ScanState
  BY TimesAssumption, SMT DEF Idle, ScanState, Moments, Places

\* So has one that has just fetched, metadata that it found fresh, or its
\* time taken.
LEMMA MovedType ==
  ASSUME NEW q \in ScanState, NEW a \in Places
  PROVE  /\ [q EXCEPT !.at = a] \in ScanState
         /\ \A t \in Moments : [q EXCEPT !.at = a, !.since = t] \in ScanState
         /\ \A t \in Moments : [q EXCEPT !.at = a, !.asOf = t, !.since = t] \in ScanState
         /\ \A t \in Stamps : [q EXCEPT !.at = a, !.stamp = t] \in ScanState
  BY Zenon DEF ScanState

-----------------------------------------------------------------------------
(***************************************************************************)
(* CacheInv holds of an empty cache and every step keeps it.               *)
(***************************************************************************)
LEMMA CacheInvInit == Init => CacheInv
  BY TimesAssumption, SMT DEF Init, Idle, CacheInv, TypeOK, Prompt, FilesOnTime, StampsOnTime, FreshMeansYoung, AnswersAreCurrent, MetadataIsHonest, ScanState, Moments, Stamps, Places, Dependent, Writing, Parses, Garbage

\* Every step of the clock, the disk and the scans keeps the bounds.
LEMMA CacheInvNext == CacheInv /\ [Next]_vars => CacheInv'
  <1> SUFFICES ASSUME CacheInv, [Next]_vars PROVE CacheInv'
    OBVIOUS
  <1> USE TimesAssumption DEF CacheInv, TypeOK, Prompt, FilesOnTime, StampsOnTime, FreshMeansYoung, AnswersAreCurrent, MetadataIsHonest, ScanState, Moments, Stamps, Places, Dependent, Writing, Parses, Garbage
  <1>1. CASE Tick
    BY <1>1, SMT DEF Tick, cache
  <1>2. CASE SetClock
    BY <1>2, SMT DEF SetClock, cache
  <1>3. CASE Damage
    BY <1>3, SMT DEF Damage, clock
  <1>4. ASSUME NEW s \in Scans, ReadMetadata(s) PROVE CacheInv'
    <2> USE <1>4 DEF ReadMetadata, Move, Idle, IsFresh, Wall, clock, cache
    <2> DEFINE r == IF metadata # None /\ IsFresh(metadata)
                  THEN [Idle EXCEPT !.at = "fresh", !.since = elapsed]
                  ELSE [Idle EXCEPT !.at = "download"]
    <2>1. TypeOK'
      <3>1. r \in ScanState
        <4>1. elapsed \in Moments /\ {"fresh", "download"} \subseteq Places
          BY SMT
        <4> HIDE DEF Idle, ScanState, Moments, Stamps, Places, Wall
        <4> QED
          BY <4>1, IdleType, MovedType, Zenon
      <3>2. scan' = [scan EXCEPT ![s] = r]
        BY SMT
      <3>3. scan' \in [Scans -> ScanState]
        <4> HIDE DEF r
        <4> QED
          BY <3>1, <3>2, SMT
      <3> QED
        BY <3>3, SMT
    <2>2. Prompt'
      BY SMT
    <2>3. FilesOnTime'
      BY SMT
    <2>4. StampsOnTime'
      BY SMT
    <2>5. FreshMeansYoung'
      BY SMT
    <2>6. AnswersAreCurrent'
      BY SMT
    <2> QED
      BY <2>1, <2>2, <2>3, <2>4, <2>5, <2>6
  <1>5. ASSUME NEW s \in Scans, ReadArchive(s) PROVE CacheInv'
    BY <1>5, SMT DEF ReadArchive, Move, Idle, Answered, IsFresh, Wall, clock, cache
  <1>6. ASSUME NEW s \in Scans, Download(s) PROVE CacheInv'
    <2> USE <1>6 DEF Download, Move, Idle, IsFresh, Wall, clock, cache
    <2> DEFINE r == [Idle EXCEPT !.at = "downloaded", !.asOf = elapsed, !.since = elapsed]
    <2>1. TypeOK'
      <3>1. r \in ScanState
        <4>1. elapsed \in Moments /\ "downloaded" \in Places
          BY SMT
        <4> HIDE DEF Idle, ScanState, Moments, Stamps, Places, Wall
        <4> QED
          BY <4>1, IdleType, MovedType, Zenon
      <3>2. scan' = [scan EXCEPT ![s] = r]
        BY SMT
      <3>3. scan' \in [Scans -> ScanState]
        <4> HIDE DEF r
        <4> QED
          BY <3>1, <3>2, SMT
      <3> QED
        BY <3>3, SMT
    <2>2. Prompt'
      BY SMT
    <2>3. FilesOnTime'
      BY SMT
    <2>4. StampsOnTime'
      BY SMT
    <2>5. FreshMeansYoung'
      BY SMT
    <2>6. AnswersAreCurrent'
      BY SMT
    <2> QED
      BY <2>1, <2>2, <2>3, <2>4, <2>5, <2>6
  <1>7. ASSUME NEW s \in Scans, DownloadFails(s) PROVE CacheInv'
    BY <1>7, SMT DEF DownloadFails, Move, Idle, Answered, IsFresh, Wall, clock, cache
  <1>8. ASSUME NEW s \in Scans, TakeTime(s) PROVE CacheInv'
    <2> USE <1>8 DEF TakeTime, Move, Idle, IsFresh, Wall, clock, cache
    <2> DEFINE r == [scan[s] EXCEPT !.at = "stamped", !.stamp = Wall]
    <2>1. TypeOK'
      <3>1. r \in ScanState
        <4>1. Wall \in Stamps /\ "stamped" \in Places /\ scan[s] \in ScanState
          BY SMT
        <4> HIDE DEF Idle, ScanState, Moments, Stamps, Places, Wall
        <4> QED
          BY <4>1, MovedType, Zenon
      <3>2. scan' = [scan EXCEPT ![s] = r]
        BY SMT
      <3>3. scan' \in [Scans -> ScanState]
        <4> HIDE DEF r
        <4> QED
          BY <3>1, <3>2, SMT
      <3> QED
        BY <3>3, SMT
    <2>2. Prompt'
      BY SMT
    <2>3. FilesOnTime'
      BY SMT
    <2>4. StampsOnTime'
      BY SMT
    <2>5. FreshMeansYoung'
      BY SMT
    <2>6. AnswersAreCurrent'
      BY SMT
    <2> QED
      BY <2>1, <2>2, <2>3, <2>4, <2>5, <2>6
  <1>9. ASSUME NEW s \in Scans, WriteArchive(s) PROVE CacheInv'
    BY <1>9, SMT DEF WriteArchive, Move, Idle, Answered, IsFresh, Wall, clock, cache
  <1>10. ASSUME NEW s \in Scans, WriteMetadata(s) PROVE CacheInv'
    BY <1>10, SMT DEF WriteMetadata, Move, Idle, Answered, IsFresh, Wall, clock, cache
  <1>11. ASSUME NEW s \in Scans, WriteFails(s) PROVE CacheInv'
    BY <1>11, SMT DEF WriteFails, Move, Idle, Answered, IsFresh, Wall, clock, cache
  <1>12. ASSUME NEW s \in Scans, ReadEntry(s) PROVE CacheInv'
    BY <1>12, SMT DEF ReadEntry, Move, Idle, Answered, IsFresh, Wall, clock, cache
  <1>13. ASSUME NEW s \in Scans, Ask(s) PROVE CacheInv'
    <2> USE <1>13 DEF Ask, Move, Idle, IsFresh, Wall, clock, cache
    <2> DEFINE r == [Idle EXCEPT !.at = "asked", !.asOf = elapsed, !.since = elapsed]
    <2>1. TypeOK'
      <3>1. r \in ScanState
        <4>1. elapsed \in Moments /\ "asked" \in Places
          BY SMT
        <4> HIDE DEF Idle, ScanState, Moments, Stamps, Places, Wall
        <4> QED
          BY <4>1, IdleType, MovedType, Zenon
      <3>2. scan' = [scan EXCEPT ![s] = r]
        BY SMT
      <3>3. scan' \in [Scans -> ScanState]
        <4> HIDE DEF r
        <4> QED
          BY <3>1, <3>2, SMT
      <3> QED
        BY <3>3, SMT
    <2>2. Prompt'
      BY SMT
    <2>3. FilesOnTime'
      BY SMT
    <2>4. StampsOnTime'
      BY SMT
    <2>5. FreshMeansYoung'
      BY SMT
    <2>6. AnswersAreCurrent'
      BY SMT
    <2> QED
      BY <2>1, <2>2, <2>3, <2>4, <2>5, <2>6
  <1>14. ASSUME NEW s \in Scans, WriteEntry(s) PROVE CacheInv'
    BY <1>14, SMT DEF WriteEntry, Move, Idle, Answered, IsFresh, Wall, clock, cache
  <1>15. ASSUME NEW s \in Scans, Crash(s) PROVE CacheInv'
    BY <1>15, SMT DEF Crash, Move, Idle, Answered, IsFresh, Wall, clock, cache
  <1>16. CASE UNCHANGED vars
    BY <1>16, SMT DEF vars
  <1> QED
    BY <1>1, <1>2, <1>3, <1>4, <1>5, <1>6, <1>7, <1>8, <1>9, <1>10, <1>11, <1>12, <1>13, <1>14, <1>15, <1>16 DEF Next, Lookup

\* A step changes the archive by damage, or to what a prompt scan fetched.
LEMMA ArchiveStep ==
  CacheInv /\ [Next]_vars =>
    [Parses(archive) /\ Parses(archive') => archive' >= archive - Hold]_vars
  <1> SUFFICES ASSUME CacheInv, Next, Parses(archive), Parses(archive')
               PROVE  archive' >= archive - Hold
    BY DEF vars
  <1>1. archive \in Moments /\ archive <= elapsed /\ elapsed \in Moments
    BY SMT DEF CacheInv, TypeOK, FilesOnTime, Parses
  <1>2. CASE archive' = archive
    BY <1>1, <1>2, TimesAssumption, SMT DEF Moments
  <1>3. CASE Damage
    BY <1>3 DEF Damage, Parses
  <1>4. ASSUME NEW s \in Scans, WriteArchive(s)
        PROVE  archive' >= archive - Hold
    <2>1. scan[s] \in ScanState /\ scan[s].at = "stamped" /\ archive' = scan[s].asOf
      BY <1>4 DEF WriteArchive, CacheInv, TypeOK
    <2>2. scan[s].since \in Moments
      BY <2>1, <1>4, SMT DEF CacheInv, TypeOK, ScanState, Dependent
    <2>3. scan[s].asOf = scan[s].since /\ elapsed <= scan[s].since + Hold
      BY <2>1 DEF CacheInv, Prompt, Dependent, Writing
    <2> QED
      BY <1>1, <2>1, <2>2, <2>3, TimesAssumption, SMT DEF Moments
  <1> QED
    BY <1>2, <1>3, <1>4 DEF Next, Lookup, cache, clock, Tick, SetClock,
       ReadMetadata, ReadArchive, Download, DownloadFails, TakeTime,
       WriteMetadata, WriteFails, ReadEntry, Ask, WriteEntry, Crash

-----------------------------------------------------------------------------
\* Every state that scans and the clock reach satisfies CacheInv.
THEOREM CacheInvariant == Spec => []CacheInv
  BY CacheInvInit, CacheInvNext, PTL DEF Spec

\* The files and the scans keep their types: is_fresh never compares with a
\* time that was not written.
THEOREM CacheTypeSafe == Spec => []TypeOK
  BY CacheInvariant, PTL DEF CacheInv

\* An answer of the cache is at most TTL + 2 Hold + MaxSkew old.
THEOREM CacheIsCurrent == Spec => []AnswersAreCurrent
  BY CacheInvariant, PTL DEF CacheInv

\* The metadata file never says that the archive is younger than it is by
\* more than Hold + MaxSkew, whichever scans wrote the two.
THEOREM CacheIsHonest == Spec => []MetadataIsHonest
  <1>1. CacheInv => MetadataIsHonest
    BY DEF CacheInv, FilesOnTime
  <1> QED
    BY CacheInvariant, <1>1, PTL

\* No write puts a snapshot in the place of one that is younger by more than
\* Hold.
THEOREM CacheRegressesLittle == Spec => SnapshotRegressesLittle
  BY CacheInvariant, ArchiveStep, PTL DEF Spec, SnapshotRegressesLittle
=============================================================================
