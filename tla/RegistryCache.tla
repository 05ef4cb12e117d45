--------------------------- MODULE RegistryCache ---------------------------
(***************************************************************************)
(* The cache of vibescan-registry, a directory that every scan of a user   *)
(* shares: the advisory snapshot of an ecosystem, kept as an archive file  *)
(* and a metadata file with its time, and the existence answer for a       *)
(* package, kept in one file.  Scans run at the same time, crash, and read *)
(* the wall clock, which may be set.                                       *)
(*                                                                         *)
(* atomic_write renames a complete temporary file over the entry, so a     *)
(* write is one step that happens or does not.  What a fetch brings is     *)
(* represented by the moment at which it was the registry's answer.        *)
(***************************************************************************)
EXTENDS Integers

CONSTANTS
    Scans,          \* processes that use the cache
    TTL,            \* RegistryCache::ttl
    Hold,           \* bound: what a scan lets pass between two dependent steps
    MaxSkew,        \* bound: how far the wall clock is ahead of elapsed time
    MaxTime,        \* bound: elapsed time of a behaviour
    MaxDamage,      \* bound: times the archive is damaged from outside
    None

ASSUME TimesAssumption ==
    /\ TTL \in Nat /\ Hold \in Nat /\ MaxSkew \in Nat
    /\ MaxTime \in Nat /\ MaxDamage \in Nat
    /\ None \notin Int

Garbage == -1       \* an archive that parse_osv_snapshot rejects

VARIABLES
    elapsed,        \* true time
    skew,           \* wall clock minus elapsed time
    archive,        \* osv/<ecosystem>.zip: moment of the snapshot, or Garbage
    metadata,       \* osv/<ecosystem>.json: fetched_at
    entry,          \* existence/<hash>.json: [asOf, fetchedAt]
    scan,           \* scan[s]: what the process knows, and its last answer
    damage          \* times the archive was damaged

vars == <<elapsed, skew, archive, metadata, entry, scan, damage>>
cache == <<archive, metadata, entry>>
clock == <<elapsed, skew>>

Moments == 0..MaxTime
Stamps == 0..(MaxTime + MaxSkew)

\* Where a scan is: outside a lookup; with fresh metadata read; about to
\* download; with a downloaded snapshot; with its time taken; with the archive
\* written; and the two steps of an existence lookup.
Places == {"idle", "fresh", "download", "downloaded", "stamped", "archived",
           "ask", "asked"}

\* Lookups whose next step depends on a moment already taken.
Dependent == {"fresh", "downloaded", "stamped", "archived", "asked"}

Wall == elapsed + skew

\* Content and time a scan is to write, the moment its next step depends on,
\* and how old its last answer was.
Idle == [at |-> "idle", asOf |-> None, stamp |-> None, since |-> None, age |-> 0]

Answered(asOf) == [Idle EXCEPT !.age = elapsed - asOf]

Move(s, r) == scan' = [scan EXCEPT ![s] = r]

\* Mutant: the time left is compared the other way round.
StillValid(fetchedAt) == fetchedAt - Wall <= TTL

\* saturating_sub: a time in the future is fresh.
IsFresh(fetchedAt) == Wall - fetchedAt <= TTL

\* Mutant: the cached archive is used unseen.
Accepts(a) == a # None

Parses(a) == a # None /\ a # Garbage

-----------------------------------------------------------------------------
Init ==
    /\ elapsed = 0
    /\ skew \in 0..MaxSkew
    /\ archive = None
    /\ metadata = None
    /\ entry = None
    /\ scan = [s \in Scans |-> Idle]
    /\ damage = 0

\* Time passes, but a scan is not held up for longer than Hold.
Tick ==
    /\ elapsed < MaxTime
    /\ \A s \in Scans : scan[s].at \in Dependent => elapsed < scan[s].since + Hold
    /\ elapsed' = elapsed + 1
    /\ UNCHANGED <<skew, cache, scan, damage>>

SetClock ==
    /\ skew' \in (0..MaxSkew) \ {skew}
    /\ UNCHANGED <<elapsed, cache, scan, damage>>

\* A crash of the machine or a full disk leaves an unusable archive.
Damage ==
    /\ damage < MaxDamage
    /\ Parses(archive)
    /\ archive' = Garbage
    /\ damage' = damage + 1
    /\ UNCHANGED <<clock, metadata, entry, scan>>

\* advisories_with_cache, up to the read of the metadata.
ReadMetadata(s) ==
    /\ scan[s].at = "idle"
    /\ Move(s, IF metadata # None /\ IsFresh(metadata)
                 THEN [Idle EXCEPT !.at = "fresh", !.since = elapsed]
                 ELSE [Idle EXCEPT !.at = "download"])
    /\ UNCHANGED <<clock, cache, damage>>

\* The archive that fresh metadata stands for answers, unless it does not parse.
ReadArchive(s) ==
    /\ scan[s].at = "fresh"
    /\ Move(s, IF Parses(archive) THEN Answered(archive)
                                  ELSE [Idle EXCEPT !.at = "download"])
    /\ UNCHANGED <<clock, cache, damage>>

Download(s) ==
    /\ scan[s].at = "download"
    /\ Move(s, [Idle EXCEPT !.at = "downloaded", !.asOf = elapsed, !.since = elapsed])
    /\ UNCHANGED <<clock, cache, damage>>

\* No connection, an error status, or a snapshot that does not parse: the
\* lookup ends without an answer and nothing is written.
DownloadFails(s) ==
    /\ scan[s].at \in {"download", "ask"}
    /\ Move(s, Idle)
    /\ UNCHANGED <<clock, cache, damage>>

\* write_snapshot takes the time before it writes the archive.
TakeTime(s) ==
    /\ scan[s].at = "downloaded"
    /\ Move(s, [scan[s] EXCEPT !.at = "stamped", !.stamp = Wall])
    /\ UNCHANGED <<clock, cache, damage>>

\* Mutant: the metadata is written whether or not the archive was.
SkipArchive(s) ==
    /\ scan[s].at = "stamped"
    /\ archive' \in {archive, scan[s].asOf}
    /\ Move(s, [scan[s] EXCEPT !.at = "archived"])
    /\ UNCHANGED <<clock, metadata, entry, damage>>

WriteArchive(s) ==
    /\ scan[s].at = "stamped"
    /\ archive' = scan[s].asOf
    /\ Move(s, [scan[s] EXCEPT !.at = "archived"])
    /\ UNCHANGED <<clock, metadata, entry, damage>>

WriteMetadata(s) ==
    /\ scan[s].at = "archived"
    /\ metadata' = scan[s].stamp
    /\ Move(s, Answered(scan[s].asOf))
    /\ UNCHANGED <<clock, archive, entry, damage>>

\* Mutant: an archive that cannot be written is tried again, however late.
RetryArchive(s) ==
    /\ scan[s].at = "stamped"
    /\ Move(s, [scan[s] EXCEPT !.since = elapsed])
    /\ UNCHANGED <<clock, cache, damage>>

\* A write that fails is ignored, and ends the lookup with its answer.
WriteFails(s) ==
    /\ scan[s].at \in {"stamped", "archived", "asked"}
    /\ Move(s, Answered(scan[s].asOf))
    /\ UNCHANGED <<clock, cache, damage>>

\* resolve_with_cache: a fresh entry answers without a request.
ReadEntry(s) ==
    /\ scan[s].at = "idle"
    /\ Move(s, IF entry # None /\ IsFresh(entry.fetchedAt)
                 THEN Answered(entry.asOf)
                 ELSE [Idle EXCEPT !.at = "ask"])
    /\ UNCHANGED <<clock, cache, damage>>

Ask(s) ==
    /\ scan[s].at = "ask"
    /\ Move(s, [Idle EXCEPT !.at = "asked", !.asOf = elapsed, !.since = elapsed])
    /\ UNCHANGED <<clock, cache, damage>>

WriteEntry(s) ==
    /\ scan[s].at = "asked"
    /\ entry' = [asOf |-> scan[s].asOf, fetchedAt |-> Wall]
    /\ Move(s, Answered(scan[s].asOf))
    /\ UNCHANGED <<clock, archive, metadata, damage>>

\* The process is gone; another scan takes its place.
Crash(s) ==
    /\ scan[s].at # "idle"
    /\ Move(s, Idle)
    /\ UNCHANGED <<clock, cache, damage>>

Lookup(s) ==
    \/ ReadMetadata(s) \/ ReadArchive(s) \/ Download(s) \/ DownloadFails(s)
    \/ TakeTime(s) \/ WriteArchive(s) \/ WriteMetadata(s) \/ WriteFails(s)
    \/ ReadEntry(s) \/ Ask(s) \/ WriteEntry(s)

Next ==
    \/ Tick \/ SetClock \/ Damage
    \/ \E s \in Scans : Lookup(s) \/ Crash(s)

Spec == Init /\ [][Next]_vars

-----------------------------------------------------------------------------
ScanState ==
    [at : Places, asOf : Moments \cup {None}, stamp : Stamps \cup {None},
     since : Moments \cup {None}, age : Moments]

\* The variables keep their types, and a scan that is to write has what it
\* writes: a content, and from TakeTime on its time.
TypeOK ==
    /\ elapsed \in Moments
    /\ skew \in 0..MaxSkew
    /\ archive \in Moments \cup {Garbage, None}
    /\ metadata \in Stamps \cup {None}
    /\ entry \in [asOf : Moments, fetchedAt : Stamps] \cup {None}
    /\ scan \in [Scans -> ScanState]
    /\ damage \in 0..MaxDamage
    /\ \A s \in Scans :
         /\ scan[s].at \in Dependent => scan[s].since # None
         /\ scan[s].at \in {"downloaded", "stamped", "archived", "asked"}
              => scan[s].asOf # None
         /\ scan[s].at \in {"stamped", "archived"} => scan[s].stamp # None

\* vibescan-architecture.md:396: a 24-hour TTL.  Whatever scans write into each
\* other's way, crash, or see of the clock, an answer is older than the TTL by
\* no more than two holds, one of the writer and one of the reader, and the
\* clock's error.
AnswersAreCurrent ==
    \A s \in Scans : scan[s].age <= TTL + 2 * Hold + MaxSkew

\* The metadata may belong to another write than the archive beside it, but
\* it never claims more than one hold too much for it.
MetadataIsHonest ==
    metadata # None /\ Parses(archive) => metadata <= archive + Hold + MaxSkew

\* A slow scan may put an older snapshot over a newer one, by one hold at most.
SnapshotRegressesLittle ==
    [][Parses(archive) /\ Parses(archive') => archive' >= archive - Hold]_vars
=============================================================================
