---------------------------- MODULE EventSources ----------------------------
(***************************************************************************)
(* The event source of a daemon is the adapter of its platform             *)
(* (sources/__init__.py): journald on Linux, the unified log on macOS, the *)
(* Event Log on Windows.  The other two are not there.                     *)
(***************************************************************************)
EXTENDS EventIngest

CONSTANTS
    IdentityMax, Overlap, Second, Steps, MaxPurged,  \* of OslogReader
    Channel, Malformed, MaxFailures,                 \* of WindowsReader
    Others  \* their bounds: [text, log, faults, restarts]

ASSUME SourcesAssumption ==
    /\ Others.log \in Nat /\ MaxPurged \in Nat
    /\ IdentityMax \in Nat \ {0} /\ Overlap \in Nat
    /\ Second \in Nat \ {0} /\ Steps \subseteq Nat

VARIABLES
    platform,
    macLog, macPurged, macReader, macSource, macTick, macDb, macLost, macFaults,
    winChannel, winSub, winQueue, winCommitted, winTick, winDb, winLost,
    winKnown, winFaults

Mac == INSTANCE OslogReader WITH
    MaxLog <- Others.log, MaxFaults <- Others.faults,
    log <- macLog, purged <- macPurged, reader <- macReader,
    source <- macSource, tick <- macTick, db <- macDb, lost <- macLost,
    faults <- macFaults

Win == INSTANCE WindowsReader WITH
    Text <- Others.text, MaxLog <- Others.log, MaxRestarts <- Others.restarts,
    channel <- winChannel, sub <- winSub, queue <- winQueue,
    committed <- winCommitted, tick <- winTick, db <- winDb, lost <- winLost,
    known <- winKnown, faults <- winFaults

macVars == <<macLog, macPurged, macReader, macSource, macTick, macDb, macLost,
             macFaults>>
winVars == <<winChannel, winSub, winQueue, winCommitted, winTick, winDb,
             winLost, winKnown, winFaults>>
others  == <<macVars, winVars>>
all     == <<platform, vars, others>>

\* event_source_for_platform
SourcesInit ==
    /\ platform \in {"linux", "darwin", "windows"}
    /\ Init /\ Mac!Init /\ Win!Init

SourcesNext ==
    /\ UNCHANGED platform
    /\ \/ platform = "linux" /\ Next /\ UNCHANGED others
       \/ platform = "darwin" /\ Mac!Next /\ UNCHANGED <<vars, winVars>>
       \/ platform = "windows" /\ Win!Next /\ UNCHANGED <<vars, macVars>>

SourcesSpec == SourcesInit /\ [][SourcesNext]_all

\* EventIngest's fairness, where its adapter runs.
OnLinux(A) == platform = "linux" /\ A

FairSources ==
    /\ SourcesSpec
    /\ WF_vars(OnLinux(Tick)) /\ WF_vars(OnLinux(Start))
    /\ WF_vars(OnLinux(Send)) /\ SF_vars(OnLinux(Read))
-----------------------------------------------------------------------------
(* DM-15, DM-19: what a stored cursor passes is durably stored or lost in *)
(* a named way, and a retention gap is reported only where there is one,   *)
(* whether the cursor is a time and some identities (OslogReader) or a     *)
(* composite of bookmarks (WindowsReader).                                 *)
CursorsCover == Mac!ReplayCovers /\ Mac!GapsAreReal /\ Win!BookmarksCover

(* DM-15: nothing is stored twice: on Linux while journalctl lives, on     *)
(* macOS as far as identities are kept for the overlap of a replay, on     *)
(* Windows ever.                                                           *)
NothingTwice ==
    StoredOnceWhileReaderLives /\ Mac!RepeatsAreOld /\ Win!ResumesOnce

(* DM-15 on macOS: no event falls between `log show` and `log stream`      *)
(* (OslogReader).                                                          *)
HandoffCovers == Mac!HandoffCovers
=============================================================================
