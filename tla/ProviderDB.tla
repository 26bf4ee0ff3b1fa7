----------------------------- MODULE ProviderDB -----------------------------
(***************************************************************************)
(* firewall/firewall.go, GetProviderForIP: the database of providers, a    *)
(* file in the temporary directory that is downloaded if it is not there,  *)
(* and opened by the first look-up that finds the global reader nil.       *)
(*                                                                         *)
(* Nothing locks the reader or the file, and the download is written in    *)
(* place.  Look-ups that meet may both download, a look-up may open what   *)
(* another is still writing, and a process that dies leaves behind what it *)
(* has written.  The file is represented by two blocks, its body and its   *)
(* end, which holds the metadata without which it cannot be opened; they   *)
(* are written in this order, each from one edition of the database.  The  *)
(* reader maps the file into memory: it has the metadata as they were when *)
(* it was opened, and the body as it is now.                               *)
(***************************************************************************)
EXTENDS FiniteSets, Naturals

CONSTANTS
    Checkers,  \* requests that look up a provider
    Editions,  \* editions of the database that may be downloaded
    None       \* no file, no reader, nothing written

ASSUME ProviderDBAssumption == None \notin Editions

VARIABLES
    dbFile,      \* the file, with the editions its blocks are from, or None
    providerDB,  \* the edition whose metadata the reader has, or None
    pc,          \* pc[c]: where look-up c stands
    edition,     \* edition[c]: the one that c is downloading

    overlap      \* history: whether two downloads have met

db == <<dbFile, providerDB, edition, overlap>>

NewFile == [body |-> None, end |-> None]
DbFiles == [body : Editions \cup {None}, end : Editions \cup {None}]

Downloading == {c \in Checkers : pc[c] \in {"download", "body", "end"}}

InitDB ==
    /\ dbFile = None
    /\ providerDB = None
    /\ edition = [c \in Checkers |-> None]
    /\ overlap = FALSE

GotoDB(c, l) == pc' = [pc EXCEPT ![c] = l]

\* initISPGeoIPDB is called if nobody has opened the database.  Without a key
\* for the download it fails: no provider is found, and the request passes.
UseDB(c) ==
    /\ pc[c] = "provider"
    /\ \/ providerDB # None /\ GotoDB(c, "lookup")
       \/ providerDB = None /\ GotoDB(c, "stat")
       \/ providerDB = None /\ GotoDB(c, "checked")
    /\ UNCHANGED db

\* Mutant of Stat: the file is downloaded whether it is there or not.
StatIgnored(c) ==
    /\ pc[c] = "stat"
    /\ overlap' = (overlap \/ Downloading # {})
    /\ GotoDB(c, "download")
    /\ UNCHANGED <<dbFile, providerDB, edition>>

\* os.Stat: whatever file is there is taken for the database.
Stat(c) ==
    /\ pc[c] = "stat"
    /\ IF dbFile = None
       THEN GotoDB(c, "download") /\ overlap' = (overlap \/ Downloading # {})
       ELSE GotoDB(c, "open") /\ UNCHANGED overlap
    /\ UNCHANGED <<dbFile, providerDB, edition>>

\* http.Get and extractGeoIPDB, up to the creation of the file: no answer or
\* not an archive, an archive without the file, or an edition of it.  A file
\* that another look-up has created is not truncated.
Download(c) ==
    /\ pc[c] = "download"
    /\ \/ GotoDB(c, "checked") /\ UNCHANGED <<dbFile, edition>>
       \/ GotoDB(c, "open") /\ UNCHANGED <<dbFile, edition>>
       \/ \E e \in Editions :
            /\ edition' = [edition EXCEPT ![c] = e]
            /\ dbFile' = IF dbFile = None THEN NewFile ELSE dbFile
            /\ GotoDB(c, "body")
    /\ UNCHANGED <<providerDB, overlap>>

Write(c, block) == dbFile' = [dbFile EXCEPT ![block] = edition[c]]

\* io.Copy in extractFile.  The download may break off: what is written stays.
BreakOff(c) ==
    /\ GotoDB(c, "checked")
    /\ edition' = [edition EXCEPT ![c] = None]
    /\ UNCHANGED dbFile

WriteBody(c) ==
    /\ pc[c] = "body"
    /\ \/ Write(c, "body") /\ GotoDB(c, "end") /\ UNCHANGED edition
       \/ BreakOff(c)
    /\ UNCHANGED <<providerDB, overlap>>

\* What follows the last block may fail too: f.Sync, or the rest of the archive.
\* Then the file is whole, but this look-up does not open it.
WriteEnd(c) ==
    /\ pc[c] = "end"
    /\ \/ /\ Write(c, "end")
          /\ GotoDB(c, "open") \/ GotoDB(c, "checked")
          /\ edition' = [edition EXCEPT ![c] = None]
       \/ BreakOff(c)
    /\ UNCHANGED <<providerDB, overlap>>

\* maxminddb.Open, and the assignment of its reader, over any that another
\* look-up has assigned meanwhile.
OpenDB(c) ==
    /\ pc[c] = "open"
    /\ IF dbFile # None /\ dbFile.end # None
       THEN providerDB' = dbFile.end /\ GotoDB(c, "lookup")
       ELSE UNCHANGED providerDB /\ GotoDB(c, "checked")
    /\ UNCHANGED <<dbFile, edition, overlap>>

GetProvider(c) ==
    UseDB(c) \/ Stat(c) \/ Download(c) \/ WriteBody(c) \/ WriteEnd(c) \/ OpenDB(c)

\* A reader whose metadata are those of its body; any other finds anything.
Sound == dbFile # None /\ dbFile.body = providerDB /\ dbFile.end = providerDB

-----------------------------------------------------------------------------
TypeOKDB ==
    /\ dbFile \in DbFiles \cup {None}
    /\ providerDB \in Editions \cup {None}
    /\ edition \in [Checkers -> Editions \cup {None}]
    /\ overlap \in BOOLEAN

\* Unless two first look-ups both downloaded the database, now or in an
\* earlier process, GetProviderForIP's reader is one of a whole edition,
\* though others may have looked at the file while it was being written and
\* a process may have died on it.
ReaderIsSound == providerDB # None /\ ~overlap => Sound

\* A download that was broken off, by the network or by a crash, is the end
\* of the bans by provider: os.Stat in initISPGeoIPDB finds the file, nobody
\* downloads it again, and in no later process is it opened.
Broken == providerDB = None /\ dbFile # None /\ dbFile.end = None /\ Downloading = {}
BrokenIsForGood == [][Broken => Broken']_<<dbFile, providerDB, pc>>

-----------------------------------------------------------------------------
\* The inductive invariant behind them (BlacklistProofs.tla).  What the file is
\* while c downloads it, with nobody else at it.
Written(c) ==
    IF pc[c] = "download" THEN None
    ELSE [body |-> IF pc[c] = "end" THEN edition[c] ELSE None, end |-> None]

DBRight ==
    /\ \A c \in Checkers :
        /\ pc[c] = "lookup" => providerDB # None
        /\ pc[c] \in {"body", "end"} => edition[c] \in Editions /\ dbFile \in DbFiles
    /\ ~overlap =>
        /\ \A c, d \in Downloading : c = d
        /\ \A c \in Downloading : dbFile = Written(c)
        /\ dbFile # None /\ dbFile.end # None => dbFile.body = dbFile.end /\ Downloading = {}
        /\ providerDB # None => dbFile # None /\ dbFile.end = providerDB
=============================================================================
