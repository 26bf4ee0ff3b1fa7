------------------------------ MODULE Blacklist ------------------------------
(***************************************************************************)
(* firewall/firewall.go, ReloadBlacklist and CheckBans: the lists of       *)
(* banned networks and providers, read from blacklist.json at the start    *)
(* and whenever the config route is called, and looked up by every         *)
(* request.                                                                *)
(*                                                                         *)
(* blacklistedAsn is a concurrent map that is cleared and filled again.    *)
(* bannedIPs is a global pointer that is set to a new table, which is      *)
(* filled through the pointer; nothing locks it.  The handlers of the      *)
(* route run concurrently, so that two reloads may interleave, and the     *)
(* table is no concurrent one: of two insertions at a time one may be      *)
(* lost, and a lookup that races with one may go either way.               *)
(*                                                                         *)
(* The lists live as long as the process; the file, and the database of    *)
(* providers that ProviderDB has the steps of, outlive it.                 *)
(***************************************************************************)
EXTENDS ProviderDB

CONSTANTS
    Reloaders,  \* requests to the reload route
    Networks,   \* prefixes the file may ban
    Providers,  \* autonomous systems the file may ban
    Versions,   \* contents the file takes: records [ips, asns]
    Addresses   \* addresses requests come from: records [network, provider]

ASSUME BlacklistAssumption ==
    /\ Versions \subseteq [ips : SUBSET Networks, asns : SUBSET Providers]
    /\ Addresses \subseteq [network : Networks, provider : Providers]
    /\ None \notin Versions \cup Addresses
    /\ Reloaders \cap Checkers = {}

VARIABLES
    file,     \* blacklist.json: one of Versions, or None when missing or malformed
    asns,     \* blacklistedAsn
    ips,      \* the table that bannedIPs points to
    bl,       \* bl[r]: what reloader r has read from the file
    toAdd,    \* toAdd[r]: what of it r has still to insert
    address,  \* address[c]: the address checker c was asked about
    banned    \* banned[c]: its answer so far

\* History: the content the file had when the last reload read it; whether
\* that reload has met another; whether c has been spared any reload; whether
\* c has found the database of providers open.
VARIABLES lastRead, crossed, quiet, opened

vars == <<file, asns, ips, pc, bl, toAdd, address, banned, lastRead, crossed, quiet,
          opened, dbFile, providerDB, edition, overlap>>

lists == <<asns, ips>>
reloads == <<bl, toAdd>>
checks == <<address, banned>>
history == <<lastRead, crossed, quiet, opened>>

NoBl == [ips |-> {}, asns |-> {}]

Reloading == {r \in Reloaders : pc[r] # "idle"}

\* Reloads that have networks to insert, and may be at it.
Inserting == {r \in Reloaders : pc[r] = "fill" /\ toAdd[r].asns = {} /\ toAdd[r].ips # {}}

\* The package's init has loaded the file, or has found none.
Loaded == IF file = None THEN NoBl ELSE file

Init ==
    /\ file \in Versions \cup {None}
    /\ lastRead = Loaded
    /\ ips = Loaded.ips
    /\ asns = Loaded.asns
    /\ pc = [p \in Reloaders \cup Checkers |-> "idle"]
    /\ bl = [r \in Reloaders |-> NoBl]
    /\ toAdd = [r \in Reloaders |-> NoBl]
    /\ address = [c \in Checkers |-> None]
    /\ banned = [c \in Checkers |-> FALSE]
    /\ crossed = FALSE
    /\ quiet = [c \in Checkers |-> TRUE]
    /\ opened = [c \in Checkers |-> FALSE]
    /\ InitDB

\* An operator replaces the file, or spoils it.
Edit(v) ==
    /\ v # file
    /\ file' = v
    /\ UNCHANGED <<lists, pc, reloads, checks, history, db>>

\* The process dies, at any step of anyone, and another starts.
Restart ==
    /\ lastRead' = Loaded
    /\ ips' = Loaded.ips
    /\ asns' = Loaded.asns
    /\ pc' = [p \in Reloaders \cup Checkers |-> "idle"]
    /\ bl' = [r \in Reloaders |-> NoBl]
    /\ toAdd' = [r \in Reloaders |-> NoBl]
    /\ address' = [c \in Checkers |-> None]
    /\ banned' = [c \in Checkers |-> FALSE]
    /\ crossed' = FALSE
    /\ quiet' = [c \in Checkers |-> TRUE]
    /\ opened' = [c \in Checkers |-> FALSE]
    /\ providerDB' = None
    /\ edition' = [c \in Checkers |-> None]
    /\ UNCHANGED <<file, dbFile, overlap>>

-----------------------------------------------------------------------------
(* ReloadBlacklist.                                                         *)

\* Mutant of ReadFile: the errors are not looked at.
ReadAnything(r) ==
    /\ pc[r] = "idle"
    /\ bl' = [bl EXCEPT ![r] = file]
    /\ pc' = [pc EXCEPT ![r] = "clear"]
    /\ lastRead' = file
    /\ crossed' = (Reloading # {})
    /\ quiet' = [c \in Checkers |-> pc[c] = "idle"]
    /\ UNCHANGED <<file, lists, toAdd, checks, opened, db>>

\* A missing or malformed file ends the reload: everything stays as it is.
ReadFile(r) ==
    /\ pc[r] = "idle"
    /\ file # None
    /\ bl' = [bl EXCEPT ![r] = file]
    /\ pc' = [pc EXCEPT ![r] = "clear"]
    /\ lastRead' = file
    /\ crossed' = (Reloading # {})
    /\ quiet' = [c \in Checkers |-> pc[c] = "idle"]
    /\ UNCHANGED <<file, lists, toAdd, checks, opened, db>>

\* Mutants of Clear and Swap: the old providers, the old networks stay.
KeepProviders(r) ==
    /\ pc[r] = "clear"
    /\ pc' = [pc EXCEPT ![r] = "swap"]
    /\ UNCHANGED <<file, lists, reloads, checks, history, db>>

KeepTable(r) ==
    /\ pc[r] = "swap"
    /\ toAdd' = [toAdd EXCEPT ![r] = bl[r]]
    /\ pc' = [pc EXCEPT ![r] = "fill"]
    /\ UNCHANGED <<file, lists, bl, checks, history, db>>

Clear(r) ==
    /\ pc[r] = "clear"
    /\ asns' = {}
    /\ pc' = [pc EXCEPT ![r] = "swap"]
    /\ UNCHANGED <<file, ips, reloads, checks, history, db>>

Swap(r) ==
    /\ pc[r] = "swap"
    /\ ips' = {}
    /\ toAdd' = [toAdd EXCEPT ![r] = bl[r]]
    /\ pc' = [pc EXCEPT ![r] = "fill"]
    /\ UNCHANGED <<file, asns, bl, checks, history, db>>

\* First the providers, one by one.
StoreAsn(r, a) ==
    /\ pc[r] = "fill"
    /\ a \in toAdd[r].asns
    /\ asns' = asns \cup {a}
    /\ toAdd' = [toAdd EXCEPT ![r].asns = @ \ {a}]
    /\ UNCHANGED <<file, ips, pc, bl, checks, history, db>>

\* Then the networks, into whatever table bannedIPs points to by then.
InsertIp(r, n) ==
    /\ r \in Inserting
    /\ n \in toAdd[r].ips
    /\ \/ ips' = ips \cup {n}
       \/ Inserting # {r} /\ UNCHANGED ips
    /\ toAdd' = [toAdd EXCEPT ![r].ips = @ \ {n}]
    /\ UNCHANGED <<file, asns, pc, bl, checks, history, db>>

Reloaded(r) ==
    /\ pc[r] = "fill"
    /\ toAdd[r] = NoBl
    /\ pc' = [pc EXCEPT ![r] = "idle"]
    /\ bl' = [bl EXCEPT ![r] = NoBl]
    /\ UNCHANGED <<file, lists, toAdd, checks, history, db>>

-----------------------------------------------------------------------------
(* CheckBans.                                                               *)

LookupIp(c, a) ==
    \E found \in BOOLEAN :
        /\ Inserting = {} => (found <=> a.network \in ips)
        /\ banned' = [banned EXCEPT ![c] = found]
        /\ pc' = [pc EXCEPT ![c] = IF found THEN "checked" ELSE "provider"]

Check(c, a) ==
    /\ pc[c] = "idle"
    /\ address' = [address EXCEPT ![c] = a]
    /\ LookupIp(c, a)
    /\ quiet' = [quiet EXCEPT ![c] = Reloading = {}]
    /\ opened' = [opened EXCEPT ![c] = providerDB # None]
    /\ UNCHANGED <<file, lists, reloads, lastRead, crossed, db>>

FindProvider(c) ==
    /\ GetProvider(c)
    /\ UNCHANGED <<file, lists, reloads, checks, history>>

\* providerDB.Lookup, with whatever reader there is by now: the provider, or,
\* from blocks of two editions, any provider or an error.
CheckProvider(c) ==
    /\ pc[c] = "lookup"
    /\ \E found \in BOOLEAN :
        /\ Sound => (found <=> address[c].provider \in asns)
        /\ banned' = [banned EXCEPT ![c] = found]
    /\ pc' = [pc EXCEPT ![c] = "checked"]
    /\ UNCHANGED <<file, lists, reloads, address, history, db>>

Answer(c) ==
    /\ pc[c] = "checked"
    /\ pc' = [pc EXCEPT ![c] = "idle"]
    /\ address' = [address EXCEPT ![c] = None]
    /\ banned' = [banned EXCEPT ![c] = FALSE]
    /\ quiet' = [quiet EXCEPT ![c] = TRUE]
    /\ opened' = [opened EXCEPT ![c] = FALSE]
    /\ UNCHANGED <<file, lists, reloads, lastRead, crossed, db>>

Reload(r) ==
    \/ ReadFile(r)
    \/ Clear(r)
    \/ Swap(r)
    \/ \E a \in Providers : StoreAsn(r, a)
    \/ \E n \in Networks : InsertIp(r, n)
    \/ Reloaded(r)

Next ==
    \/ \E v \in Versions \cup {None} : Edit(v)
    \/ Restart
    \/ \E r \in Reloaders : Reload(r)
    \/ \E c \in Checkers :
        \/ \E a \in Addresses : Check(c, a)
        \/ FindProvider(c)
        \/ CheckProvider(c)
        \/ Answer(c)

Spec == Init /\ [][Next]_vars

-----------------------------------------------------------------------------
Contents == [ips : SUBSET Networks, asns : SUBSET Providers]

\* The type invariant of the lists, the reloads and the checks.
TypeOK ==
    /\ file \in Versions \cup {None}
    /\ asns \in SUBSET Providers
    /\ ips \in SUBSET Networks
    /\ pc \in [Reloaders \cup Checkers ->
                 {"idle", "clear", "swap", "fill", "provider", "stat", "download",
                  "body", "end", "open", "lookup", "checked"}]
    /\ bl \in [Reloaders -> Contents]
    /\ toAdd \in [Reloaders -> Contents]
    /\ address \in [Checkers -> Addresses \cup {None}]
    /\ banned \in [Checkers -> BOOLEAN]
    /\ lastRead \in Contents
    /\ crossed \in BOOLEAN
    /\ quiet \in [Checkers -> BOOLEAN]
    /\ opened \in [Checkers -> BOOLEAN]
    /\ TypeOKDB

\* When the reloads are over and the last one has met no other, the lists are
\* what it read, whatever earlier reloads have left behind in ReloadBlacklist's
\* lists by crossing each other.
ReloadedInSequence ==
    Reloading = {} /\ ~crossed => ips = lastRead.ips /\ asns = lastRead.asns

\* CheckBans of a request that no reload crosses follows the file last read:
\* a banned network is turned away, so is a banned provider if the database
\* was open, and nobody is turned away whom the file does not name.  (Two
\* downloads of the database that met may have left anything in it.)
AnswersFollowTheFile ==
    \A c \in Checkers :
        pc[c] = "checked" /\ quiet[c] /\ ~crossed =>
            LET network == address[c].network \in lastRead.ips
                provider == address[c].provider \in lastRead.asns
            IN  /\ network => banned[c]
                /\ ~overlap /\ opened[c] /\ provider => banned[c]
                /\ ~overlap /\ banned[c] => network \/ provider

\* Reloads are over, whatever their interleaving, with lists that are one of
\* the contents of the file, as the comment on reloadBlacklist has it.  It
\* does not hold when two of them cross.
ReloadedFromTheFile ==
    Reloading = {} =>
        \E v \in Versions \cup {NoBl} : ips = v.ips /\ asns = v.asns

-----------------------------------------------------------------------------
\* The inductive invariant behind them (BlacklistProofs.tla).  A reload that
\* meets no other brings the lists to what it has read.
ListsRight ==
    ~crossed =>
        /\ \A r, s \in Reloading : r = s
        /\ Reloading = {} => ips = lastRead.ips /\ asns = lastRead.asns
        /\ \A r \in Reloading :
            /\ bl[r] = lastRead
            /\ pc[r] = "swap" => asns = {}
            /\ pc[r] = "fill" =>
                  /\ asns \cup toAdd[r].asns = lastRead.asns
                  /\ ips \cup toAdd[r].ips = lastRead.ips

\* A check that is under way.
ChecksRight ==
    \A c \in Checkers : pc[c] # "idle" =>
        /\ address[c] \in Addresses
        /\ opened[c] => providerDB # None /\ pc[c] \in {"provider", "lookup", "checked"}
        /\ quiet[c] => Reloading = {}
        /\ quiet[c] /\ ~crossed /\ pc[c] # "checked" =>
              address[c].network \notin lastRead.ips /\ ~banned[c]

Inv ==
    /\ TypeOK
    /\ DBRight
    /\ ListsRight
    /\ ChecksRight
    /\ AnswersFollowTheFile
=============================================================================
