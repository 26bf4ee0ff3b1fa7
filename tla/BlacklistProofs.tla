--------------------------- MODULE BlacklistProofs ---------------------------
(***************************************************************************)
(* Proofs about Blacklist and ProviderDB, for any requests, networks,      *)
(* providers, contents of the file and editions of the database.  Both     *)
(* rest on what a reload, and a download, achieves that has met no other.  *)
(***************************************************************************)
EXTENDS Blacklist, TLAPS

\* One step of one check.
CheckStep(c) ==
    \/ \E a \in Addresses : Check(c, a)
    \/ FindProvider(c) \/ CheckProvider(c) \/ Answer(c)

Processes == Reloaders \cup Checkers

-----------------------------------------------------------------------------
LEMMA InitInv == Init => Inv
<1> SUFFICES ASSUME Init PROVE Inv
  OBVIOUS
<1>1. Loaded \in Contents
  BY BlacklistAssumption DEF Init, Loaded, NoBl, Contents
<1>2. TypeOK
  BY <1>1 DEF Init, TypeOK, NoBl, Contents, InitDB, TypeOKDB
<1>3. DBRight
  BY DEF Init, DBRight, InitDB, Downloading
<1>4. ListsRight /\ ChecksRight /\ AnswersFollowTheFile
  BY DEF Init, ListsRight, ChecksRight, AnswersFollowTheFile, Reloading
<1>5. QED
  BY <1>2, <1>3, <1>4 DEF Inv

\* A process leaves the others alone.
LEMMA ReloadSpares ==
    ASSUME TypeOK, NEW r \in Reloaders, Reload(r)
    PROVE  /\ \A p \in Processes \ {r} : pc'[p] = pc[p]
           /\ \A s \in Reloaders \ {r} : bl'[s] = bl[s] /\ toAdd'[s] = toAdd[s]
           /\ UNCHANGED <<file, address, banned, opened, db>>
           /\ pc[r] \in {"idle", "clear", "swap", "fill"}
           /\ pc'[r] \in {"idle", "clear", "swap", "fill"}
<1>1. /\ pc \in [Processes -> {"idle", "clear", "swap", "fill", "provider", "stat", "download",
                                "body", "end", "open", "lookup", "checked"}]
      /\ bl \in [Reloaders -> Contents] /\ toAdd \in [Reloaders -> Contents]
      /\ r \in Processes
  BY DEF TypeOK, Processes
<1>2. CASE ReadFile(r) \/ Clear(r) \/ Swap(r) \/ Reloaded(r)
  BY <1>1, <1>2 DEF ReadFile, Clear, Swap, Reloaded, checks, history, reloads
<1>3. ASSUME NEW x, StoreAsn(r, x) \/ InsertIp(r, x)
      PROVE  /\ pc' = pc /\ pc[r] = "fill" /\ UNCHANGED <<file, address, banned, opened, db, bl>>
             /\ \A s \in Reloaders \ {r} : toAdd'[s] = toAdd[s]
  BY <1>1, <1>3 DEF StoreAsn, InsertIp, Inserting, checks, history
<1>4. QED
  BY <1>2, <1>3 DEF Reload

LEMMA CheckSpares ==
    ASSUME TypeOK, NEW c \in Checkers, CheckStep(c)
    PROVE  /\ \A p \in Processes \ {c} : pc'[p] = pc[p]
           /\ \A d \in Checkers \ {c} : /\ address'[d] = address[d] /\ banned'[d] = banned[d]
                                        /\ quiet'[d] = quiet[d] /\ opened'[d] = opened[d]
                                        /\ edition'[d] = edition[d]
           /\ UNCHANGED <<file, lists, reloads, lastRead, crossed>>
  BY DEF CheckStep, Check, LookupIp, FindProvider, GetProvider, UseDB, Stat, Download,
         WriteBody, WriteEnd, BreakOff, Write, OpenDB, GotoDB, CheckProvider, Answer, TypeOK,
         Processes, checks, history, db, TypeOKDB

-----------------------------------------------------------------------------
(* Types.                                                                   *)

LEMMA ReloadTypes ==
    ASSUME TypeOK, NEW r \in Reloaders, Reload(r)
    PROVE  TypeOK'
<1>1. /\ Contents = [ips : SUBSET Networks, asns : SUBSET Providers]
      /\ NoBl \in Contents /\ Versions \subseteq Contents
      /\ bl[r] \in Contents /\ toAdd[r] \in Contents
  BY BlacklistAssumption DEF Contents, NoBl, TypeOK
<1>2. UNCHANGED <<file, address, banned, opened, db>>
  BY ReloadSpares
<1>3. pc' \in [Processes -> {"idle", "clear", "swap", "fill", "provider", "stat", "download",
                             "body", "end", "open", "lookup", "checked"}]
  BY DEF Reload, ReadFile, Clear, Swap, StoreAsn, InsertIp, Reloaded, TypeOK, Processes
<1>4. asns' \in SUBSET Providers /\ ips' \in SUBSET Networks
  BY DEF Reload, ReadFile, Clear, Swap, StoreAsn, InsertIp, Reloaded, TypeOK, lists
<1>5. bl' \in [Reloaders -> Contents]
  BY <1>1 DEF Reload, ReadFile, Clear, Swap, StoreAsn, InsertIp, Reloaded, TypeOK, reloads
<1>6. toAdd' \in [Reloaders -> Contents]
  <2>1. CASE Swap(r)
    BY <1>1, <2>1 DEF Swap, TypeOK
  <2>2. ASSUME NEW a \in Providers, StoreAsn(r, a) PROVE toAdd' \in [Reloaders -> Contents]
    <3> DEFINE left == [toAdd[r] EXCEPT !.asns = @ \ {a}]
    <3>1. left \in Contents
      BY <1>1
    <3>2. toAdd' = [toAdd EXCEPT ![r] = left]
      BY <2>2 DEF StoreAsn
    <3> HIDE DEF left
    <3>3. QED
      BY <3>1, <3>2 DEF TypeOK
  <2>3. ASSUME NEW n \in Networks, InsertIp(r, n) PROVE toAdd' \in [Reloaders -> Contents]
    <3> DEFINE left == [toAdd[r] EXCEPT !.ips = @ \ {n}]
    <3>1. left \in Contents
      BY <1>1
    <3>2. toAdd' = [toAdd EXCEPT ![r] = left]
      BY <2>3 DEF InsertIp
    <3> HIDE DEF left
    <3>3. QED
      BY <3>1, <3>2 DEF TypeOK
  <2>4. CASE UNCHANGED toAdd
    BY <2>4 DEF TypeOK
  <2>5. QED
    BY <2>1, <2>2, <2>3, <2>4 DEF Reload, ReadFile, Clear, Reloaded, reloads
<1>7. lastRead' \in Contents /\ crossed' \in BOOLEAN /\ quiet' \in [Checkers -> BOOLEAN]
  <2>1. CASE ReadFile(r)
    <3>1. file \in Contents
      BY <1>1, <2>1 DEF ReadFile, TypeOK
    <3>2. QED
      BY <2>1, <3>1 DEF ReadFile
  <2>2. CASE UNCHANGED <<lastRead, crossed, quiet>>
    BY <2>2 DEF TypeOK
  <2>3. QED
    BY <2>1, <2>2 DEF Reload, Clear, Swap, StoreAsn, InsertIp, Reloaded, history
<1>8. QED
  BY <1>2, <1>3, <1>4, <1>5, <1>6, <1>7 DEF TypeOK, TypeOKDB, db, Processes

LEMMA CheckTypes ==
    ASSUME TypeOK, NEW c \in Checkers, CheckStep(c), DBRight
    PROVE  TypeOK'
<1>1. UNCHANGED <<file, lists, reloads, lastRead, crossed>>
  BY CheckSpares
<1>2. pc' \in [Processes -> {"idle", "clear", "swap", "fill", "provider", "stat", "download",
                             "body", "end", "open", "lookup", "checked"}]
  BY DEF CheckStep, Check, LookupIp, FindProvider, GetProvider, UseDB, Stat, Download,
         WriteBody, WriteEnd, BreakOff, Write, OpenDB, GotoDB, CheckProvider, Answer, TypeOK,
         Processes
<1>3. address' \in [Checkers -> Addresses \cup {None}]
  BY DEF CheckStep, Check, FindProvider, CheckProvider, Answer, TypeOK, checks
<1>4. banned' \in [Checkers -> BOOLEAN]
  <2>1. \/ \E found \in BOOLEAN : banned' = [banned EXCEPT ![c] = found]
        \/ UNCHANGED banned
    BY DEF CheckStep, Check, LookupIp, FindProvider, CheckProvider, Answer, checks
  <2>2. QED
    BY <2>1 DEF TypeOK
<1>5. quiet' \in [Checkers -> BOOLEAN] /\ opened' \in [Checkers -> BOOLEAN]
  BY DEF CheckStep, Check, FindProvider, CheckProvider, Answer, TypeOK, history
<1>6. TypeOKDB'
  <2>1. CASE UNCHANGED db
    BY <2>1 DEF TypeOK, TypeOKDB, db
  <2>2. CASE GetProvider(c)
    <3>1. CASE UseDB(c)
      BY <2>1, <3>1 DEF UseDB
    <3>2. CASE Stat(c)
      BY <3>2 DEF Stat, TypeOK, TypeOKDB
    <3>3. CASE Download(c)
      BY <3>3 DEF Download, TypeOK, TypeOKDB, DbFiles, NewFile
    <3>4. CASE WriteBody(c)
      BY <3>4 DEF WriteBody, Write, BreakOff, DBRight, TypeOK, TypeOKDB, DbFiles
    <3>5. CASE WriteEnd(c)
      BY <3>5 DEF WriteEnd, Write, BreakOff, DBRight, TypeOK, TypeOKDB, DbFiles
    <3>6. CASE OpenDB(c)
      BY <3>6 DEF OpenDB, TypeOK, TypeOKDB, DbFiles
    <3>7. QED
      BY <2>2, <3>1, <3>2, <3>3, <3>4, <3>5, <3>6 DEF GetProvider
  <2>3. QED
    BY <2>1, <2>2 DEF CheckStep, Check, FindProvider, CheckProvider, Answer
<1>7. QED
  BY <1>1, <1>2, <1>3, <1>4, <1>5, <1>6 DEF TypeOK, lists, reloads, Processes

-----------------------------------------------------------------------------
(* The database of providers.                                               *)

\* The database does not notice what else goes on.
LEMMA DBUntouched ==
    ASSUME DBRight, UNCHANGED db,
           \A c \in Checkers : /\ pc'[c] = "lookup" => pc[c] = "lookup" \/ providerDB # None
                               /\ pc'[c] \in {"download", "body", "end"} => pc'[c] = pc[c]
                               /\ pc[c] \in {"download", "body", "end"} => pc'[c] = pc[c]
    PROVE  DBRight'
<1>1. Downloading' = Downloading
  BY DEF Downloading
<1>2. \A c \in Downloading : Written(c)' = Written(c)
  BY DEF Downloading, Written, db
<1>3. QED
  BY <1>1, <1>2 DEF DBRight, db

\* A download, alone, goes from no file to the file of one edition.
LEMMA DBStep ==
    ASSUME TypeOK, DBRight, NEW c \in Checkers, GetProvider(c)
    PROVE  DBRight'
<1>1. /\ \A d \in Checkers \ {c} : pc'[d] = pc[d]
      /\ \A d \in Checkers \ {c} : edition'[d] = edition[d]
      /\ edition \in [Checkers -> Editions \cup {None}] /\ dbFile \in DbFiles \cup {None}
      /\ pc \in [Processes -> {"idle", "clear", "swap", "fill", "provider", "stat", "download",
                                "body", "end", "open", "lookup", "checked"}]
      /\ c \in Processes /\ None \notin Editions /\ providerDB \in Editions \cup {None}
  <2>1. /\ \A d \in Checkers \ {c} : pc'[d] = pc[d]
        /\ \A d \in Checkers \ {c} : edition'[d] = edition[d]
    BY DEF GetProvider, UseDB, Stat, Download, WriteBody, WriteEnd, BreakOff, Write, OpenDB,
           GotoDB, db, TypeOK, TypeOKDB
  <2>2. QED
    BY <2>1, ProviderDBAssumption DEF TypeOK, TypeOKDB, Processes
<1>2. CASE UseDB(c)
  <2>1. /\ UNCHANGED db /\ pc'[c] \in {"lookup", "stat", "checked"} /\ pc[c] = "provider"
        /\ pc'[c] = "lookup" => providerDB # None
    BY <1>1, <1>2 DEF UseDB, GotoDB
  <2>2. QED
    BY <1>1, <2>1, DBUntouched
<1>3. CASE Stat(c)
  <2>1. CASE dbFile = None
    <3>1. /\ pc[c] = "stat" /\ pc'[c] = "download" /\ overlap' = (overlap \/ Downloading # {})
          /\ UNCHANGED <<dbFile, providerDB, edition>>
      BY <1>1, <1>3, <2>1 DEF Stat, GotoDB
    <3>2. Downloading' = Downloading \cup {c}
      BY <1>1, <3>1 DEF Downloading
    <3>3. \A d \in Downloading : d # c /\ Written(d)' = Written(d)
      BY <1>1, <3>1 DEF Downloading, Written
    <3>4. Written(c)' = None
      BY <3>1 DEF Written
    <3>5. QED
      BY <1>1, <2>1, <3>1, <3>2, <3>3, <3>4 DEF DBRight
  <2>2. CASE dbFile # None
    <3>1. pc[c] = "stat" /\ pc'[c] = "open" /\ UNCHANGED db
      BY <1>1, <1>3, <2>2 DEF Stat, GotoDB, db
    <3>2. QED
      BY <1>1, <3>1, DBUntouched
  <2>3. QED
    BY <2>1, <2>2
\* From here on c is the one that downloads, unless two have met.
<1>4. ASSUME c \in Downloading, ~overlap
      PROVE  Downloading = {c} /\ dbFile = Written(c) /\ providerDB = None
  <2>1. Downloading = {c} /\ dbFile = Written(c)
    BY <1>4 DEF DBRight
  <2>2. dbFile # None => dbFile.end = None
    BY <1>4 DEF DBRight
  <2>3. QED
    BY <1>4, <2>1, <2>2 DEF DBRight
<1>5. CASE Download(c)
  <2>1. c \in Downloading /\ pc[c] = "download" /\ UNCHANGED <<providerDB, overlap>>
    BY <1>5 DEF Download, Downloading
  <2>2. CASE UNCHANGED <<dbFile, edition>> /\ pc'[c] \in {"checked", "open"}
    <3>1. Downloading' = Downloading \ {c}
      BY <1>1, <2>2 DEF Downloading
    <3>2. \A d \in Downloading' : Written(d)' = Written(d)
      BY <1>1, <2>2, <3>1 DEF Written, Downloading
    <3>3. QED
      BY <1>1, <2>1, <2>2, <3>1, <3>2 DEF DBRight
  <2>3. ASSUME NEW e \in Editions, edition' = [edition EXCEPT ![c] = e],
               dbFile' = IF dbFile = None THEN NewFile ELSE dbFile, pc'[c] = "body"
        PROVE  DBRight'
    <3>1. edition'[c] = e /\ dbFile' \in DbFiles /\ (dbFile = None => dbFile' = NewFile)
      BY <1>1, <2>3 DEF NewFile, DbFiles
    <3>2. \A d \in Checkers : /\ pc'[d] = "lookup" => providerDB' # None
                              /\ pc'[d] \in {"body", "end"} =>
                                    edition'[d] \in Editions /\ dbFile' \in DbFiles
      BY <1>1, <2>1, <2>3, <3>1 DEF DBRight
    <3>3. ASSUME ~overlap'
          PROVE  /\ Downloading' = {c} /\ dbFile' = Written(c)' /\ dbFile'.end = None
                 /\ providerDB' = None
      <4>1. Downloading = {c} /\ dbFile = None /\ providerDB = None
        BY <1>4, <2>1, <3>3 DEF Written
      <4>2. dbFile' = NewFile
        BY <3>1, <4>1
      <4>3. Downloading' = {c}
        BY <1>1, <2>3, <4>1 DEF Downloading
      <4>4. QED
        BY <2>1, <2>3, <4>1, <4>2, <4>3 DEF Written, NewFile
    <3>4. QED
      BY <3>2, <3>3 DEF DBRight
  <2>4. QED
    BY <1>1, <1>5, <2>2, <2>3 DEF Download, GotoDB
\* What a download that has broken off leaves is not opened.
<1>6. ASSUME c \in Downloading, BreakOff(c), UNCHANGED <<providerDB, overlap>>
      PROVE  DBRight'
  <2>1. pc'[c] = "checked" /\ UNCHANGED dbFile
    BY <1>1, <1>6 DEF BreakOff, GotoDB
  <2>2. Downloading' = Downloading \ {c}
    BY <1>1, <2>1 DEF Downloading
  <2>3. \A d \in Downloading' : Written(d)' = Written(d)
    BY <1>1, <2>2 DEF Written, Downloading
  <2>4. QED
    BY <1>1, <1>6, <2>1, <2>2, <2>3 DEF DBRight
<1>7. CASE WriteBody(c)
  <2>1. /\ c \in Downloading /\ pc[c] = "body" /\ UNCHANGED <<providerDB, overlap>>
        /\ edition[c] \in Editions /\ dbFile \in DbFiles
    BY <1>7 DEF WriteBody, Downloading, DBRight
  <2>2. CASE Write(c, "body") /\ GotoDB(c, "end") /\ UNCHANGED edition
    <3>1. /\ dbFile' \in DbFiles /\ dbFile'.body = edition[c] /\ dbFile'.end = dbFile.end
          /\ pc'[c] = "end" /\ UNCHANGED edition
          /\ dbFile' = [body |-> edition[c], end |-> dbFile.end]
      BY <1>1, <2>1, <2>2 DEF Write, GotoDB, DbFiles
    <3>2. \A d \in Checkers : /\ pc'[d] = "lookup" => providerDB' # None
                              /\ pc'[d] \in {"body", "end"} =>
                                    edition'[d] \in Editions /\ dbFile' \in DbFiles
      BY <1>1, <2>1, <3>1 DEF DBRight
    <3>3. ASSUME ~overlap'
          PROVE  /\ Downloading' = {c} /\ dbFile' = Written(c)' /\ dbFile'.end = None
                 /\ providerDB' = None
      <4>1. Downloading = {c} /\ dbFile = Written(c) /\ providerDB = None
        BY <1>4, <2>1, <3>3
      <4>2. dbFile.end = None
        BY <2>1, <4>1 DEF Written
      <4>3. Downloading' = {c}
        BY <1>1, <3>1, <4>1 DEF Downloading
      <4>4. QED
        BY <2>1, <3>1, <4>1, <4>2, <4>3 DEF Written
    <3>4. QED
      BY <3>2, <3>3 DEF DBRight
  <2>3. QED
    BY <1>6, <1>7, <2>1, <2>2 DEF WriteBody
<1>8. CASE WriteEnd(c)
  <2>1. /\ c \in Downloading /\ pc[c] = "end" /\ UNCHANGED <<providerDB, overlap>>
        /\ edition[c] \in Editions /\ dbFile \in DbFiles
    BY <1>8 DEF WriteEnd, Downloading, DBRight
  <2>2. CASE Write(c, "end") /\ (GotoDB(c, "open") \/ GotoDB(c, "checked"))
    <3>1. /\ dbFile' \in DbFiles /\ dbFile'.end = edition[c] /\ dbFile'.body = dbFile.body
          /\ pc'[c] \in {"open", "checked"}
      BY <1>1, <2>1, <2>2 DEF Write, GotoDB, DbFiles
    <3>2. \A d \in Checkers : /\ pc'[d] = "lookup" => providerDB' # None
                              /\ pc'[d] \in {"body", "end"} =>
                                    edition'[d] \in Editions /\ dbFile' \in DbFiles
      BY <1>1, <2>1, <3>1 DEF DBRight
    <3>3. ASSUME ~overlap'
          PROVE  Downloading' = {} /\ dbFile'.body = dbFile'.end /\ providerDB' = None
      <4>1. Downloading = {c} /\ dbFile = Written(c) /\ providerDB = None
        BY <1>4, <2>1, <3>3
      <4>2. dbFile.body = edition[c]
        BY <2>1, <4>1 DEF Written
      <4>3. Downloading' = {}
        BY <1>1, <3>1, <4>1 DEF Downloading
      <4>4. QED
        BY <2>1, <3>1, <4>1, <4>2, <4>3
    <3>4. QED
      BY <3>2, <3>3 DEF DBRight
  <2>3. QED
    BY <1>6, <1>8, <2>1, <2>2 DEF WriteEnd
<1>9. CASE OpenDB(c)
  <2>1. pc[c] = "open" /\ UNCHANGED <<dbFile, edition, overlap>>
        /\ pc'[c] \in {"lookup", "checked"}
    BY <1>1, <1>9 DEF OpenDB, GotoDB
  <2>2. Downloading' = Downloading /\ \A d \in Downloading : Written(d)' = Written(d)
    BY <1>1, <2>1 DEF Downloading, Written
  <2>3. CASE dbFile # None /\ dbFile.end # None
    <3>1. providerDB' = dbFile.end
      BY <1>9, <2>3 DEF OpenDB
    <3>2. QED
      BY <1>1, <2>1, <2>2, <2>3, <3>1 DEF DBRight
  <2>4. CASE ~(dbFile # None /\ dbFile.end # None)
    <3>1. UNCHANGED providerDB /\ pc'[c] = "checked"
      BY <1>1, <1>9, <2>4 DEF OpenDB, GotoDB
    <3>2. QED
      BY <1>1, <2>1, <2>2, <2>4, <3>1 DEF DBRight
  <2>5. QED
    BY <2>3, <2>4
<1>10. QED
  BY <1>2, <1>3, <1>5, <1>7, <1>8, <1>9 DEF GetProvider

-----------------------------------------------------------------------------
(* The lists.                                                               *)

\* A reload that meets no other goes from any lists to the ones it has read.
LEMMA ReloadLists ==
    ASSUME TypeOK, ListsRight, NEW r \in Reloaders, Reload(r)
    PROVE  ListsRight'
<1> SUFFICES ASSUME ~crossed'
             PROVE  ListsRight'
  BY DEF ListsRight
<1>1. /\ \A s \in Reloaders \ {r} : pc'[s] = pc[s]
      /\ pc \in [Processes -> {"idle", "clear", "swap", "fill", "provider", "stat", "download",
                                "body", "end", "open", "lookup", "checked"}]
      /\ bl \in [Reloaders -> Contents] /\ toAdd \in [Reloaders -> Contents]
      /\ Contents = [ips : SUBSET Networks, asns : SUBSET Providers]
      /\ r \in Processes
  BY ReloadSpares DEF TypeOK, Processes, Contents
<1>2. CASE ReadFile(r)
  <2>1. Reloading = {} /\ pc'[r] = "clear" /\ bl'[r] = lastRead'
    BY <1>1, <1>2 DEF ReadFile
  <2>2. Reloading' = {r}
    BY <1>1, <2>1 DEF Reloading
  <2>3. QED
    BY <2>1, <2>2 DEF ListsRight
<1>3. CASE ~ReadFile(r)
  <2>1. r \in Reloading /\ ~crossed /\ lastRead' = lastRead
    BY <1>3 DEF Reload, Clear, Swap, StoreAsn, InsertIp, Inserting, Reloaded, history, Reloading
  <2>2. /\ Reloading = {r} /\ bl[r] = lastRead
        /\ pc[r] = "swap" => asns = {}
        /\ pc[r] = "fill" => /\ asns \cup toAdd[r].asns = lastRead.asns
                             /\ ips \cup toAdd[r].ips = lastRead.ips
    BY <2>1 DEF ListsRight
  <2>3. ASSUME pc'[r] # "idle", bl'[r] = bl[r],
               pc'[r] = "swap" => asns' = {},
               pc'[r] = "fill" => /\ asns' \cup toAdd'[r].asns = lastRead.asns
                                  /\ ips' \cup toAdd'[r].ips = lastRead.ips
        PROVE  ListsRight'
    <3>1. Reloading' = {r}
      BY <1>1, <2>2, <2>3 DEF Reloading
    <3>2. QED
      BY <2>1, <2>2, <2>3, <3>1 DEF ListsRight
  <2>4. CASE Clear(r)
    BY <1>1, <2>3, <2>4 DEF Clear, reloads
  <2>5. CASE Swap(r)
    <3>1. /\ pc[r] = "swap" /\ pc'[r] = "fill" /\ toAdd'[r] = lastRead /\ asns' = {}
          /\ ips' = {} /\ bl' = bl
      BY <1>1, <2>2, <2>5 DEF Swap
    <3>2. QED
      BY <2>3, <3>1
  <2>6. ASSUME NEW a \in Providers, StoreAsn(r, a)
        PROVE  ListsRight'
    <3>1. /\ pc[r] = "fill" /\ a \in toAdd[r].asns /\ UNCHANGED <<pc, bl, ips>>
          /\ toAdd'[r].asns = toAdd[r].asns \ {a} /\ toAdd'[r].ips = toAdd[r].ips
          /\ asns' = asns \cup {a}
      BY <1>1, <2>6 DEF StoreAsn
    <3>2. asns' \cup toAdd'[r].asns = asns \cup toAdd[r].asns
      BY <3>1
    <3>3. QED
      BY <2>2, <2>3, <3>1, <3>2
  <2>7. ASSUME NEW n \in Networks, InsertIp(r, n)
        PROVE  ListsRight'
    <3>1. /\ pc[r] = "fill" /\ n \in toAdd[r].ips /\ UNCHANGED <<pc, bl, asns>>
          /\ toAdd'[r].ips = toAdd[r].ips \ {n} /\ toAdd'[r].asns = toAdd[r].asns
      BY <1>1, <2>7 DEF InsertIp, Inserting
    \* No other insertion is under way that could lose this one.
    <3>2. Inserting = {r}
      BY <2>2, <2>7 DEF InsertIp, Inserting, Reloading
    <3>3. ips' \cup toAdd'[r].ips = ips \cup toAdd[r].ips
      BY <2>7, <3>1, <3>2 DEF InsertIp
    <3>4. QED
      BY <2>2, <2>3, <3>1, <3>3
  <2>8. CASE Reloaded(r)
    <3>1. pc[r] = "fill" /\ toAdd[r].asns = {} /\ toAdd[r].ips = {} /\ pc'[r] = "idle"
          /\ UNCHANGED <<asns, ips>>
      BY <1>1, <2>8 DEF Reloaded, NoBl, lists
    <3>2. Reloading' = {}
      BY <1>1, <2>2, <3>1 DEF Reloading
    <3>3. QED
      BY <2>1, <2>2, <3>1, <3>2 DEF ListsRight
  <2>9. QED
    BY <1>3, <2>4, <2>5, <2>6, <2>7, <2>8 DEF Reload
<1>4. QED
  BY <1>2, <1>3

\* Checks only read the lists.
LEMMA CheckLists ==
    ASSUME TypeOK, NEW c \in Checkers, CheckStep(c)
    PROVE  Reloading' = Reloading /\ (ListsRight => ListsRight')
<1>1. \A s \in Reloaders : pc'[s] = pc[s]
  BY CheckSpares, BlacklistAssumption DEF Processes
<1>2. UNCHANGED <<lists, reloads, lastRead, crossed>>
  BY CheckSpares
<1>3. Reloading' = Reloading
  BY <1>1 DEF Reloading
<1>4. QED
  BY <1>1, <1>2, <1>3 DEF ListsRight, lists, reloads, Reloading

-----------------------------------------------------------------------------
(* The checks.                                                              *)

\* A reload disturbs whatever check is under way.
LEMMA ReloadChecks ==
    ASSUME TypeOK, ChecksRight, NEW r \in Reloaders, Reload(r)
    PROVE  ChecksRight' /\ AnswersFollowTheFile'
<1>1. /\ \A c \in Checkers : pc'[c] = pc[c]
      /\ UNCHANGED <<address, opened, providerDB>>
  BY ReloadSpares, BlacklistAssumption DEF Processes, db
<1>2. ASSUME NEW c \in Checkers, pc[c] # "idle"
      PROVE  ~quiet'[c]
  <2>1. CASE ReadFile(r)
    BY <1>2, <2>1 DEF ReadFile
  <2>2. CASE ~ReadFile(r)
    <3>1. r \in Reloading /\ quiet' = quiet
      BY <2>2 DEF Reload, Clear, Swap, StoreAsn, InsertIp, Inserting, Reloaded, history,
                  Reloading
    <3>2. QED
      BY <1>2, <3>1 DEF ChecksRight
  <2>3. QED
    BY <2>1, <2>2
<1>3. QED
  BY <1>1, <1>2 DEF ChecksRight, AnswersFollowTheFile

\* What the invariant says of one check.
CheckRight(c) ==
    pc[c] # "idle" =>
        /\ address[c] \in Addresses
        /\ opened[c] => providerDB # None /\ pc[c] \in {"provider", "lookup", "checked"}
        /\ quiet[c] => Reloading = {}
        /\ quiet[c] /\ ~crossed /\ pc[c] # "checked" =>
              address[c].network \notin lastRead.ips /\ ~banned[c]

AnswerRight(c) ==
    pc[c] = "checked" /\ quiet[c] /\ ~crossed =>
        LET network == address[c].network \in lastRead.ips
            provider == address[c].provider \in lastRead.asns
        IN  /\ network => banned[c]
            /\ ~overlap /\ opened[c] /\ provider => banned[c]
            /\ ~overlap /\ banned[c] => network \/ provider

\* Once open, the database stays open; once two downloads have met, they have.
LEMMA DBStays ==
    ASSUME TypeOK, NEW c \in Checkers, CheckStep(c)
    PROVE  /\ providerDB # None => providerDB' # None
           /\ overlap => overlap'
<1>1. CASE GetProvider(c)
  BY <1>1 DEF GetProvider, UseDB, Stat, Download, WriteBody, WriteEnd, OpenDB, db, TypeOK,
              TypeOKDB
<1>2. CASE UNCHANGED db
  BY <1>2 DEF db
<1>3. QED
  BY <1>1, <1>2 DEF CheckStep, Check, FindProvider, CheckProvider, Answer

LEMMA CheckChecks ==
    ASSUME TypeOK, DBRight, ListsRight, ChecksRight, AnswersFollowTheFile,
           NEW c \in Checkers, CheckStep(c)
    PROVE  ChecksRight' /\ AnswersFollowTheFile'
<1>1. /\ pc \in [Processes -> {"idle", "clear", "swap", "fill", "provider", "stat", "download",
                                "body", "end", "open", "lookup", "checked"}]
      /\ c \in Processes /\ None \notin Addresses
      /\ address \in [Checkers -> Addresses \cup {None}] /\ banned \in [Checkers -> BOOLEAN]
      /\ quiet \in [Checkers -> BOOLEAN] /\ opened \in [Checkers -> BOOLEAN]
  BY BlacklistAssumption DEF TypeOK, Processes
<1>2. Reloading' = Reloading /\ UNCHANGED <<asns, ips, lastRead, crossed>>
  BY CheckLists, CheckSpares DEF lists
<1>3. CheckRight(c) /\ AnswerRight(c)
  BY DEF ChecksRight, AnswersFollowTheFile, CheckRight, AnswerRight
<1>4. \A d \in Checkers \ {c} : CheckRight(d)' /\ AnswerRight(d)'
  <2> TAKE d \in Checkers \ {c}
  <2>1. /\ pc'[d] = pc[d] /\ address'[d] = address[d] /\ banned'[d] = banned[d]
        /\ quiet'[d] = quiet[d] /\ opened'[d] = opened[d]
    BY CheckSpares DEF Processes
  <2>2. CheckRight(d) /\ AnswerRight(d)
    BY DEF ChecksRight, AnswersFollowTheFile, CheckRight, AnswerRight
  <2>3. CheckRight(d)'
    BY <1>2, <2>1, <2>2, DBStays DEF CheckRight
  <2>4. AnswerRight(d)'
    BY <1>2, <2>1, <2>2, DBStays DEF AnswerRight
  <2>5. QED
    BY <2>3, <2>4
<1>5. ASSUME NEW a \in Addresses, Check(c, a)
      PROVE  CheckRight(c)' /\ AnswerRight(c)'
  <2>1. PICK found \in BOOLEAN :
            /\ Inserting = {} => (found <=> a.network \in ips)
            /\ banned' = [banned EXCEPT ![c] = found]
            /\ pc' = [pc EXCEPT ![c] = IF found THEN "checked" ELSE "provider"]
    BY <1>5 DEF Check, LookupIp
  <2>2. /\ address'[c] = a /\ banned'[c] = found
        /\ quiet'[c] = (Reloading = {}) /\ opened'[c] = (providerDB # None)
        /\ UNCHANGED providerDB
    BY <1>1, <1>5, <2>1 DEF Check, db
  <2>3. pc'[c] = IF found THEN "checked" ELSE "provider"
    BY <1>1, <2>1
  <2>4. ASSUME quiet'[c], ~crossed
        PROVE  found <=> a.network \in lastRead.ips
    <3>1. Inserting = {} /\ ips = lastRead.ips
      BY <2>2, <2>4 DEF Inserting, Reloading, ListsRight
    <3>2. QED
      BY <2>1, <3>1
  <2>5. CheckRight(c)'
    BY <1>2, <2>2, <2>3, <2>4 DEF CheckRight
  <2>6. AnswerRight(c)'
    BY <1>2, <2>2, <2>3, <2>4 DEF AnswerRight
  <2>7. QED
    BY <2>5, <2>6
<1>6. ASSUME FindProvider(c)
      PROVE  CheckRight(c)' /\ AnswerRight(c)'
  <2>1. UNCHANGED <<address, banned, quiet, opened>> /\ GetProvider(c)
    BY <1>6 DEF FindProvider, checks, history
  <2>2. /\ pc[c] \in {"provider", "stat", "download", "body", "end", "open"}
        /\ pc'[c] # "idle"
        /\ opened[c] => pc'[c] = "lookup" /\ providerDB' = providerDB
    BY <1>1, <1>3, <2>1 DEF GetProvider, UseDB, Stat, Download, WriteBody, WriteEnd, BreakOff,
                            OpenDB, GotoDB, CheckRight, db
  <2>3. CheckRight(c)'
    BY <1>2, <1>3, <2>1, <2>2 DEF CheckRight
  <2>4. AnswerRight(c)'
    BY <1>2, <1>3, <2>1, <2>2 DEF CheckRight, AnswerRight
  <2>5. QED
    BY <2>3, <2>4
<1>7. ASSUME CheckProvider(c)
      PROVE  CheckRight(c)' /\ AnswerRight(c)'
  <2>1. PICK found \in BOOLEAN :
            /\ Sound => (found <=> address[c].provider \in asns)
            /\ banned' = [banned EXCEPT ![c] = found]
    BY <1>7 DEF CheckProvider
  <2>2. /\ pc[c] = "lookup" /\ pc'[c] = "checked" /\ banned'[c] = found
        /\ UNCHANGED <<address, quiet, opened, providerDB, overlap>>
    BY <1>1, <1>7, <2>1 DEF CheckProvider, history, db
  <2>3. ~overlap => Sound
    BY <2>2 DEF DBRight, Sound
  <2>4. quiet[c] /\ ~crossed => asns = lastRead.asns
    BY <1>3, <2>2 DEF CheckRight, ListsRight
  <2>5. CheckRight(c)'
    BY <1>2, <1>3, <2>2 DEF CheckRight
  <2>6. AnswerRight(c)'
    BY <1>2, <1>3, <2>1, <2>2, <2>3, <2>4 DEF CheckRight, AnswerRight
  <2>7. QED
    BY <2>5, <2>6
<1>8. ASSUME Answer(c)
      PROVE  CheckRight(c)' /\ AnswerRight(c)'
  <2>1. pc'[c] = "idle"
    BY <1>1, <1>8 DEF Answer
  <2>2. QED
    BY <2>1 DEF CheckRight, AnswerRight
<1>9. CheckRight(c)' /\ AnswerRight(c)'
  BY <1>5, <1>6, <1>7, <1>8 DEF CheckStep
<1>10. \A d \in Checkers : CheckRight(d)' /\ AnswerRight(d)'
  BY <1>4, <1>9
<1>11. ChecksRight'
  BY <1>10 DEF ChecksRight, CheckRight
<1>12. AnswersFollowTheFile'
  BY <1>10 DEF AnswersFollowTheFile, AnswerRight
<1>13. QED
  BY <1>11, <1>12

-----------------------------------------------------------------------------
LEMMA NextInv == Inv /\ [Next]_vars => Inv'
<1> SUFFICES ASSUME Inv, [Next]_vars
             PROVE  Inv'
  OBVIOUS
<1>1. TypeOK /\ DBRight /\ ListsRight /\ ChecksRight /\ AnswersFollowTheFile
  BY DEF Inv
<1>2. CASE UNCHANGED vars
  <2>1. Reloading' = Reloading /\ Downloading' = Downloading
    BY <1>2 DEF vars, Reloading, Downloading
  <2>2. TypeOK'
    BY <1>1, <1>2 DEF TypeOK, TypeOKDB, vars
  <2>3. DBRight'
    BY <1>1, <1>2, <2>1 DEF DBRight, Written, vars
  <2>4. ListsRight' /\ ChecksRight' /\ AnswersFollowTheFile'
    BY <1>1, <1>2, <2>1 DEF ListsRight, ChecksRight, AnswersFollowTheFile, vars
  <2>5. QED
    BY <2>2, <2>3, <2>4 DEF Inv
<1>3. ASSUME NEW v \in Versions \cup {None}, Edit(v)
      PROVE  Inv'
  <2>1. /\ UNCHANGED <<asns, ips, pc, bl, toAdd, address, banned, lastRead, crossed, quiet,
                       opened, dbFile, providerDB, edition, overlap>>
        /\ file' \in Versions \cup {None}
    BY <1>3 DEF Edit, lists, reloads, checks, history, db
  <2>2. Reloading' = Reloading /\ Downloading' = Downloading
    BY <2>1 DEF Reloading, Downloading
  <2>3. TypeOK'
    BY <1>1, <2>1 DEF TypeOK, TypeOKDB
  <2>4. DBRight'
    BY <1>1, <2>1, <2>2 DEF DBRight, Written
  <2>5. ListsRight' /\ ChecksRight' /\ AnswersFollowTheFile'
    BY <1>1, <2>1, <2>2 DEF ListsRight, ChecksRight, AnswersFollowTheFile
  <2>6. QED
    BY <2>3, <2>4, <2>5 DEF Inv
\* Nothing but the files outlives the process: whatever was under way is gone.
<1>4. CASE Restart
  <2>1. /\ Loaded \in Contents /\ NoBl \in Contents
        /\ Loaded.ips \in SUBSET Networks /\ Loaded.asns \in SUBSET Providers
    BY <1>1, BlacklistAssumption DEF TypeOK, Loaded, NoBl, Contents
  <2>2. TypeOK'
    BY <1>1, <1>4, <2>1 DEF Restart, TypeOK, TypeOKDB
  <2>3. Downloading' = {} /\ Reloading' = {} /\ \A c \in Checkers : pc'[c] = "idle"
    BY <1>4 DEF Restart, Downloading, Reloading
  <2>4. DBRight'
    BY <1>1, <1>4, <2>3 DEF Restart, DBRight
  <2>5. ListsRight' /\ ChecksRight' /\ AnswersFollowTheFile'
    BY <1>4, <2>3 DEF Restart, ListsRight, ChecksRight, AnswersFollowTheFile
  <2>6. QED
    BY <2>2, <2>4, <2>5 DEF Inv
<1>5. ASSUME NEW r \in Reloaders, Reload(r)
      PROVE  Inv'
  <2>1. UNCHANGED db /\ \A c \in Checkers : pc'[c] = pc[c]
    BY <1>1, <1>5, ReloadSpares, BlacklistAssumption DEF Processes
  <2>2. DBRight'
    BY <1>1, <2>1, DBUntouched
  <2>3. QED
    BY <1>1, <1>5, <2>2, ReloadTypes, ReloadLists, ReloadChecks DEF Inv
<1>6. ASSUME NEW c \in Checkers, CheckStep(c)
      PROVE  Inv'
  <2>1. ASSUME GetProvider(c)
        PROVE  DBRight'
    BY <1>1, <2>1, DBStep
  <2>2. ASSUME UNCHANGED db,
               pc'[c] \in {"idle", "provider", "checked"},
               pc[c] \in {"idle", "lookup", "checked"}
        PROVE  DBRight'
    <3>1. \A d \in Checkers \ {c} : pc'[d] = pc[d]
      BY <1>1, <1>6, CheckSpares DEF Processes
    <3>2. QED
      BY <1>1, <2>2, <3>1, DBUntouched
  <2>3. ASSUME (\E a \in Addresses : Check(c, a)) \/ CheckProvider(c) \/ Answer(c)
        PROVE  DBRight'
    <3>1. UNCHANGED db /\ pc[c] \in {"idle", "lookup", "checked"}
      BY <2>3 DEF Check, CheckProvider, Answer
    <3>2. pc'[c] \in {"idle", "provider", "checked"}
      BY <1>1, <2>3 DEF Check, LookupIp, CheckProvider, Answer, TypeOK
    <3>3. QED
      BY <2>2, <3>1, <3>2
  <2>4. DBRight'
    BY <1>6, <2>1, <2>3 DEF CheckStep, FindProvider
  <2>5. QED
    BY <1>1, <1>6, <2>4, CheckTypes, CheckLists, CheckChecks DEF Inv
<1>7. QED
  BY <1>2, <1>3, <1>4, <1>5, <1>6 DEF Next, CheckStep

\* The invariant holds in every state the lists and the database can be in.
THEOREM Invariance == Spec => []Inv
  BY InitInv, NextInv, PTL DEF Spec

\* The lists hold networks and providers, and each request has a step of
\* ReloadBlacklist or CheckBans to be at, whatever meets and dies.
THEOREM TypeCorrect == Spec => []TypeOK
<1>1. Inv => TypeOK
  BY DEF Inv
<1>2. QED
  BY <1>1, Invariance, PTL

\* ReloadBlacklist leaves exactly what it has read, when nobody else is at it,
\* whatever the reloads before it have left.
THEOREM SequentialReloads == Spec => []ReloadedInSequence
<1>1. Inv => ReloadedInSequence
  BY DEF Inv, ListsRight, ReloadedInSequence
<1>2. QED
  BY <1>1, Invariance, PTL

\* CheckBans of a request that no reload crosses answers by the file last read.
THEOREM AnswersAreRight == Spec => []AnswersFollowTheFile
<1>1. Inv => AnswersFollowTheFile
  BY DEF Inv
<1>2. QED
  BY <1>1, Invariance, PTL

\* The reader of GetProviderForIP is one of a whole edition, unless two
\* downloads have met.
THEOREM ReaderSound == Spec => []ReaderIsSound
<1>1. Inv => ReaderIsSound
  BY DEF Inv, TypeOK, TypeOKDB, DBRight, ReaderIsSound, Sound
<1>2. QED
  BY <1>1, Invariance, PTL

\* A download that has broken off disables the bans by provider, in this
\* process and in every later one.
THEOREM BrokenForGood == Spec => BrokenIsForGood
<1>1. Inv /\ [Next]_vars => [Broken => Broken']_<<dbFile, providerDB, pc>>
  <2> SUFFICES ASSUME Inv, [Next]_vars, Broken
               PROVE  Broken'
    OBVIOUS
  <2>1. TypeOK
    BY DEF Inv
  <2>2. CASE UNCHANGED vars
    BY <2>2 DEF vars, Broken, Downloading
  <2>3. ASSUME UNCHANGED <<dbFile, providerDB>>,
               \A c \in Checkers : pc'[c] \in {"download", "body", "end"} => pc'[c] = pc[c]
        PROVE  Broken'
    <3>1. Downloading' = {}
      BY <2>3 DEF Broken, Downloading
    <3>2. QED
      BY <2>3, <3>1 DEF Broken
  <2>4. ASSUME NEW v \in Versions \cup {None}, Edit(v)
        PROVE  Broken'
    BY <2>3, <2>4 DEF Edit, db
  <2>5. CASE Restart
    BY <2>3, <2>5 DEF Restart, Broken
  <2>6. ASSUME NEW r \in Reloaders, Reload(r)
        PROVE  Broken'
    BY <2>1, <2>3, <2>6, ReloadSpares, BlacklistAssumption DEF Processes, db
  <2>7. ASSUME NEW c \in Checkers, CheckStep(c)
        PROVE  Broken'
    <3>1. \A d \in Checkers \ {c} : pc'[d] = pc[d]
      BY <2>1, <2>7, CheckSpares DEF Processes
    <3>2. pc[c] \notin {"download", "body", "end"}
      BY DEF Broken, Downloading
    \* The file is there, so that nobody downloads it, and has no end, so that
    \* nobody opens it.
    <3>3. UNCHANGED <<dbFile, providerDB>> /\ pc'[c] \notin {"download", "body", "end"}
      BY <2>1, <2>7, <3>2 DEF CheckStep, Check, LookupIp, FindProvider, GetProvider, UseDB,
         Stat, Download, WriteBody, WriteEnd, OpenDB, GotoDB, CheckProvider, Answer, Broken,
         TypeOK, db
    <3>4. QED
      BY <2>3, <3>1, <3>3
  <2>8. QED
    BY <2>2, <2>4, <2>5, <2>6, <2>7 DEF Next, CheckStep
<1>2. QED
  BY <1>1, Invariance, PTL DEF Spec, BrokenIsForGood
=============================================================================
