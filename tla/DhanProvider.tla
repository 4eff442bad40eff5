----------------------------- MODULE DhanProvider -----------------------------
(***************************************************************************)
(* DhanInstrumentProvider (dhan/providers.py): the instruments and the two *)
(* maps it fills from the scrip master, and what the rest of the client    *)
(* makes of them -- the address an order is sent to (orders.py) and the    *)
(* instrument that a row of Dhan's books is about (execution.py).          *)
(*                                                                         *)
(* load_all_async has one await, the download; the loop over the rows has  *)
(* none and is one action.  Dhan may serve another file at every download; *)
(* the clock moves on between and during downloads.                        *)
(***************************************************************************)
EXTENDS DhanScrip, Sequences

CONSTANTS Files,        \* the files Dhan may serve: sequences of rows
          FilterSets,   \* what a load may ask for: [underlyings, classes]
          MaxSlot,      \* bound on the clock
          MaxLoads      \* bound on the number of downloads

ASSUME BoundsAssumption == MaxSlot \in Nat \ {0} /\ MaxLoads \in Nat

\* A tick that can be read is a whole number of ten-thousandths of a rupee.
ASSUME FilesAssumption ==
  \A file \in Files : /\ file \in Seq(RawRow)
                     /\ \A i \in DOMAIN file : file[i].tick % PaisePerRupee = 0 \/ file[i].tick < 0

\* Within what the feed calls one segment, the exchange gives a security id to a
\* contract of another name only when the first has been dead for a whole day.
\* No code checks it.
DeadBefore(scrip, day) == scrip.key.expiry # NoDay /\ scrip.key.expiry + 1 < day

ASSUME IdsAreReusedLate ==
  \A f, g \in Files : \A i \in DOMAIN f, j \in DOMAIN g :
    \A r \in ParseRow(f[i]), s \in ParseRow(g[j]) :
      /\ r.securityId = s.securityId
      /\ SegmentCodeFor(r) \cap SegmentCodeFor(s) # {}
      /\ ToInstrumentId(r) # ToInstrumentId(s)
      => DeadBefore(r, g[j].listed) \/ DeadBefore(s, f[i].listed)

VARIABLES
  slot,          \* the time: three slots to a day in India, see below
  load,          \* the load_all_async under way
  instruments,   \* InstrumentProvider._instruments
  securityIds,   \* _security_ids: instrument id -> security id
  bySecurity,    \* _by_security: <<security id, segment code>> -> instrument id
  loaded,        \* did the last load_all_async return
  loads,         \* downloads begun
  last           \* history: the last file read, for what, and when

provider == <<instruments, securityIds, bySecurity>>
vars     == <<slot, load, provider, loaded, loads, last>>

\* A day in India has a slot before 05:30, while the date in UTC is still the
\* day before; one until 15:30, the end of a contract's last day
\* (core/instruments.py:51-53); and one after.
IstDay(s) == s \div 3
UtcDay(s) == (s + 2) \div 3 - 1
AfterClose(s) == s % 3 = 2

Idle == [phase |-> "idle"]

Init == /\ slot = 1
        /\ load = Idle
        /\ instruments = <<>> /\ securityIds = <<>> /\ bySecurity = <<>>
        /\ loaded = FALSE
        /\ loads = 0
        /\ last = [file |-> <<>>, filters |-> [underlyings |-> {}, classes |-> {}],
                   slot |-> 0]

\* The clock; a download is given up after two minutes, so that at most one
\* boundary falls into it.
Tick == /\ slot < MaxSlot
        /\ load.phase # "idle" => ~load.ticked
        /\ slot' = slot + 1
        /\ load' = IF load.phase = "idle" THEN load ELSE [load EXCEPT !.ticked = TRUE]
        /\ UNCHANGED <<provider, loaded, loads, last>>

-------------------------------------------------------------------------------
\* Loading.

LoadAll(filters) ==
  /\ load.phase = "idle" /\ loads < MaxLoads
  /\ load' = [phase |-> "requested", filters |-> filters, ticked |-> FALSE]
  /\ loads' = loads + 1
  /\ UNCHANGED <<slot, provider, loaded, last>>

\* Dhan answers with the file it has now: no contract is in it before the
\* exchange lists it.
Serve(file) ==
  /\ load.phase = "requested"
  /\ \A i \in DOMAIN file : file[i].listed <= IstDay(slot)
  /\ load' = [phase |-> "served", filters |-> load.filters, ticked |-> load.ticked,
              file |-> file]
  /\ UNCHANGED <<slot, provider, loaded, loads, last>>

Alive(scrip, today) == scrip.key.expiry = NoDay \/ scrip.key.expiry >= today

\* An empty list of names filters nothing.
Matches(scrip, filters) ==
  /\ filters.underlyings # {} => scrip.key.underlying \in filters.underlyings
  /\ filters.classes # {} => scrip.key.class \in filters.classes

\* A dict's map[key] = value; and its setdefault, for the mutants.
Put(map, key, value) ==
  [k \in DOMAIN map \cup {key} |-> IF k = key THEN value ELSE map[k]]
PutFirst(map, key, value) == IF key \in DOMAIN map THEN map ELSE Put(map, key, value)

\* Mutants: the first security id of a name stays; a later row of a security id
\* does not take its frames over.
AddKeepingIds(p, scrip, id) ==
  LET built == Build(scrip, id) IN
  [p EXCEPT !.instruments = Put(@, id, built),
            !.securityIds = PutFirst(@, id, scrip.securityId),
            !.bySecurity = IF SegmentCodeFor(scrip) = {} THEN @
                           ELSE Put(@, <<scrip.securityId, built.code>>, id)]

AddKeepingRoutes(p, scrip, id) ==
  LET built == Build(scrip, id) IN
  [p EXCEPT !.instruments = Put(@, id, built),
            !.securityIds = Put(@, id, scrip.securityId),
            !.bySecurity = IF SegmentCodeFor(scrip) = {} THEN @
                           ELSE PutFirst(@, <<scrip.securityId, built.code>>, id)]

Add(p, scrip, id) ==
  LET built == Build(scrip, id) IN
  [p EXCEPT !.instruments = Put(@, id, built),
            !.securityIds = Put(@, id, scrip.securityId),
            !.bySecurity = IF SegmentCodeFor(scrip) = {} THEN @
                           ELSE Put(@, <<scrip.securityId, built.code>>, id)]

\* What a file offers: the rows that are understood, alive and asked for.
Wanted(row, today, filters) ==
  {scrip \in ParseRow(row) : Alive(scrip, today) /\ Matches(scrip, filters)}

\* Mutant: a symbol that cannot be written is skipped like an unknown row.
LoadRowSkippingUnnamed(p, row, today, filters) ==
  LET wanted == Wanted(row, today, filters)
      ids    == UNION {ToInstrumentId(scrip) : scrip \in wanted}
  IN IF ids = {} THEN p
     ELSE Add(p, CHOOSE scrip \in wanted : TRUE, CHOOSE id \in ids : TRUE)

\* One turn of the loop.  A symbol that cannot be written raises out of it
\* (SymbolFormatError), and out of load_all_async.
LoadRow(p, row, today, filters) ==
  LET wanted == Wanted(row, today, filters)
      ids    == UNION {ToInstrumentId(scrip) : scrip \in wanted}
  IN IF p.raised \/ wanted = {} THEN p
     ELSE IF ids = {} THEN [p EXCEPT !.raised = TRUE]
     ELSE Add(p, CHOOSE scrip \in wanted : TRUE, CHOOSE id \in ids : TRUE)

\* The loop over the rows of a file.
LoadFile(p, file, today, filters) ==
  LET after[n \in 0 .. Len(file)] ==
        IF n = 0 THEN p ELSE LoadRow(after[n - 1], file[n], today, filters)
  IN after[Len(file)]

\* The download returns and the rows are read, with today's date -- in UTC --
\* taken after the download.
LoadReturns ==
  /\ load.phase = "served"
  /\ LET before == [instruments |-> instruments, securityIds |-> securityIds,
                    bySecurity |-> bySecurity, raised |-> FALSE]
         after  == LoadFile(before, load.file, UtcDay(slot), load.filters)
     IN /\ instruments' = after.instruments
        /\ securityIds' = after.securityIds
        /\ bySecurity' = after.bySecurity
        /\ loaded' = ~after.raised
  /\ last' = [file |-> load.file, filters |-> load.filters, slot |-> slot]
  /\ load' = Idle
  /\ UNCHANGED <<slot, loads>>

\* An httpx.HTTPError or a status that is not 200 raises: nothing is read.
DownloadFails ==
  /\ load.phase = "requested"
  /\ load' = Idle
  /\ loaded' = FALSE
  /\ UNCHANGED <<slot, provider, loads, last>>

Next == \/ Tick
        \/ \E filters \in FilterSets : LoadAll(filters)
        \/ \E file \in Files : Serve(file)
        \/ LoadReturns
        \/ DownloadFails

Spec == Init /\ [][Next]_vars

-------------------------------------------------------------------------------
\* What the client makes of the provider.

Offered == DOMAIN instruments

\* orders.segment_name and security_id_for: where an order is sent; {} when it
\* is refused for want of a segment.  REST's names of the segments are one to
\* one with the codes.
OrderAddress(id) ==
  IF instruments[id].code = UnknownSegmentCode THEN {}
  ELSE {<<securityIds[id], instruments[id].code>>}

\* execution._instrument_for: the instrument that a row of a book is about.
InstrumentFor(address) ==
  IF address \in DOMAIN bySecurity THEN {bySecurity[address]} ELSE {}

Dead(id, day) == /\ instruments[id].key.expiry # NoDay
                 /\ instruments[id].key.expiry < day

\* Instruments are whole contracts: a positive multiplier and tick, and what a
\* class needs; all three maps speak of the same ids.
TypeOK ==
  /\ slot \in 0 .. MaxSlot /\ loads \in 0 .. MaxLoads /\ loaded \in BOOLEAN
  /\ load.phase \in {"idle", "requested", "served"}
  /\ DOMAIN securityIds = Offered
  /\ \A address \in DOMAIN bySecurity : bySecurity[address] \in Offered
  /\ \A id \in Offered :
       LET i == instruments[id] IN
       /\ i.id = id /\ i.multiplier > 0 /\ i.increment > 0
       /\ i.key.class \notin Cash => i.key.expiry # NoDay
       /\ i.key.class = "option" => i.key.strike > 0 /\ i.key.right \in Rights

\* An order for an instrument that is offered and not dead is reported back --
\* in the books, in the positions, by the feed -- under that instrument and no
\* other, although the exchange gives the ids of dead contracts to new ones,
\* the maps are never cleared and a file may list one name twice
\* (providers.py:156-160, orders.segment_name, execution._instrument_for).
OrdersComeBackAsTheirOwn ==
  \A id \in Offered : ~Dead(id, IstDay(slot)) =>
    \A address \in OrderAddress(id) : InstrumentFor(address) = {id}

\* The contract of a row, told without its symbol.
Contract(scrip) ==
  [scrip.key EXCEPT !.class = IF @ \in Cash THEN "cash" ELSE @]

\* A load that returned has read a file of Dhan's, and offers every live contract
\* of it that was asked for with its security id, exact tick and lot from one
\* row, the last that lists this very contract: never from two rows, nor from
\* another contract with its symbol, nor rounded away.  What it cannot do so for
\* want of an answer, or of a symbol, has raised instead (providers.py:12-23,
\* load_all_async, _download, _with_master_values, symbology._strike_to_paise).
LoadedAsListed ==
  LET wanted(i) == Wanted(last.file[i], UtcDay(last.slot), last.filters)
      Lists(j, scrip) == \E s \in wanted(j) : /\ s.exchange = scrip.exchange
                                             /\ Contract(s) = Contract(scrip)
  IN loaded =>
       /\ last.slot > 0
       /\ \A i \in DOMAIN last.file : \A scrip \in wanted(i) :
            \/ \E j \in DOMAIN last.file : j > i /\ Lists(j, scrip)
            \/ \E id \in ToInstrumentId(scrip) \cap Offered :
                 /\ instruments[id].key = scrip.key
                 /\ securityIds[id] = last.file[i].sec
                 /\ scrip.key.class # "index" =>
                      instruments[id].increment * PaisePerRupee = last.file[i].tick
                 /\ scrip.key.class \notin Cash =>
                      instruments[id].multiplier = last.file[i].lot

\* "The master ships dead contracts ... Offering them gives Nautilus instruments
\* it will accept orders for and the exchange will reject" (providers.py:3-6):
\* a load adds no instrument whose expiration is past (test_providers.py:35-43).
\* The code compares whole days, and the date in UTC.
Expired(instrument, s) ==
  /\ instrument.key.expiry # NoDay
  /\ \/ instrument.key.expiry < IstDay(s)
     \/ instrument.key.expiry = IstDay(s) /\ AfterClose(s)

NothingExpiredIsOffered ==
  [][\A id \in DOMAIN instruments' :
       (id \notin Offered \/ instruments'[id] # instruments[id]) =>
         ~Expired(instruments'[id], slot)]_vars
===============================================================================
