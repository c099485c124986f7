------------------------------ MODULE Reconcile ------------------------------
(***************************************************************************)
(* The reconciliation tool, tools/reconcile-vault/src: it asks an RPC node *)
(* for the vault's tipped events page by page, then for its claimed ones,  *)
(* adds them up and reports drift.  The node's log of events grows while   *)
(* the tool runs.  An event is named by its position in the log, and a     *)
(* list of fetched events is a bag of positions, since the tool only adds  *)
(* its lists up.                                                           *)
(***************************************************************************)
EXTENDS Integers, Sequences, FiniteSets, Functions

CONSTANTS
    Author, GistId,
    Batches,               \* sequences of tips a transaction may publish
    Data,                  \* the ways the data of an event may be written
    Ranges,                \* the ledger ranges the tool may be asked for
    PageLimit,
    MaxEvents, MaxLedger   \* bounds on the log and on its last ledger

VARIABLES
    log, ledger,           \* the node: the vault's events, the current ledger
    phase,                 \* the tool: "idle", the topic it fetches, how it ended
    range, launched,       \* its arguments, and the ledger it was launched at
    cursor,                \* the position the last page reached, 0 without cursor
    tipped, claimed        \* how often each position is in the fetched lists

node == <<log, ledger>>
vars == <<node, phase, range, launched, cursor, tipped, claimed>>

Position == 1 .. MaxEvents

(* JSON text with the fields of the event; base64 of so many bytes; or      *)
(* neither, the first character that is not base64 being ASCII, or not.     *)
(* Text is split when its 80th byte ends within a character.                *)
Encoding == [text : {"json", "base64", "ascii", "other"}, length : Nat, split : BOOLEAN]

TipItem == [recipient : Author, gist_id : GistId, amount : Nat, fee : Nat, net : Nat]

Event == [type : {"tipped"}, gist_id : GistId, recipient : Author, amount : Nat,
          fee : Nat, net : Nat, data : Encoding, ledger : Nat]
           \cup [type : {"claimed"}, recipient : Author, amount : Nat,
                 data : Encoding, ledger : Nat]

ASSUME ReconcileAssumption ==
    /\ Batches \subseteq Seq(TipItem)
    /\ Data \subseteq Encoding
    /\ Ranges \subseteq [first : Nat, last : Nat]
    /\ PageLimit \in Nat \ {0}
    /\ MaxEvents \in Nat /\ MaxLedger \in Nat

-----------------------------------------------------------------------------
(* Sums over a bag of events, as aggregate_tips and aggregate_claims build  *)
(* them; 0 where the code has no entry.                                     *)

Tips == {i \in DOMAIN log : log[i].type = "tipped"}
Claims == {i \in DOMAIN log : log[i].type = "claimed"}

GistTotal(tips, g) ==
    SumFunctionOnSet([i \in Tips |-> tips[i] * log[i].amount],
                     {i \in Tips : log[i].gist_id = g})

NetTo(tips, a) ==
    SumFunctionOnSet([i \in Tips |-> tips[i] * log[i].net],
                     {i \in Tips : log[i].recipient = a})

GrossTo(tips, a) ==
    SumFunctionOnSet([i \in Tips |-> tips[i] * log[i].amount],
                     {i \in Tips : log[i].recipient = a})

ClaimedBy(claims, a) ==
    SumFunctionOnSet([i \in Claims |-> claims[i] * log[i].amount],
                     {i \in Claims : log[i].recipient = a})

PendingBalance(tips, claims, a) == NetTo(tips, a) - ClaimedBy(claims, a)

SetInTurn(start, terms) ==
    LET table[n \in 0 .. Len(log)] ==
            IF n = 0 THEN start
            ELSE IF n \in DOMAIN terms
            THEN [table[n - 1] EXCEPT ![log[n].recipient] = terms[n]]
            ELSE table[n - 1]
    IN  table[Len(log)]

(* A loop over the events, each adding its term to its author's entry.      *)
AddedInTurn(start, terms) ==
    LET table[n \in 0 .. Len(log)] ==
            IF n = 0 THEN start
            ELSE IF n \in DOMAIN terms
            THEN [table[n - 1] EXCEPT ![log[n].recipient] = @ + terms[n]]
            ELSE table[n - 1]
    IN  table[Len(log)]

(* The pending balances that are printed, built up event by event.          *)
PendingBalances(tips, claims) ==
    AddedInTurn(AddedInTurn([a \in Author |-> 0],
                            [i \in Tips |-> tips[i] * log[i].net]),
                [i \in Claims |-> - (claims[i] * log[i].amount)])

BadTips(tips) ==
    {i \in Tips : tips[i] > 0 /\ log[i].amount # log[i].fee + log[i].net}

DriftAgainstGross(tips, claims) ==
    \/ BadTips(tips) # {}
    \/ \E a \in Author : GrossTo(tips, a) - ClaimedBy(claims, a)
                            # PendingBalances(tips, claims)[a]

(* The two checks of the report; the second adds an author's events up      *)
(* again and compares with the balance that was printed.                    *)
DriftDetected(tips, claims) ==
    \/ BadTips(tips) # {}
    \/ \E a \in Author : PendingBalance(tips, claims, a) # PendingBalances(tips, claims)[a]

-----------------------------------------------------------------------------
(* Decoding one event.                                                      *)

(* The bytes of gist_id, recipient, amount, fee and net that are read, and  *)
(* the number of bytes that is required before.                             *)
TIPPED_READ == 8 + 32 + 16 + 16 + 16
TIPPED_REQUIRED == 84
CLAIMED_READ == 32 + 16
CLAIMED_REQUIRED == 48

(* base64_decode refuses a character that its table does not hold, and      *)
(* panics on a byte beyond its table; bytes that are missing are noticed    *)
(* only up to the required length.  The warning about data that cannot be   *)
(* decoded quotes its first 80 bytes, and panics if they split a character. *)
Decode(data, required, read) ==
    CASE data.text = "json" -> "event"
      [] data.text = "other" -> "panic"
      [] data.text = "base64" /\ data.length >= read -> "event"
      [] data.text = "base64" /\ data.length \in required .. read - 1 -> "panic"
      [] OTHER -> IF data.split THEN "panic" ELSE "none"

FromRpc(event) ==
    IF event.type = "tipped" THEN Decode(event.data, TIPPED_REQUIRED, TIPPED_READ)
    ELSE Decode(event.data, CLAIMED_REQUIRED, CLAIMED_READ)

Decodable == {i \in DOMAIN log : FromRpc(log[i]) = "event"}

-----------------------------------------------------------------------------
(* The vault: what a transaction that tips or claims publishes.             *)

(* A node writes all data one way, so that an author has one name in it:    *)
(* the address in JSON, and after base64 the bytes in hexadecimal.          *)
OneForm(data) ==
    \A i \in DOMAIN log : {data.text, log[i].data.text} # {"json", "base64"}

TippedEvent(tip, data) ==
    [type |-> "tipped", gist_id |-> tip.gist_id, recipient |-> tip.recipient,
     amount |-> tip.amount, fee |-> tip.fee, net |-> tip.net,
     data |-> data, ledger |-> ledger]

ClaimedEvent(author, amount, data) ==
    [type |-> "claimed", recipient |-> author, amount |-> amount,
     data |-> data, ledger |-> ledger]

(* tip_author publishes one tip, tip_authors one for each item.             *)
TipAuthors(tips, data) ==
    /\ Len(log) + Len(tips) =< MaxEvents /\ OneForm(data)
    /\ log' = log \o [i \in DOMAIN tips |-> TippedEvent(tips[i], data)]
    /\ UNCHANGED <<ledger, phase, range, launched, cursor, tipped, claimed>>

Everything == [i \in Position |-> 1]

Owed(author) == PendingBalance(Everything, Everything, author)

ClaimTips(author, data) ==
    /\ Len(log) < MaxEvents /\ OneForm(data)
    /\ Owed(author) > 0
    /\ log' = Append(log, ClaimedEvent(author, Owed(author), data))
    /\ UNCHANGED <<ledger, phase, range, launched, cursor, tipped, claimed>>

CloseLedger ==
    /\ ledger < MaxLedger
    /\ ledger' = ledger + 1
    /\ UNCHANGED <<log, phase, range, launched, cursor, tipped, claimed>>

-----------------------------------------------------------------------------
(* The tool.                                                                *)

ClaimsFirst == <<"claimed", "tipped">>

FetchOrder == <<"tipped", "claimed">>

Nothing == [i \in Position |-> 0]

Launch(r) ==
    /\ phase = "idle"
    /\ range' = r
    /\ launched' = ledger
    /\ phase' = IF r.first > r.last THEN "error" ELSE FetchOrder[1]
    /\ UNCHANGED <<node, cursor, tipped, claimed>>

(* The events of a topic that the node's filter lets through.               *)
Matching(topic) ==
    {i \in DOMAIN log : log[i].type = topic
                          /\ range.first =< log[i].ledger /\ log[i].ledger =< range.last}

Page(upto) == {i \in Matching(phase) : cursor < i /\ i =< upto}

Push(fetched, events) ==
    [i \in Position |-> fetched[i] + IF i \in events THEN 1 ELSE 0]

FirstPageAgain(upto) == 0

CursorPastPage(upto) == upto + 1

CursorOfLastDecoded(upto) ==
    CHOOSE c \in cursor .. upto :
        /\ c = cursor \/ c \in Matching(phase) \cap Decodable
        /\ \A i \in c + 1 .. upto : i \notin Matching(phase) \cap Decodable

NextCursor(upto) == upto

StopAtEmptyPage(upto, more) == ~ more \/ Page(upto) = {}

EndOfPages(upto, more) == ~ more

(* The node scanned the log from the cursor up to a position, and answers   *)
(* with the events that match.  It may add a cursor, and does if there are  *)
(* more.                                                                    *)
Answer(upto, more) ==
    /\ phase \in {"tipped", "claimed"}
    /\ cursor =< upto /\ Cardinality(Page(upto)) =< PageLimit
    /\ ~ more => \A i \in Matching(phase) : i =< upto

Panics(i) == FromRpc(log[i]) = "panic"

(* One turn of the loop.  The last page of the second topic leads to the    *)
(* report.                                                                  *)
FetchPage(upto, more) ==
    LET events == Page(upto) \cap Decodable
        tips == IF phase = "tipped" THEN Push(tipped, events) ELSE tipped
        claims == IF phase = "claimed" THEN Push(claimed, events) ELSE claimed
    IN
    /\ Answer(upto, more)
    /\ \A i \in Page(upto) : ~ Panics(i)
    /\ tipped' = tips /\ claimed' = claims
    /\ IF EndOfPages(upto, more)
       THEN /\ cursor' = 0
            /\ phase' = IF phase = FetchOrder[1] THEN FetchOrder[2]
                        ELSE IF DriftDetected(tips, claims) THEN "drift" ELSE "clean"
       ELSE cursor' = NextCursor(upto) /\ phase' = phase
    /\ UNCHANGED <<node, range, launched>>

(* The page holds an event whose bytes run out while they are decoded.      *)
PanicOnPage(upto, more) ==
    /\ Answer(upto, more)
    /\ \E i \in Page(upto) : Panics(i)
    /\ phase' = "panic"
    /\ UNCHANGED <<node, range, launched, cursor, tipped, claimed>>

(* No connection, an RPC error, or an answer without result.                *)
RequestFails ==
    /\ phase \in {"tipped", "claimed"}
    /\ phase' = "error"
    /\ UNCHANGED <<node, range, launched, cursor, tipped, claimed>>

Init ==
    /\ log = <<>> /\ ledger = 0
    /\ phase = "idle"
    /\ range = [first |-> 0, last |-> 0] /\ launched = 0
    /\ cursor = 0
    /\ tipped = Nothing /\ claimed = Nothing

VaultStep ==
    \/ \E b \in Batches, d \in Data : TipAuthors(b, d)
    \/ \E a \in Author, d \in Data : ClaimTips(a, d)
    \/ CloseLedger

ToolStep ==
    \/ \E r \in Ranges : Launch(r)
    \/ \E upto \in 0 .. Len(log), more \in BOOLEAN :
          FetchPage(upto, more) \/ PanicOnPage(upto, more)
    \/ RequestFails

Next == VaultStep \/ ToolStep

Spec == Init /\ [][Next]_vars

(* As long as the tool asks, it is answered in the end: with an event, with *)
(* a cursor further on, or without a cursor.                                *)
FairSpec ==
    /\ Spec
    /\ WF_vars(\E upto \in 0 .. Len(log), more \in BOOLEAN :
                  FetchPage(upto, more) \/ PanicOnPage(upto, more))

-----------------------------------------------------------------------------
(* Properties.                                                              *)

(* Every variable keeps its type, and the cursor stays within the log.      *)
TypeOK ==
    /\ log \in Seq(Event) /\ Len(log) =< MaxEvents
    /\ ledger \in 0 .. MaxLedger
    /\ phase \in {"idle", "tipped", "claimed", "clean", "drift", "error", "panic"}
    /\ range \in [first : Nat, last : Nat]
    /\ launched \in 0 .. ledger
    /\ cursor \in 0 .. Len(log)
    /\ tipped \in [Position -> Nat] /\ claimed \in [Position -> Nat]

Snapshot(fetched, topic, upto) ==
    \A i \in Position :
        fetched[i] = IF i =< upto /\ i \in Matching(topic) \cap Decodable THEN 1 ELSE 0

(* Although the log grows between pages and between the two fetches, each   *)
(* list is what the node would have answered at one moment in one piece:    *)
(* no event is fetched twice, and none that can be decoded is missing       *)
(* before the last that was fetched.                                        *)
ListsAreSnapshots ==
    /\ \E p \in 0 .. Len(log) : Snapshot(tipped, "tipped", p)
    /\ \E p \in 0 .. Len(log) : Snapshot(claimed, "claimed", p)

Reported == phase \in {"clean", "drift"}

(* The balances and totals that all events of the range give.               *)
InRange(i) == range.first =< log[i].ledger /\ log[i].ledger =< range.last

All == [i \in Position |-> IF i \in DOMAIN log /\ InRange(i) THEN 1 ELSE 0]

(* If the range was past when the tool was launched and every event in it   *)
(* can be decoded, the report prints the sums of exactly the range: every   *)
(* gist total and pending balance of the vault, when the range starts with  *)
(* the vault's first event.                                                 *)
ReportExact ==
    Reported /\ range.last < launched
      /\ (\A i \in DOMAIN log : InRange(i) => i \in Decodable) =>
        /\ \A g \in GistId : GistTotal(tipped, g) = GistTotal(All, g)
        /\ \A a \in Author : PendingBalances(tipped, claimed)[a] = PendingBalance(All, All, a)

(* Whatever the vault does between the two fetches, the report credits no   *)
(* author with more than the events of the range do when it is printed, as  *)
(* long as no claim is dropped: tips are fetched before claims.  It may     *)
(* credit less, even a negative balance.                                    *)
NeverOverstates ==
    [][~ Reported /\ Reported'
         /\ (\A i \in Claims : InRange(i)' => i \in Decodable) =>
           \A a \in Author :
               (PendingBalances(tipped, claimed)[a] =< PendingBalance(All, All, a))']_vars

(* The exit code tells of the vault's tips that do not add up: there is one *)
(* in the range if it says drift, and none if it is clean and the range was *)
(* past at launch.  No growth of the log, no set of events missing from the *)
(* lists and no claim beyond the tips is reported as drift: the balances    *)
(* built event by event always meet the sums the check compares them with.  *)
ExitTellsBadTips ==
    LET bad == {i \in Matching("tipped") \cap Decodable :
                   log[i].amount # log[i].fee + log[i].net}
    IN  /\ phase = "drift" => bad # {}
        /\ phase = "clean" /\ range.last < launched => bad = {}

(* The tool ends, when the node's answers get somewhere.                    *)
Terminates == phase \in {"tipped", "claimed"} ~> phase \notin {"tipped", "claimed"}

(* The doc comment of from_rpc: data that cannot be decoded is not fatal.   *)
UndecodableNotFatal == phase # "panic"
=============================================================================
