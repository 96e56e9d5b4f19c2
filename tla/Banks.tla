------------------------------- MODULE Banks -------------------------------
(***************************************************************************)
(* The list of banks a payout may go to, and the bank that a submitted name*)
(* or code stands for: src/banks/banks.service.ts, with the provider's list*)
(* behind it and src/payouts/bank-codes.ts for aliases and a cold start.   *)
(*                                                                         *)
(* A name is a class of names that normalizeBankName makes equal, so what  *)
(* is modelled of strings is equality and which is a prefix of which.      *)
(***************************************************************************)
EXTENDS Integers

CONSTANTS
  BankNames,  \* normalised names
  Codes,      \* bank codes
  IsPrefix,   \* pairs of names, the first a proper prefix of the second
  Fallback,   \* FALLBACK_BANKS
  Answers,    \* the lists the provider may return, rows as it sends them
  Inputs,     \* what callers submit
  Callers,    \* concurrent requests
  MaxLists    \* bound on the lists obtained

ASSUME BankAssumption ==
  /\ IsPrefix \subseteq BankNames \X BankNames
  /\ Fallback \subseteq [name : BankNames, code : Codes]
  /\ "none" \notin BankNames \cup Codes
  /\ MaxLists \in Nat

BankRows == [name : BankNames, code : Codes]
Flags == {"true", "false", "absent"}
ProviderRows == [name : BankNames, code : Codes, active : Flags, supports_transfer : Flags]

\* A name, the code bank-codes.ts has for it as it was written, or a code.
InputRows ==
  [name : BankNames \cup {"none"}, alias : Codes \cup {"none"}, code : Codes \cup {"none"}]

ASSUME InputAssumption ==
  Inputs # {} /\ Inputs \subseteq InputRows /\ Answers \subseteq SUBSET ProviderRows

VARIABLES
  cache,     \* this.cache: the banks, and whether they are younger than CACHE_TTL_MS
  inFlight,  \* this.inFlight is set
  upstream,  \* requests to the provider that are not answered
  lists,     \* history: how many usable lists this process has obtained
  caller     \* the requests

listVars == <<cache, inFlight, upstream, lists, caller>>

NoCache == [banks |-> {}, fresh |-> FALSE, version |-> 0]
HasCache == cache.version > 0

\* known and failed are history: the newest list when it began, and whether a refresh
\* failed meanwhile.  version is that of the list it was served, 0 for the fallback.
CallerStates ==
  [pc : {"idle", "waiting", "served"}, input : Inputs, known : 0 .. MaxLists,
   failed : BOOLEAN, fresh : BOOLEAN, version : 0 .. MaxLists, banks : SUBSET BankRows]

Idle ==
  [pc |-> "idle", input |-> CHOOSE i \in Inputs : TRUE, known |-> 0, failed |-> FALSE,
   fresh |-> FALSE, version |-> 0, banks |-> {}]

ListInit ==
  /\ cache = NoCache
  /\ inFlight = FALSE
  /\ upstream = 0
  /\ lists = 0
  /\ caller = [c \in Callers |-> Idle]

-----------------------------------------------------------------------------
(* The provider's list *)

\* listBanks: an absent flag is read as capable.
Capable(flag) == flag # "false"

\* The banks of a list that a transfer can go to.
UsableBanks(answer) ==
  {[name |-> r.name, code |-> r.code] : r \in
     {r \in answer : Capable(r.active) /\ Capable(r.supports_transfer)}}

-----------------------------------------------------------------------------
(* resolve *)

Exact(banks, input) == {b \in banks : b.name = input.name}
Aliased(banks, input) == {b \in banks : b.code = input.alias}

\* n.startsWith(wanted) || wanted.startsWith(n)
Partial(banks, input) ==
  {b \in banks : b.name = input.name \/ <<b.name, input.name>> \in IsPrefix
                                     \/ <<input.name, b.name>> \in IsPrefix}

\* Mutant: the first of several candidates is taken.
AnyOf(banks) == banks

\* A single candidate, or none.
OnlyOf(banks) == {b \in banks : banks = {b}}

\* The banks resolve may return for an input; the empty set where it refuses.
Resolve(banks, input) ==
  CASE input.code # "none" -> {b \in banks : b.code = input.code}
    [] input.code = "none" /\ input.name = "none" -> {}
    [] OTHER ->
         IF OnlyOf(Exact(banks, input)) # {} THEN OnlyOf(Exact(banks, input))
         ELSE IF Aliased(banks, input) # {} THEN Aliased(banks, input)
         ELSE OnlyOf(Partial(banks, input))

-----------------------------------------------------------------------------
(* list *)

Served(c, banks, version, fresh) ==
  [caller[c] EXCEPT !.pc = "served", !.banks = banks, !.version = version, !.fresh = fresh]

\* A fresh list is served at once.
ListCached(c, i) ==
  /\ caller[c].pc = "idle"
  /\ HasCache /\ cache.fresh
  /\ caller' = [caller EXCEPT ![c] =
       [pc |-> "served", input |-> i, known |-> lists, failed |-> FALSE, fresh |-> TRUE,
        version |-> cache.version, banks |-> cache.banks]]
  /\ UNCHANGED <<cache, inFlight, upstream, lists>>

\* Mutant: every miss asks the provider.
AskAlways == /\ inFlight' = TRUE /\ upstream' = upstream + 1

\* A miss joins the request that is under way, or makes one.
JoinOrAsk ==
  /\ inFlight' = TRUE
  /\ upstream' = IF inFlight THEN upstream ELSE upstream + 1

ListMissed(c, i) ==
  /\ caller[c].pc = "idle"
  /\ ~(HasCache /\ cache.fresh)
  /\ caller' = [caller EXCEPT ![c] =
       [pc |-> "waiting", input |-> i, known |-> lists, failed |-> FALSE, fresh |-> FALSE,
        version |-> 0, banks |-> {}]]
  /\ JoinOrAsk
  /\ UNCHANGED <<cache, lists>>

\* All who wait for the request are served when it settles.
ServeWaiting(banks, version, fresh, failed) ==
  caller' = [c \in Callers |->
    IF caller[c].pc = "waiting"
    THEN [Served(c, banks, version, fresh) EXCEPT !.failed = failed] ELSE caller[c]]

\* fetch gets a list with at least one usable bank.
Refresh(answer) ==
  /\ upstream > 0
  /\ lists < MaxLists
  /\ UsableBanks(answer) # {}
  /\ lists' = lists + 1
  /\ cache' = [banks |-> UsableBanks(answer), fresh |-> TRUE, version |-> lists + 1]
  /\ ServeWaiting(UsableBanks(answer), lists + 1, TRUE, FALSE)
  /\ upstream' = upstream - 1
  /\ inFlight' = FALSE

\* Mutant: the static map is served whenever the provider fails.
FallBackAlways == [banks |-> Fallback, version |-> 0]

\* What a failed refresh leaves: the cached list, or the static map.
Stale == IF HasCache THEN [banks |-> cache.banks, version |-> cache.version]
         ELSE [banks |-> Fallback, version |-> 0]

\* The provider fails, or its list has no usable bank; the fallback is not cached.
RefreshFails ==
  /\ upstream > 0
  /\ ServeWaiting(Stale.banks, Stale.version, FALSE, TRUE)
  /\ upstream' = upstream - 1
  /\ inFlight' = FALSE
  /\ UNCHANGED <<cache, lists>>

\* The caller takes its bank, or its refusal.
Leave(c) ==
  /\ caller[c].pc = "served"
  /\ caller' = [caller EXCEPT ![c] = Idle]
  /\ UNCHANGED <<cache, inFlight, upstream, lists>>

\* CACHE_TTL_MS have passed.
Lapse ==
  /\ HasCache /\ cache.fresh
  /\ cache' = [cache EXCEPT !.fresh = FALSE]
  /\ UNCHANGED <<inFlight, upstream, lists, caller>>

\* The cache is lost with the process.
Restart ==
  /\ cache' = NoCache
  /\ inFlight' = FALSE
  /\ upstream' = 0
  /\ lists' = 0
  /\ caller' = [c \in Callers |-> Idle]

ListNext ==
  \/ \E c \in Callers : \/ \E i \in Inputs : ListCached(c, i) \/ ListMissed(c, i)
                        \/ Leave(c)
  \/ \E answer \in Answers : Refresh(answer)
  \/ RefreshFails \/ Lapse \/ Restart

ListSpec == ListInit /\ [][ListNext]_listVars

-----------------------------------------------------------------------------
(* Properties *)

\* Every variable has its type; "concurrent misses" make one request to the provider.
ListTypeOK ==
  /\ cache \in [banks : SUBSET BankRows, fresh : BOOLEAN, version : 0 .. MaxLists]
  /\ inFlight \in BOOLEAN
  /\ upstream \in 0 .. 1
  /\ lists \in 0 .. MaxLists
  /\ caller \in [Callers -> CallerStates]

\* "Serve a stale list rather than failing", and the static map only on a cold start: what a
\* caller is served is never older than what the process knew when it asked, and neither a
\* lapsed list nor the map is served unless a refresh failed while it waited.
ServedIsTheLatest ==
  \A c \in Callers : caller[c].pc = "served" =>
    /\ caller[c].version >= caller[c].known
    /\ ~caller[c].fresh => caller[c].failed

\* A bank that an input fits as well as it fits bank b.
FitsAsWell(d, b, input) ==
  IF b.name = input.name THEN d.name = input.name
  ELSE \/ d.name = input.name
       \/ <<d.name, input.name>> \in IsPrefix \/ <<input.name, d.name>> \in IsPrefix

\* "It asks rather than picking one": the bank of a name has that name's alias code, or is
\* the only bank of the list that the name fits so well; the bank of a code has that code.
NeverAGuess ==
  \A c \in Callers : caller[c].pc = "served" =>
    LET input == caller[c].input IN
      \A b \in Resolve(caller[c].banks, input) :
        \/ b.code = input.code
        \/ input.code = "none" /\ b.code = input.alias
        \/ input.code = "none"
           /\ \A d \in caller[c].banks \ {b} : ~FitsAsWell(d, b, input)
=============================================================================
