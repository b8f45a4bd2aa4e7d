# TLA+ models of imap-to-jmap

TLA+ specifications of the IMAP front-end in `src/`, checked with TLC.
The repository snapshot contains the command handlers for SEARCH/SORT,
LIST/LSUB and ENABLE, the argument parsers, the protocol types with their
serialisers, the writer task and integration tests (`src/src/...`). The
session driver, receiver, mailbox view (`core/client.rs`, `core/mailbox.rs`,
`core/receiver.rs`) are not in the snapshot; where a model needs them it
follows `spec.md` and the map marks those definitions `spec_modelled`.

## 1. Inventory

| Component | Source | State | Operations | Interacts with |
|---|---|---|---|---|
| Receiver | not in snapshot (`core/receiver.rs`) | partial request, literal counter | split bytes into `Request{tag, command, tokens}` | driver; parsers consume its tokens |
| Parsers | `parser/*.rs` | none (pure) | `parse_search`/`parse_filters` (stack of open OR/NOT/parentheses, depth cap), `parse_sort`, `parse_select` (CONDSTORE/QRESYNC), `parse_list` (RFC 5258 options), `parse_status`, `parse_create`, `parse_subscribe` | produce typed `Arguments` for the handlers |
| Protocol model | `protocol/*.rs` | none (pure) | `Sequence::contains/expand/is_saved_search`, `serialize_sequence`, `StatusResponse::serialize`, SELECT/STATUS/ACL/NAMESPACE serialisers, `Rights` <-> Store ACL mapping | used by every handler |
| Saved search slot | `commands/search.rs` (`SavedSearch`, `get_saved_search`, `unwrap`) | per selected mailbox: `None`, `InFlight{rx}`, `Results{items}`; one watch channel per SAVE search | install InFlight, publish Results + send, restore on error, resolve `$` | SEARCH driver path, detached search tasks, `$` consumers |
| SEARCH/SORT handler | `commands/search.rs` | detached task per command | `handle_search` (driver), `SessionData::search` (query with pagination, stale-view resync, MIN/MAX/COUNT/ALL/SAVE), `imap_filter_to_jmap` (filter-tree translation, MODSEQ, `$`) | Store (`query_email`, `changes_email`), mailbox view, writer |
| LIST handler | `commands/list.rs` | none beyond the account mailbox cache | `handle_list` (separator query inline, else spawn), `SessionData::list` (options, RECURSIVEMATCH check, All Mail / shared roots, attributes, SUBSCRIBED/SPECIAL-USE filters, RETURN STATUS), `matches_pattern` | account view (`synchronize_mailboxes`), STATUS, writer |
| ENABLE / session flags | `commands/enable.rs` | `version`, `is_condstore`, `is_qresync` | `handle_enable` (per capability, early return on an unknown one) | later commands read the flags |
| Session state machine | not in snapshot | NotAuthenticated / Authenticated / Selected | dispatch by state | every handler |
| Mailbox view | not in snapshot (`core/mailbox.rs`) | uids, jmap ids, uid_next, uid_validity, modseq | `synchronize_uids`, `jmap_to_imap`, `sequence_to_jmap` | SEARCH (resync when ids are missing), FETCH/STORE/IDLE |
| Writer | `core/writer.rs` | current transport (plain or TLS), mpsc queue (capacity 128) | `Bytes` (write), `Upgrade` (hand the plain half back), `Stream`/`StreamTls` (install) | driver and every detached task send into it |
| ACL / namespace / UTF-7 | `protocol/acl.rs`, `protocol/namespace.rs` | none | rights <-> ACL mapping, MYRIGHTS derivation, NAMESPACE serialisation | ACL handlers (not in snapshot) |

Concurrency. One driver per connection handles commands in order. SEARCH,
SORT and (non-separator) LIST spawn a detached tokio task and return at once,
so the driver reads the next command while earlier ones still run; the
tasks and the driver share the mailbox's saved-search slot (a mutex around a
three-state enum holding a `watch` receiver) and the writer's channel. A
SAVE search makes the driver itself await the previous saved search before
it installs its own. The writer task owns the socket; an `Upgrade` hands the
plain write half back for STARTTLS and the writer then takes the next event
as the new stream.

What is hard, per component, and the properties that make it correct:

* Saved search: `$` must denote the result of the last SAVE search the client
  sent before the command (RFC 5182), whatever order the tasks run in; a
  failing SAVE search must leave the slot as it was (spec 4.7); a waiter must
  never block forever; a restore must not undo a newer SAVE search.
* SEARCH pipeline: the Store filter must select exactly the messages the IMAP
  search key selects (OR binary, NOT unary, parenthesised lists AND);
  truncated input must be rejected; the nesting cap is 10.
* Sequence sets: `expand` agrees with `contains`; `serialize_sequence` emits
  a set that parses back to the same ids.
* LIST: `%` never crosses `/`, `*` matches anything, literals anchor; the
  SUBSCRIBED / RECURSIVEMATCH / SPECIAL-USE selection follows RFC 5258.
* Writer: bytes reach the socket in the order they were queued; an Upgrade
  must not take a `Bytes` event for the new stream.
* ENABLE: an unknown capability must not leave the flags half-applied
  without saying so.
* SELECT arguments: every RFC 7162 parameter list is accepted with the
  right arguments, across the peek()/next() orders of the QRESYNC branch.
* ACL: a right granted through SETACL shows in GETACL; a right revoked no
  longer does; MYRIGHTS prints each right once and ties them like LISTRIGHTS.

## 2. Modules

| Module | Models | Kind |
|---|---|---|
| `SavedSearch` | the `$` slot of a selected mailbox, `handle_search`'s SAVE path, the detached search tasks, `get_saved_search`, `SavedSearch::unwrap` (`commands/search.rs`) | concurrent state machine, liveness |
| `SearchFilter` | `parse_filters` (`parser/search.rs`) as a token-by-token stack machine; `imap_filter_to_jmap`'s filter translation and mailbox scoping (`commands/search.rs`) as recursive operators | parser state machine against a reference grammar |
| `ListPattern` | `matches_pattern` (`commands/list.rs`), one step per loop iteration | algorithm against a recursive RFC 3501 matcher |
| `ListCommand` | `handle_list` and `SessionData::list` (`commands/list.rs`), the option parsers of `parser/list.rs` | handler state machine against RFC 5258 |
| `SequenceSet` | `Sequence::contains`, `expand`, `is_saved_search`, `serialize_sequence`, `quoted_string` (`protocol/mod.rs`) | operators + serializer loops against RFC 3501 |
| `Writer` | `spawn_writer`, `Session::write_bytes`, `SessionData::write_bytes` (`core/writer.rs`); STARTTLS (in either authentication state), LOGIN, UNAUTHENTICATE and task spawning from spec 4.2/4.4/4.10/6 (`spec_modelled`) | concurrent state machine, refinement |
| `OrderedOutput` | what the writer promises: a FIFO from senders to the socket, closed on failure | abstract specification |
| `AclRights` | `Rights`, `from_acl`, `into_acl`, `to_char`, `as_imap_rights`, the GETACL/MYRIGHTS rights strings (`protocol/acl.rs`); the LISTRIGHTS groups of spec 4.9 as the reference | operators |
| `CommandArgs` | `parse_search`'s RETURN/CHARSET prelude, `parse_sort` with `parse_result_options` (`parser/sort.rs`, `parser/search.rs`), `parse_create`, `parse_list`, `parse_status` and `parse_subscribe` (`parser/*.rs`), token by token | parser state machines against the RFC grammars |
| `Session` | one connection's `handle_enable` (`commands/enable.rs`), `parse_select` (`parser/select.rs`) token by token, the SELECT response of `select::Response::serialize` (`protocol/select.rs`) with the handler around it and CLOSE/UNSELECT (spec 4.4/4.5, `spec_modelled`), and the SETACL/GETACL/MYRIGHTS handlers (spec 4.9, `spec_modelled`) over `AclRights` | handler state machine against RFC 7162 / RFC 4314 |

`MC*.tla` instantiate each module with small constants; `MC*.cfg` are the
TLC configurations. `PROJECT.json` maps every definition that models code to
its source lines.

### How the models correspond to the code

* **SavedSearch.** Variables: `slot` (the `SavedSearch` enum: `None`,
  `Results{val}`, `InFlight{chan}`), `chan` (one watch channel per SAVE
  search: value sent, sender alive), the driver's `dpc`, per-command `cmd`,
  `tpc`, `status`, `prev` (the value a SAVE search awaited) and `used` (what
  `$` resolved to). Result sets are identities: the SAVE search issued as
  command `i` produces value `i`. Actions follow the awaits of the code:
  `Receive` (the driver reads the next command), `GetSavedSearch` /
  `GetSavedSearchWake` (await the previous slot), `InstallInFlight`,
  `SavePublish` / `SaveFail` / `SaveRestore` (the detached task),
  `ResolveDollar` / `ResolveDollarWake` (`$` inside a non-SAVE task).
* **SearchFilter.** `ReadKey`, `Open`, `OpenTooDeep`, `Close`,
  `CloseUnmatched` and `Finish` are the branches of `parse_filters`'s loop on
  one token; `AfterToken`/`Unwind` are the stack unwinding after each
  filter. `ToJmap`/`TranslateList`/`StoreFilter` are the translation, and
  `ImapSat`/`JmapSat` give the IMAP and RFC 8620 meanings of the two trees
  over every valuation of the atoms. Search keys are abstracted to two atoms
  and `ALL`.
* **ListPattern.** Each action is one iteration of the `'outer` (pattern),
  `'inner` (pattern byte) or literal-run scan loop, with the iterators
  (`pp`, `np`), `match_bytes`, `match_count` and `pattern_eof` as variables.
* **ListCommand.** `HandleList` (parse error, separator query answered
  inline, or spawn), `Refresh`, `RejectRecursiveMatch`, `Build` (the whole
  option folding and item building, which runs under the account-list mutex
  without an await), `StatusLookup` (one STATUS await per item, success or
  skipped failure) and `WriteResponse`. A pattern list is abstracted to the
  set of names it matches; any set is matched by the list of its names, so
  this loses nothing that `ListPattern` does not check.
* **SequenceSet.** `Contains`, `Expand` and `IsSavedSearch` are operators
  over the `Sequence` enum; `serialize_sequence` is a state machine
  (`NextId`, `Extend`, `EmitRun`) whose output is the sequence of printed
  ranges (decimal formatting and separators abstracted). `quoted_string`
  is a second loop (`QuoteByte` per byte of `text`, `QuoteClose`) writing
  `qbuf`; bytes are abstracted to an ordinary character, `"`, `\`, space
  and CR. Each initial state is one call of one of the two serialisers.
  `ReadQuoted` is the RFC 3501 `quoted` grammar as a client reads it
  (RECURSIVE), the reference the output is checked against.
* **Writer.** `q` is the mpsc channel (capacity `QueueCap`), `ws` the
  writer's state (which `match stream` arm it is in, or `handover` after an
  Upgrade, `exited`, `panic` for `unreachable!()`), `wire` what reached the
  socket, `sent` the history of sends. `WriterStart`, `WriteBytes`,
  `WriteFail`, `Upgrade`, `NewStream` are the writer task; `DriverWrite`,
  `TaskWrite` and their failing variants are the two `write_bytes`;
  `StartTls*`, `Login`, `Unauthenticate`, `Spawn` are the driver's side;
  `pc` is the driver's STARTTLS progress and `authed` its authentication
  state, so STARTTLS can follow LOGIN as spec 4.4 allows. `Writer` implements
  `OrderedOutput` under `sent <- sent, wire <- wire, closed <- Dead`.
* **Session.** `version`, `isCondstore`, `isQresync` are the session's
  fields. `StartEnable`, `EnableCapability` (one loop iteration, the early
  return on an unsupported capability included), `EnableDone` and
  `EnableParseError` are `handle_enable`. `parse_select` is one action per
  branch (`SelectName`, `SelectParams`, `SelectParam`, `SelectQresyncOpen`,
  `SelectQresyncNumber`, `SelectQresyncKnown`, `SelectQresyncAfterKnown`,
  `SelectQresyncSeqMatch`, `SelectQresyncClose`). `look` is the token that
  `peek()` would see; it is drawn when the previous token is consumed, so the
  run explores every token list up to the bound. Tokens are abstracted to
  the parentheses, `CONDSTORE`, `QRESYNC`, a number (`n`, also a valid
  sequence set), a sequence set that is not a number (`s`) and any other
  argument (`x`). `acl` holds the Store's ACL values of each identifier.
  `want` is a ghost: the rights RFC 4314 says the identifier holds after the
  same SETACL requests, tied rights included. The reference grammar
  (`RfcSelectArgs`, built from the RFC 4466/7162 ABNF) and its prefixes are
  computed once. `Accept` is the SELECT handler after a successful parse
  (spec 4.4/4.5): the mailbox exists or not; on success `resp.lines` is
  `SerializeSelect`, the keyword of each line `Response::serialize` writes,
  with `closed_previous` from `selected`, `is_rev2` from `version`, an
  unseen message or none, and a HIGHESTMODSEQ when CONDSTORE or QRESYNC is
  enabled or requested; a failed SELECT leaves no mailbox selected
  (RFC 3501 section 6.3.1). `Unselect` is CLOSE/UNSELECT.
* **CommandArgs.** One parser runs at a time (`acmd`); a new command
  starts once the previous one returned, with its accumulators cleared. Each
  action is one branch of the parser's loop or one early return: SEARCH
  (`StartSearch`, which takes `is_esearch` from the version `rev2`,
  `SearchPrelude`, `SearchCharset`), the result options SEARCH and SORT
  share (`SortResultOpen`, `SortResultOption`), `ParseFilters`, SORT
  (`SortStart`, `SortOpen`, `SortCriterion`, `SortCharset`), CREATE (`CreateName`,
  `CreateParams`, `CreateUse`, `CreateAttr`), LIST (`ListFew` and
  `ListBasic` for the 0|1 and 2 token counts, then `ListReference`,
  `ListSelection`, `ListMailbox`, `ListPatterns`, `ListReturn`,
  `ListReturnOption`, `ListStatusItems`), STATUS (`StatusFew`,
  `StatusName`, `StatusItem`) and `SubscribeArgs`. As in `Session`, the
  lookahead `alook` is drawn when the token before it is consumed; LIST and
  STATUS branch on `tokens.len()` first, so on their token-by-token path the
  end is not drawn before 3 (LIST) or 4 (STATUS) tokens. `comps`/`asc`,
  `ropts`/`esearch`, `sel`/`pats`/`rets`/`items` are the vectors and flags
  the parsers build; mailbox names are not decoded and a pattern list is
  its length. Each token set holds the keywords a parser distinguishes and
  one representative of every other argument. `Token::unwrap_string` (the
  receiver is not in the snapshot) is taken to refuse only parentheses. The
  references (`RfcSearch`, `RfcSort`, `RfcList`, `RfcStatus`) are built from the RFC
  ABNF with the meaning of each sentence, and computed once.

## 3. Runs

| Run | Expect | What it shows |
|---|---|---|
| `savedsearch` | pass | three SEARCH commands (each SAVE, `$` or both) overlapping in every order, each SAVE search succeeding or failing: a SAVE search awaiting `$` sees the previous SAVE result when none failed (`SaveOperandIsLastSave`), the slot settles on the last SAVE result (`QuiescentSlotIsLastSave`), and every command is answered (`EveryCommandAnswered`, liveness) |
| `savedsearch_waiter_empty` | violation | a `$` waiting on a SAVE search that fails reads the watch channel's initial empty vector instead of the restored value |
| `savedsearch_restore_clobbers` | violation | a failed SAVE search's restore overwrites the InFlight slot of a later SAVE search |
| `searchfilter` | pass | every criteria sequence of up to 6 tokens: the parser accepts exactly the well-formed ones and builds the grammar's tree (`ParseMatchesGrammar`); scoped to a mailbox, with unary NOTs, the Store filter selects exactly what the IMAP criteria select (`StoreFilterMatchesOrdinarySearch`) |
| `listpattern` | pass | names up to 4 bytes, patterns up to 4 bytes (pairs up to 2): the scan never indexes past its run (`MatchIndexInBounds`), without `%` no false match (`NoFalseMatchWithoutPercent`), prefix patterns such as `INBOX/%` match exactly per RFC 3501 (`PrefixPatternsMatch`) |
| `writer` | pass | driver, two detached tasks, STARTTLS in either authentication state, LOGIN, UNAUTHENTICATE and write failures over a 2-slot channel: the writer implements `OrderedOutput` (`OrderedSpec`: order, transport, and eventual delivery; a writer that dies, by a write failure or `unreachable!()`, counts as a closed connection) |
| `writer_upgrade_panic` | violation | LOGIN, a SEARCH task spawned, STARTTLS: the task's response arrives between `Upgrade` and `StreamTls`, the writer takes it as the new stream and reaches `unreachable!()` (`WriterNeverPanics`) |
| `sequenceset` | pass | every id list of up to 3 ids over 1..3 is printed exactly, in order, with maximal ranges (`SerializeIsExact`); `contains` and `expand` agree with RFC 3501 on every set of up to two items, `*` and reversed ranges included (`SequenceSemantics`); every text of up to 3 bytes without CR, written by `quoted_string`, reads back as itself with the rest of the line intact (`QuotedStringRoundTrip`) |
| `listcommand` | pass | all selection/return option combinations, both versions, every subscription state, five match sets: LIST returns exactly the RFC 5258 selection with CHILDINFO, `\Subscribed`, `\HasChildren` where due (`ListSelectionPerRfc5258`) |
| `session` | pass | ENABLE lists of up to two capabilities, SELECTs of up to 13 tokens, and SETACL/GETACL/MYRIGHTS in any order. `parse_select` accepts every RFC parameter list with its CONDSTORE flag and QRESYNC parts, and rejects only at a token no RFC list continues with (`SelectParseComplete`). Every right granted shows in GETACL (`GetAclShowsEveryGrant`). After "ENABLE successful." every capability listed is in effect, and the version is that of the last IMAP4revN listed (`EnableSuccessfulAppliedAll`). A successful SELECT answers with the spec 4.5 lines in order, each once, `OK [CLOSED]` first exactly when a mailbox was selected after any sequence of SELECTs, failed SELECTs and UNSELECTs, RECENT for IMAP4rev1 and the LIST item for IMAP4rev2 (`SelectResponseFollowsSession`, an action property). |
| `commandargs` | pass | every SEARCH, SORT, CREATE, LIST, STATUS and SUBSCRIBE token list of up to 9 tokens. `parse_search` accepts every RFC 3501/4731 SEARCH with its result options, and answers with ESEARCH exactly when RETURN is given or the session is IMAP4rev2 (`SearchParseComplete`); `parse_sort` accepts every RFC 5256/5267 SORT with the comparators it means, a REVERSE applying only to its key (`SortParseComplete`); `parse_list` accepts every RFC 5258/5819 LIST with its selection options, pattern count and return options, STATUS items included (`ListParseComplete`); `parse_status` accepts every RFC 3501 STATUS, the four-token one included (`StatusParseComplete`). Each rejects only at a token or end no RFC command has there. |
| `session_acl_revoke` | violation | `SETACL -k` on an identifier the Store granted `Modify` leaves `k` in GETACL |

Every property of a passing run has a mutant in `PROJECT.json`: a
plausible bug in a mapped definition (a dropped guard, a missing reset, an
off-by-one, a swapped order) that TLC shows the property catches.

### Properties stated but without a run of their own

These are defined in the modules; TLC finds each violated when it is put in
a configuration of the module's MC instance. They are listed as hazards.

* `SavedSearch!DollarSeesIssueOrder`: a non-SAVE `$` search runs in its own
  task and may resolve `$` after a later SAVE search replaced the slot.
* `SearchFilter!NestingWithinCap` (with the cap scaled to 2, `NOT NOT NOT A`
  is accepted at depth 3: `filters_stack.len() > 10` is compared before the
  push, so one level past the cap gets through), `StoreFilterKeepsAll`
  (`NOT ALL` becomes an empty NOT), `StoreFilterUnscoped` (without a
  mailbox, `NOT A` loses its operator and becomes `A`).
* `ListPattern!PercentStaysInLevel` (`MCListPattern_PercentStaysInLevel.cfg`):
  `list.rs:351`, `%` followed by a literal run skips name bytes without
  checking for `/`; TLC's trace is `%a` matching `/a`, and `%/` matches
  `//` the same way.
* `ListPattern!AdjacentWildcardsChecked` (`**/` matches the empty name),
  `NoMissedMatch` (`*/%` misses `//`: no backtracking).
* `SearchFilter!AcceptsOnlyGrammar` (`MCSearchFilter_AcceptsOnlyGrammar.cfg`):
  `parse_filters` returns the current frame when the tokens run out, so
  `OR SEEN` is searched as `SEEN` and `( SEEN` is accepted. This is against
  spec 4.7: no parser silently accepts truncated input.
* `ListCommand!RecursiveMatchWithSpecialUse`: with SUBSCRIBED SPECIAL-USE
  RECURSIVEMATCH, a role-less parent of a subscribed Sent mailbox is
  dropped.
* `ListCommand!SpecialUseListsOnlySpecialUse` (`MCListCommand_SpecialUse.cfg`):
  the SPECIAL-USE selection option does not suppress the shared-folders
  root and prefixes (`list.rs:204`). RFC 6154 section 3 and spec 4.6 say
  only special-use mailboxes are returned.
* `SearchFilter!StoreFilterNotOfList` (`MCSearchFilter_StoreFilterNotOfList.cfg`):
  `NOT (k1 k2)` is translated to a Store NOT over both keys, which RFC 8620
  defines as "none match", not IMAP's "not both" (`search.rs:569`).
* `CommandArgs!SortParseSound` (`CommandArgs_SortSound.cfg`): any token is
  taken as the charset, a parenthesis included (`SORT (DATE) ( k`), and a
  REVERSE with no key after it is dropped (`(DATE REVERSE)`).
* `CommandArgs!CreateHonoursEveryUse` (`CommandArgs_CreateUse.cfg`):
  `parse_create` reads only the first attribute of `(USE (...))`, so
  `(USE (\Sent \Trash))` and `(USE (\Sent \All))` create a `\Sent` mailbox.
  RFC 6154 section 3 says a server that cannot honour every attribute must
  refuse, and the specification's description of `parse_create` says
  `\All` is rejected.
* `CommandArgs!ListNamesAPattern` (`CommandArgs_ListPattern.cfg`): an empty
  pattern list `()` is accepted, and `matches_pattern` returns true for
  every name when there is no pattern, so the LIST lists every mailbox.
* `Session!SelectParseSound`: `parse_select` accepts `()`, a list the
  command ends inside, and tokens after `)`. TLC's trace is
  `SELECT mailbox () (`, which is against the same spec rule as
  `AcceptsOnlyGrammar`.
* `Session!EnableAppliesEverySupported`: `ENABLE IDLE CONDSTORE` stops at
  IDLE with an OK, and CONDSTORE stays off (RFC 5161 section 3.1).
* `Session!MyRightsNoDuplicates`: `mayRename` and `mayDelete` both push
  DeleteMailbox, so MYRIGHTS prints `xx`.
* `Session!MyRightsRespectsTies`: MYRIGHTS prints `rls` for `mayReadItems`
  and `maySetSeen`, splitting the `ws` group LISTRIGHTS advertises.
* `SequenceSet!QuotedStringFramesEveryText` (`MCSequenceSet_QuotedCR.cfg`):
  `quoted_string` writes a CR of a mailbox name or identifier raw between
  the quotes; RFC 3501 allows no CR in a quoted string, and the client reads
  the end of the response line there. Names with CR need a literal.

## 4. Bounds

* `SavedSearch`: 3 commands. Two SAVE searches overlap with a `$`, which
  is the smallest case for every race the hazards list (waiter of a failed
  search, restore after a newer install).
* `SearchFilter`: 6 tokens, nesting cap scaled from 10 to 2. Six tokens
  hold `OR ( A B ) A`, `NOT ( A B )` and three nested operators; the cap
  only changes which depth the same check compares with.
* `ListPattern`: alphabet `a`, `b`, `/`; names 4, patterns 4. A wildcard
  followed by a two-byte run, a run occurring twice in a name and `%`
  meeting `/` all fit.
* `ListCommand`: own account `a`, `a/b` (Sent), `c` (Inbox role), one
  shared account with one mailbox; five match sets (`*`, `a*`, `a/%`, `%`,
  the shared branch). A parent/child pair, a role the LIST attributes do not
  include, and the synthetic folders are all present.
* `SequenceSet`: ids 1..3, lists of up to 3 ids, sets of up to two items,
  `*` standing for 0..3 (0: empty mailbox). Quoted texts of up to 3 bytes
  over five byte classes: both specials in a row, a special at either end
  and a CR between others all occur.
* `Writer`: 5 responses, 2 tasks, channel capacity 2 (the code has 128).
  A full channel, a task send racing the driver, STARTTLS with a pending
  response (after LOGIN, and after UNAUTHENTICATE), and a failure mid-queue
  all occur.
* `Session`: SELECTs of 13 tokens. That is the longest single QRESYNC
  parameter, `mailbox ( QRESYNC ( n n s ( s s ) ) )`, and everything shorter,
  so every branch of the parser, every early return, and the RFC lists that
  combine CONDSTORE with a shorter QRESYNC are reached. ENABLE lists hold two
  capabilities, enough to put a supported capability after an unsupported
  one and IMAP4rev1 after IMAP4rev2. There is one ACL identifier, because
  identifiers do not interact. Its Store ACL is empty or holds `Modify`.
  SETACL is given Seen, Write or CreateMailbox (a tied pair split, and the
  right `Modify` also reads as). MYRIGHTS is given three flag sets: both
  DeleteMailbox flags, Seen without Write, and all flags. SELECT responses
  are reached after two SELECTs in a row, after a failed SELECT and after
  UNSELECT, in both versions, with CONDSTORE enabled or requested.

* `CommandArgs`: 9 tokens per command. That holds the longest LIST form
  the checks need, `r m RETURN ( STATUS ( MESSAGES ) )`, SORTs with RETURN
  options, two criteria and two search keys, SEARCHes with RETURN and
  CHARSET in either order or repeated, and a CREATE with two use
  attributes. STATUS and SUBSCRIBE exercise their count boundaries (3/4 and
  1/2 tokens) well inside the bound.

## 5. Fairness

* `SavedSearch`: weak fairness on the driver's steps and on each task's
  publish/fail, restore and `$` resolution: tokio runs every ready task,
  and the Store answers every query (with a result or an error). Receiving
  a new command is not fair: the client may stop.
* `Writer`: weak fairness on the writer task (it runs whenever its channel
  holds an event), on STARTTLS's steps after the OK, and on each spawned
  task's send. Client commands, LOGIN, spawning and I/O failures are not
  forced. `OrderedOutput` asks only weak fairness of delivery.
* The other modules check safety of terminating computations
  (`CHECK_DEADLOCK FALSE` because the function or handler returns), except
  `CommandArgs` and `Session`, where another command can always arrive.

## 6. Findings

1. `search.rs:627`: when a SAVE search fails, a `$` waiting on it reads the
   watch channel's initial empty vector (its sender is dropped without a
   send), not the restored previous result (`savedsearch_waiter_empty`).
2. `search.rs:106`: the restore after a failed SAVE search is unconditional
   and overwrites a newer SAVE search's InFlight slot
   (`savedsearch_restore_clobbers`).
3. `writer.rs:71`: after `Upgrade` the writer takes the very next event as
   the new stream. Spec 4.4 allows STARTTLS in the Authenticated state,
   where a SEARCH/LIST task spawned earlier can send its response between
   the `Upgrade` and the `StreamTls`; the writer then reaches
   `unreachable!()` and the connection's output dies, against spec 6
   ("preserves response ordering across the upgrade")
   (`writer_upgrade_panic`). Whether `core/client.rs` refuses STARTTLS
   after login cannot be seen: it is not in the snapshot.
4. `acl.rs:185`: `from_acl` reads the Store's `Modify` as CreateMailbox
   (`k`), and `into_acl` maps `k` to `CreateChild` only. `SETACL id -k` on an
   identifier holding `Modify` leaves `Modify` in place, and GETACL still
   prints `k`: the right is not revoked (RFC 4314 section 3.1)
   (`session_acl_revoke`).

The properties of the previous section are further disagreements of the
same kind. Each has a configuration that shows it.

## 7. Not modelled

* The receiver, the session driver's dispatch, mailbox view and STATUS
  (`core/client.rs`, `core/receiver.rs`, `core/mailbox.rs`, STATUS handler)
  are not in the snapshot; only the STARTTLS/LOGIN/UNAUTHENTICATE/spawn steps
  the writer needs are taken from the spec (STARTTLS on a cleartext
  connection only, since the raw socket is what it wraps).
* `SessionData::search`'s query pagination, MIN/MAX/COUNT and the stale-view
  resync: they depend on the Store and the mailbox view (not in the
  snapshot).
* What ENABLE's flags change in later commands other than SELECT's
  response: the handlers that read them (FETCH, STORE) are not in the
  snapshot. The SELECT handler is not either; `Session` takes it from
  spec 4.4/4.5 around the `Response::serialize` of the code, without the
  QRESYNC VANISHED/FETCH resynchronisation, which needs the Store.
* The SETACL, GETACL, LISTRIGHTS and MYRIGHTS handlers are not in the
  snapshot. Session takes them from spec 4.9, applying the operators of
  `acl.rs`.
* The serialisers `status.rs`, `namespace.rs`, `StatusResponse`,
  `ResponseCode` and `Command`'s Display are sequential byte formatting
  with no state and no choice that session state decides. No property here
  depends on them, and the unit tests beside them cover them. Their
  mailbox names go through `quoted_string`, which `SequenceSet` checks.
