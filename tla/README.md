# A verification development for sbrwxmpp

sbrwxmpp is a small XMPP server for a game's chat: clients connect, start TLS,
log in, become available, join rooms and send messages; an HTTP API lists
sessions and rooms, sends messages, kicks users and edits the user store. This
directory holds TLA+ modules that model it, the TLC configurations that check
them on small instances, and theorems TLAPS proves about them.

Paths below are relative to the repository.

## Inventory

| part | state | operations | who calls it |
|---|---|---|---|
| Connection handler, `xmpp/client.go` | `tcpConn`, `tlsConn`, `authenticated`, `JID`, `stream`, `streamEnd`, `streamClosed` | `HandleConnection`, `handleRootElement`, `handleXmlElement`, `handleIq`, `handlePresence`, `handleMessage`, `doTLS`, `write`, `CloseError`, `Close`, `closeConn` | one goroutine per connection; `write` and `CloseError` also by other handlers and the API |
| Registry, `xmpp/server.go` | `Clients`, `Rooms` (each with `Members`), one mutex | `Run`, `RouteMessage`, `AddClient`, `RemoveClient`, `XmppRoom.AddMember`, `RemoveMember`, `RouteMessage`, `jidMatches`, `BareJidMatch` | handlers and API workers |
| HTTP API, `api/` | none of its own | sessions, rooms, send to user or room, upsert and delete user, kick | HTTP callers, one goroutine each |
| TLS, `tls/` (a fork of Go's `crypto/tls`) | two half connections with their mutexes, handshake mutex and status, `activeCall`, `retryCount`, buffers, tickets | `Read`, `Write`, `Close`, `CloseWrite`, `Handshake`, key updates, renegotiation, the handshakes of 1.2 and 1.3 on both sides | handlers and whoever writes to them |
| XML, `xmlstream2/` | a decoder per stream | `NewStream`, `NextChild`, `Element` and its attributes and text, `AsString` | handlers, API |
| User store, `db/` | one bucket of users | `GetUser`, `UpsertUser`, `DeleteUser` | handlers, API |
| Webhook, `cmdhook/` | none | `ProcessMessage`: one HTTP request, whose answer may keep the message | handlers |
| Chat log, certificates, configuration, logging, `main.go` | none | start-up and output | - |

What is hard here: every handler writes to the sockets of other handlers'
peers while it holds the one mutex; kicks cross the mutex, an unbuffered channel
and a timeout; the TLS connection appears under a stream while other goroutines
write to it; `JID` and `tlsConn` are written without the mutex; and what makes a
session visible (`AddClient`) comes in a later stanza than what makes it unique
(the kicks of a login).

What makes each part correct:

* handlers and registry: the mutex is taken and given back in pairs; no list
  holds an entry twice, an entry of a session that has not logged in, or one of
  a handler that has returned; no slice changes under a loop; a kick is never
  lost; a login leaves no other registered session of the user untouched; the
  mutex is given back and dead sessions leave whatever the peers do.
* TLS connection: no application data before the handshake or after
  `close_notify`; close does not wait for writers; the locks are taken in an
  order that cannot block for ever; keys of the two ends stay in step.
* TLS handshakes: both ends finish with the same version, suite and keys or
  neither finishes; what can succeed does; who completes knows its peer as its
  configuration demands, resumed or not; every handshake ends.
* TLS configuration: what two ends settle on is the best they have in common;
  the session cache keeps the sessions used last, as far as nobody removed them, and
  hands each to its own server; tickets always find a key, and open until it is dropped.
* XML: the children of a stream's root come whole and in order, through the
  change of decoders at STARTTLS too.
* user store: a change of a user that is followed by a kick leaves no session of
  the old password, except those the kick could not see.
* start-up: whatever is killed when, a certificate belongs to the key beside it.

## Modules

| module | models |
|---|---|
| `ConnList` | the slices of connections: append once, remove by swapping |
| `XmppServer` | handlers, registry and API workers together |
| `Roster` | what the registry promises: who is online and who is in which room |
| `Accounts` | the user store, the requests that change it and kick, the logins that read it |
| `XmlStream` | what a handler reads from a peer that starts TLS: tokens, elements, two decoders |
| `XmlEncoder` | the tokens an element is passed on as |
| `StartUp` | `main` up to the point where it serves, by processes that are killed and restarted |
| `TlsConn` | one end of a TLS connection, its mutexes and the goroutines that call it |
| `TlsStream` | what the outgoing records of a connection promise |
| `Negotiation` | what two ends choose from what each offers, as pure functions |
| `NegotiationLaws` | which choices are right, for every pair of configurations |
| `Handshake` | a client and a server on one connection after the other, faults, cache and ticket keys |
| `TlsHandshake12`, `TlsHandshake13` | the messages of TLS 1.0 to 1.2, and of 1.3, on both sides |
| `Agreement` | what a handshake promises its two ends |
| `SessionCache` | the LRU cache of sessions and the clients that share it |
| `TicketKeys` | ticket keys of two configurations, their initialisation, copies and rotation |
| `Lists`, `Nil` | the first entry of a list that is in a set, those that are in it; the value that stands for nil |
| `MCXmppServer`, `MCTlsConn`, `MCTlsHandshake12`, `MCTlsHandshake13`, `MCParts`, `MCConfigs` | values of the constants for TLC; `MCParts` explores the parts that share no state one per behaviour |
| `XmppServerProofs`, `TlsConnProofs`, `TlsHandshake12Proofs`, `TlsHandshake13Proofs` | theorems; `HandshakeProofs` has the lemmas the last two share |
| `TlsConfigProofs` | theorems about `NegotiationLaws`, `SessionCache` and `TicketKeys` |
| `ServerPartsProofs` | theorems about `StartUp`, `Accounts` and `XmlStream` |
| `ListProofs` | lemmas about `Lists` and about what `Negotiation` chooses from lists, and induction |

`XmppServer` composes handlers, registry and API; `TlsHandshake12` and
`TlsHandshake13` compose the two ends, the client's cache and the server's ticket
keys, and call the functions of `Negotiation` where the code does. `TlsConn`
lies between them: of a handshake it keeps the first record, the record behind
which the keys change and the result; of `XmppServer`'s writes it explains why
`Close` does not block and why a write waits for a handshake. `Accounts` has
`XmppServer`'s login once more, one step per section of the mutex, with the
store it reads.

### XmppServer

A step is what one goroutine does between two points another can observe: taking
the mutex, one write to one peer, one read from a decoder, one unlocked load or
store. `pc[p]` is where goroutine `p` is. Handlers go

    new -> hello -> read ... ended -> (sendEnd) -> exit -> drop -> close -> done

and from `read` into a stanza and back: `store`, `login`, `scan`, the four kick
places and `welcome` for a login; `avail`; `join`, `joinCast`; `leave`,
`leaveCast`; `group`, `roomCast`, `direct`, `userCast` for a message; `tls`.
API workers use the login's loop to kick and the message's two sections to send.

* `lock` is the mutex. `Acquire` takes it when it is free. A section that writes
  to nobody (`AddClient`, a leave of an unknown room) is one step.
* `todo[p]` is the rest of the slice a loop ranges over (Go evaluates the range
  expression once), `idx[p]` the room it is at.
* `WriteTo(d)` is `XmppClient.write`: it may fail for any reason, and then closes
  the connection; it is not enabled while `d`'s TLS handshake is under way, which
  is where `tls.Conn.Write` waits.
* `buffered[c]` counts complete stanzas in the XML decoder. They are processed
  after the socket was closed, and lost when STARTTLS replaces the decoder. What
  they are is chosen when they are taken.
* `JidSeen(d)` is what a reader under the mutex may see while `d`'s handler
  stores its JID: the old one, the new one, or neither.
* Users and rooms have bare addresses; `Fold` says which `EqualFold` takes for
  the same. Joining, sending to a room and kicking at login fold case, leaving,
  direct messages and the API's kick do not.

Abstracted: the text of stanzas, ids, nicknames, the chat log, log output. An iq
with several children is the same as several buffered iqs. A plaintext write
that races with the assignment of `tlsConn` spoils the handshake, which may fail
at any time anyway. Whether a password matches is the environment's choice.

`Environment`, `Request`, `Lock` and `Run` group the actions by what they wait
for; fairness is stated on the groups.

### Roster

`online`, `inside` (room to sessions), `known` and `gone`, with five operations.
`XmppServer` implements it under the mapping stated next to `ImplementsRoster`:
a connection that `RemoveClient` is taking out, room by room, counts as gone
from the moment it has the mutex, so the roster's `Vanish` is atomic. Nothing is
hidden once the mutex is released: an entry left behind would reappear.

### TlsConn

Goroutines call `Read`, `Write`, `Close`, `CloseWrite` and `Handshake` on one
`tls.Conn` at once, as the handler and those who write to its peer do. `call[p]`
is the method, `pc[p]` the place in it:

    idle -> hsLock -> (hsIn -> hello -> finished -> settle) -> inLock, a data record, or idle
    reading:  inLock -> record / take / post -> ... -> idle    (ahead: the look for an alert)
    messages: post -> more, an alert, an update record, or renego -> hello -> finished -> settle -> post
    closing:  closing -> (a notify record) -> shut -> idle
    a record: seal -> put (-> append), then where its caller goes on
    flush:    flush -> send -> unbuffer, then where its caller goes on

* Every record is written in two steps: `Seal` takes `out` and encrypts (the key,
  the next sequence number), `Put` is `write`, with what the code does with its
  result. `write` goes to the socket (`ToSocket`), which takes as long as the peer
  likes, or, while `buffering` is set, to `sendBuf` (`LoadBuffer` reads it, `ToBuffer`
  stores it with one record more). `SealBare` is the one alert that is written without
  `out`.
* A client's hello goes out at once, as does a HelloRetryRequest; before any other
  record of a handshake `buffering` is set (`HandshakeBuffers`), and records collect
  until `flush`: behind the last one, at a server before TLS 1.3 in between too,
  and in `Handshake` after a failure, but not in `handleRenegotiation` (`GiveUp`).
* `flush` does not hold `out`. It is given `sendBuf` as it finds it (`FlushStarts`,
  kept in `flight`), the socket takes its records one after the other (`FlushSends`),
  and then `sendBuf` is set to nil and `buffering` to false (`FlushClears`,
  `FlushEnds`). A goroutine that was let through before a renegotiation may have
  `out` at the time and append a record anywhere in between. `overlap` is history:
  it has, which is a data race. Its outcomes are the interleavings of these loads and
  stores: the record leaves twice or never, or behind the ones that follow it. A slice
  that is read half stored is not among them.
* `hsLock`, `inLock` and `outLock` hold the owner of each mutex.
* `activeCall` is the atomic counter of `Write` and `Close`. A step of `Write` or
  `Close` on it is a successful compare-and-swap; a failed one changes nothing.
* `wire` is what a peer makes of the records, in the order the socket got them:
  the phase, whether the stream has ended, records of data, and the key and the
  number it expects next. A record that does not fit garbles the stream.
* Key 0 is no cipher, under which `encrypt` leaves the sequence number alone.
* A handshake is its first record, the record behind which its keys come into
  use, and its result: the peer takes part, or it fails between any two records,
  with or without an alert. `settle` is the wait for the peer's last message.
* The peer's records after a handshake are chosen from `Arrivals`: data, empty
  records, whole and halved handshake messages, alerts, what cannot be decrypted.
* `input` is the data decrypted and not yet returned, in two portions; `hand` the
  messages not yet handled.
* The look ahead in `Read` happens only when the type of the record shows: before
  TLS 1.3 an alert, in 1.3 only what a peer sends in the clear.

Payloads longer than a record are left out: `writeRecordLocked` loops with `out`
held, so the records of one call are one record here. `SetDeadline` and the
accessors are not modelled.

### TlsStream

`phase`, `ended` and `sent` with four operations: a handshake begins and ends,
data is sent, the stream ends. Data is sent between handshakes only and never
after the end, be it a closing alert, a fatal one, or a record cut off.
`TlsConn` implements it under the mapping next to `ImplementsStream`, which reads
`wire`.

### Accounts

`users` is the bucket: committed transactions, the only state that survives
`Restart`. A login is three steps, as in `handleIq`: `GetUser` reads the store,
`Compare` compares and stores the JID, `Conflict` is the section of the mutex
that closes other sessions. Between the first and the last the user may be
changed and kicked. `GetUser` of an unknown name is nil, and `bytes.Equal` takes
nil for an empty password. `kicked` and `underway` are history.

### XmlStream

A peer sends start and end tokens, text and what the decoder takes for an error,
in the clear and then inside TLS. `ReadAhead` fills the decoder's buffer with any
part of what has arrived; `open` is the recursion of `readFromDecoder`;
`EndElement` of `starttls` drops the buffer with the decoder, as `doTLS` does.
`ElementsIn` says which elements a sequence of tokens stands for, independently
of the steps: by the depth of its tokens, complete or not. `XmlEncoder` adds what
an element is written as when it is passed on; it has a module of its own because
`Tokens` follows the element as deep as it goes, which takes a recursive operator.

### StartUp

A step is one system call. A file is none, torn or whole; a process may be
killed after any step and started again, another may run in the same directory.
A directory the program made itself has mode 0600 and can be entered by root
only, which `Entered` says.

### Negotiation and NegotiationLaws

One operator for each function of `common.go`, `cipher_suites.go`, `auth.go` and
the helpers of the handshakes that choose something. A suite stands for its key
exchange, signature and hash; one suite of each kind is enough. A certificate is
a record of its key, its names and its issuer, a name a sequence of labels.

### Handshake, TlsHandshake12, TlsHandshake13

`cli` and `srv` are the two ends, `pc` the message each of them reads next. A
step reads one message and does all that the code does up to the next read:
checks, state, the flight it sends. A message that is not the expected one, or
comes under another key, makes the end fail, as `readHandshake` and the type
switches do.

* Secrets are symbolic: a master secret is the record of what goes into it, a
  Finished or a binder the record of what it covers. Two ends agree on a key
  exactly when they put the same things into it.
* A `Plan` is what a behaviour may use: configurations, number of connections,
  faults, ticket keys, the range of the clock.
* `DamageHello` changes a field of a hello on its way, `Lose` cuts the connection,
  `Rotate` calls `SetSessionTicketKeys`, `Reconnect` starts a new connection when
  both ends have ended: another configuration, and a later clock.
* Alerts and the end of the stream are one message, `Close`.
* `sessions` and `burnt` are history: what full handshakes established, and the
  tickets that were offered in vain.

### Agreement

Two outcomes and three steps: an end reaches an outcome, which is the one the
other end has unless one of the two has failed, and a new handshake begins when
both have ended. The mappings (`Promise` in both handshakes) make version, suite,
secret or traffic keys, protocol, resumption and channel binding the outcome.

### SessionCache

`m`, `q` and `entry` are the map, the list and the elements of `lruSessionCache`;
an element changes hands at capacity. Each client looks up, makes its handshake
and puts; others come in between. `Put` is one step with the three cases of the code;
at capacity and below it, nil for a key that is not there makes an entry, too
(`Evict`, `Insert`).

`recent` is history, and says what the comments promise: a session that is put or
found is the most recent one, the least recent of more than `Capacity` is given up,
and nil removes its key. `strayed` is history as well: nil was put for a key the cache
did not have. From then on entries of nil take places, and the cache keeps fewer
sessions than it promises, but still the most recent ones (`KeepsMostRecent`).

### TicketKeys

Two configurations, the one given to `Server` and the one `GetConfigForClient`
returns, which may be a `Clone`. `Once` is `sync.Once`; `Check`, `Fill` and
`Assign` are the reads and writes of `serverInit`, with `SetSessionTicketKeys`,
which takes the mutex that `serverInit` does not, anywhere between them.
`tickets` is history: those whose key nobody has dropped.

## Runs

| run | instance | checks |
|---|---|---|
| `kicks` | 2 connections, 1 API worker, one user in two spellings, 3 stanzas and 1 buffered each, 2 requests | `LockDiscipline`, `KickedIsClosed`, `ParkedWasKicked`, `ConflictResolved` |
| `rooms` | 2 connections with 5 stanzas each, one room in two spellings | `NoDuplicates`, `NoGhost`, `LoopsSeeTheList`, `ImplementsRoster` |
| `progress` | 2 connections, with fairness | `LockReleased`, `DeadLeaves` |
| `one_session` | 2 connections | `OneSessionPerUser`, violated |
| `tls_calls` | 2 goroutines with 2 calls each of any method, all modes, every kind of record but the oversized | `LockDiscipline`, `NoInversion`, `ActiveCallCounts`, `RecordsInOrder`, `ShutsDown`, `KeysInStep`, `ImplementsStream` |
| `tls_close` | 3 goroutines, one call each, with fairness | `CloseFreesCalls` |
| `tls_oversized` | 2 goroutines, oversized messages | `RecordsInOrder`, violated |
| `tls_ahead` | 2 goroutines read, data and warnings, with fairness | `DataIsReturned`, violated |
| `handshake12` | TLS 1.0 to 1.2, three plans, with fairness | `DamageIsFoundOut`, `LastFlight`, `CompatibleSucceeds`, `Authenticated`, `FailedNotOffered`, `Agrees`, `EverythingEnds` |
| `handshake13` | TLS 1.3, three plans, with fairness | `CompatibleSucceeds`, `Authenticated`, `TicketSecretsMatch`, `Agrees`, `EverythingEnds` |
| `parts` | six parts, one per behaviour | `NegotiatesBest`; `KeepsMostRecent`, `LosesNoOther`, `OfferedToItsServer`; `KeysReady`, `TicketsOpen`; `CertificateKept`; `KickFollowsChange`; `StanzasWhole`, `ReadsBack` |
| `ticket_keys_rotate` | 1 goroutine, `SetSessionTicketKeys` | `KeysStaySet`, violated |

Bounds of the server: `MaxStanzas` and `MaxRequests` bound what a peer sends and
an API worker serves, `MaxBuffered` the stanzas a decoder holds. A session needs
three stanzas to be registered and do one thing more, and a kick needs two
sessions; three stanzas allow a login after becoming available, which is how a
session kicks itself. With five stanzas a session can join, leave, join again
and send after its login. Lists of three or more, of which a removal takes the
middle, are covered by the theorems, which hold for any number of connections.

Bounds of the connection: `MaxCalls` bounds the calls of a goroutine, `MaxRecords`
what the peer sends after a handshake, and `MaxUseless` is the code's limit of 16
made small. An error that one call leaves to the next needs two calls; a reader,
a writer and somebody who closes need three goroutines, which `tls_close` has.
A `Close` or `CloseWrite` that meets the flush of a renegotiation needs one goroutine
for each and one record of the peer: `tls_calls` reaches the overlap in the
two modes that renegotiate, and nothing it checks may fail by it but what
`RecordsInOrder` and `ShutsDown` name. The theorems have no bounds.

Bounds of the handshakes: a plan bounds connections, faults, ticket keys and the
clock. The first plan has every pair of nine clients (eight in 1.3) and ten servers once:
with and without names, roots, certificates, common versions, curves, suites and
protocols. The second has three connections of one client with a certificate and two
servers' configurations, two faults among them and a rotation: a ticket, its loss, and
what comes after.
The third has three connections whose configurations change in between, so that a
session meets another policy, another certificate or another version than the
one it comes from, three keys in 1.2, and two ticks of the clock, after which
certificates, and in 1.3 sessions, have expired.

Bounds of `parts`: 2 clients, 3 keys, 2 elements and 3 sessions for the cache, so
that an element changes hands while a client holds its session; 2 goroutines and
4 keys for the ticket keys, so that both configurations can be rotated once; 2
processes and 3 pairs of files; 2 sessions, 1 worker and 1 user; 8 tokens, at
most 3 elements deep, enough for a stream in the clear, `starttls` and an element
in the second stream; 192 clients and 192 servers for the laws.

Deadlock is checked for the server and the connection: `Quiescent` is the only
way to stop, all handlers returned or parked with the mutex free; for the
connection, all calls returned. The handshakes, `parts` and `ticket_keys_rotate`
stop where their bounds end, so deadlock is not checked there: for the handshakes
`EverythingEnds` says more.

Fairness of `XmppServer` (`FairSpec`): weak on what a goroutine does without waiting for a peer
(the Go scheduler), weak on consuming what a decoder holds or noticing a closed
socket, strong on taking the mutex (a `sync.Mutex` hands itself to a goroutine
that has waited for a millisecond). Nothing is assumed of peers: a handshake may
never end, which is the exception `LockReleased` states.

Fairness of `TlsConn`: weak on what a goroutine does alone, strong on taking a
mutex. A socket closed at this end fails its reads and writes, and a record that
has arrived can be read. Whether the peer sends, reads or answers is open.

Fairness of the handshakes: each end is one goroutine that goes on when a message
is there or the connection is lost. This is weak fairness of the steps of an end;
its readiness is stated as `ClientReady` and `ServerReady` in the place of
`ENABLED`. A lost connection is noticed: the code has no timeout of its own, so a
peer that is silent for ever keeps a handshake waiting, which `XmppServer` takes
into account.

### What the runs show

* A login may leave two sessions of one user (`one_session`): the kicks and the
  registration are two sections of the mutex with the peer's next stanza in
  between. `ConflictResolved` is what does hold.
* A handler can park on `streamEnd` for good when its peer ends the stream just
  as `Close` gives up. It holds nothing, its socket is closed
  (`ParkedWasKicked`), but it stays in `Clients` and its rooms until the next
  kick. `DeadLeaves` names this exception.
* The mutex can be held without limit while a registered session is in its TLS
  handshake and somebody writes to it. `LockReleased` names this one.
* `CloseFreesCalls` holds because `Close` leaves out the closing alert when a
  `Write` is in flight. Without a `Write` it may wait for a reader's alert that
  the peer does not take; the server is saved from that by the write deadline of
  its last write, which still stands; `XmppServer` relies on it when its closes do
  not block.
* The alert for an oversized handshake message is written without `out`
  (`tls_oversized`): a writer's record may be sealed before it and reach the
  socket after it.
* `flush` sends and clears the buffer without `out` (`tls/conn.go:906-908`). The closing
  alert of a `CloseWrite` that passed its check before a client's renegotiation began
  may be appended in between and lost: `closeNotifySent` is set and the sequence number
  used, and the peer is never told, or finds that the next record does not fit. The
  runs show that this is the only way: otherwise every record fits the number and the
  key its reader expects (`RecordsInOrder`), and a closing alert that counts as sent
  ends the stream (`ShutsDown`). Both name the overlap, which needs a closing alert
  (`Close` or `CloseWrite`) and a renegotiation; a server never renegotiates.
* A renegotiation that fails does not flush (`tls/conn.go:1157`; `Handshake` does): its
  alert stays in the buffer, and so does whatever is written later. `ShutsDown`
  excepts a connection whose renegotiation failed.
* The look ahead skips a warning and waits for the next record (`tls_ahead`),
  while the data stays with `Read`.
* `serverInit` looks for ticket keys at its start and assigns its own at its end
  (`ticket_keys_rotate`): keys that `SetSessionTicketKeys` sets in between are
  lost. No ticket that was issued before stops opening by it (`TicketsOpen`).
* A client that throws a session away costs the cache that session (`LosesNoOther`), with
  two exceptions the property names. Another client may have put a newer session under
  the key meanwhile, and then that one goes: the deferred `Put` of
  `tls/handshake_client.go:162` does not look. Or the entry has gone, and `Put` makes
  one of nil, at capacity in the place of another server's session
  (`tls/common.go:1042-1054`).
* Ends whose configurations allow a full handshake complete (`CompatibleSucceeds`)
  with one exception: a ticket whose client certificate does not pass any more
  makes the server fail, although it could have gone on without the ticket.
* A kick that follows a change of a user misses a login that has read the store
  already, and a session that has logged in but is not available yet.
  `KickFollowsChange` names both.
* A certificate left torn by a crash is never written again: every later start
  fails until it is deleted (`CertificateKept` names it). A configuration file
  left torn may be read as one without an address or without a certificate's
  place. A directory the program makes has mode 0600, which only root can enter,
  so for anyone else the first start and all after it fail.

Places where the code departs from what its comments say, seen while modelling
and modelled as the code does it:

* SSL 3.0: `tls/common.go:560` takes TLS 1.0 as the minimum; `common.go:777`
  rules SSL 3.0 out for clients only.
* RSA-PSS is disabled before TLS 1.3 according to `tls/common.go:180`, but
  `tls/auth.go:168` counts it among the schemes of an RSA certificate there: a
  client may choose a certificate it then cannot sign with.
* `Put` of nil: `tls/common.go:1024` has it remove the entry; `:1042` stores an entry
  that holds nil when there is none to remove.
* A failing handshake is to throw away the ticket it offered, according to
  `tls/handshake_client.go:155`; it removes whatever lies under the key by then.
* `tls/conn.go:1350` has an alert that is left in the buffer flushed when a handshake
  fails; in a renegotiation it is not.
* A configuration that `GetConfigForClient` returns with a `SessionTicketKey` of
  its own gets the original's keys (`tls/common.go:698`), where `:478` says its
  own key material is used.
* For an original whose tickets are disabled, a returned configuration with
  tickets gets no keys at all (`tls/common.go:699`), and `encryptTicket`
  (`tls/ticket.go:159`) would index an empty slice. `KeysReady` names it.
* `retryCount` (`tls/conn.go:659`) starts again with every record that holds
  handshake messages, so key updates are never too many.

## Proofs

The theorems hold for all values of the constants that satisfy the assumptions
of the modules: any number of connections, workers, goroutines, clients,
processes, any bounds.

| module | theorem | statement |
|---|---|---|
| `XmppServerProofs` | `TypeCorrect` | `Spec => []TypeOK` |
| | `Exclusion` | `Spec => []LockDiscipline` |
| | `SlicesAreSets` | `Spec => []NoDuplicates` |
| | `NoneLeftBehind` | `Spec => []NoGhost` |
| | `KicksTakeEffect` | `Spec => []KickedIsClosed` |
| | `NobodyParksAlone` | `Spec => []ParkedWasKicked` |
| | `LoopsAreSafe` | `Spec => []LoopsSeeTheList` |
| | `RosterRefined` | `Spec => ImplementsRoster` |
| | `LoginsSettle` | `Spec => ConflictResolved` |
| `TlsConnProofs` | `TlsTypeCorrect` | `Spec => []TypeOK` |
| | `TlsExclusion` | `Spec => []LockDiscipline` |
| | `LockOrderIsSafe` | `Spec => []NoInversion` |
| | `ActiveCallIsExact` | `Spec => []ActiveCallCounts` |
| | `KeysStayInStep` | `Spec => []KeysInStep` |
| | `RecordsStayInOrder` | `Spec => []RecordsInOrder`, if `"huge" \notin Arrivals` |
| | `StreamRefined` | `Spec => ImplementsStream`, if `"huge" \notin Arrivals` |
| | `PeerIsTold` | `Spec => []ShutsDown`, if `"huge" \notin Arrivals` |
| `TlsConfigProofs` | `BestVersionHolds` | `BestVersion`, in every state |
| | `Best` | `LawsSpec => []NegotiatesBest` |
| | `CacheTypes` | `CacheSpec => []CacheTypeOK` |
| | `LeastRecentGoes` | `CacheSpec => []KeepsMostRecent` |
| | `NoOtherIsLost` | `CacheSpec => LosesNoOther` |
| | `SessionsReachTheirServer` | `CacheSpec => []OfferedToItsServer` |
| | `KeysAreReady` | `KeysSpec => []KeysReady` |
| | `TicketsStayOpen` | `KeysSpec => []TicketsOpen` |
| `ServerPartsProofs` | `CertificatesAreKept` | `StartSpec => []CertificateKept` |
| | `KicksFollowChanges` | `AccountsSpec => []KickFollowsChange` |
| | `StreamsWhole` | `XmlSpec => []StanzasWhole` |
| `TlsHandshake12Proofs` | `DamageFoundOut` | `Spec => []DamageIsFoundOut` |
| | `LastFlightLast` | `Spec => []LastFlight` |
| | `FailedTicketsNotOffered` | `Spec => []FailedNotOffered` |
| | `PolicyKept` | `Spec => [](ClientAuthPolicy /\ ResumesEstablished)` |
| | `Authentication` | `Spec => []Authenticated`, if `SameRoots` |
| | `AgreementRefined` | `Spec => Agrees` |
| | `CompatibleEndsSucceed` | `Spec => []CompatibleSucceeds` |
| `TlsHandshake13Proofs` | `TicketsMatch` | `Spec => []TicketSecretsMatch` |
| | `PolicyKept` | `Spec => [](ClientAuthPolicy /\ ResumesEstablished)` |
| | `Authentication` | `Spec => []Authenticated`, if `SameRoots` |
| | `AgreementRefined` | `Spec => Agrees` |

**XmppServerProofs.** The inductive invariant `IInv` adds to the properties: a
kick in progress has a client to work on (`TargetInv`); the address a handler is
about fits what it does (`ArgInv`, without which `TypeOK` is not inductive); a
kicker's loop is at registered clients (`KickInv`) and those have been accepted
(`NewInv`), so that a stream marked as closed is never opened again by `Accept`;
and `RemoveClient` has emptied the rooms it has passed (`DropInv`).
`NoDuplicates` is needed for types as well: it makes the room a lookup finds the
only one. The lemmas on `SwapRemove`, `AddOnce` and rooms edited in place come
first, then one lemma per part of the invariant with one step per action.

For the roster three parts are added: who waits on `streamEnd`
has found its stream closed (`ParkedInv`), who works on its entries has logged in
(`AuthInv`), and what is left of a loop over members is still among them
(`CastInv`: a list changes only under the mutex, before the changer's own loop
begins or after it has ended). For the refinement, `Kinds` sorts the steps:
those that touch neither lists nor logins, and seven that do; one lemma for each
says which operation of the roster it is. `DropClient` shows nothing because
`NoGhost` holds after it.

For `LoginsSettle` the part is `ScanInv`: of the sessions of its user, a login has
settled those that its loop has passed. They stay so, because a login that has
stored its address waits for the mutex and no stream that was closed is opened
again; the client the loop is at counts once the kick is past its mark. `LoopKinds`
sorts the steps once more, by what they are to the loops.

**TlsConnProofs.** `tls_oversized` shows that the condition of the last two
theorems is needed. `IInv` adds
to the properties that the place of a goroutine fits its method (`CallInv`) and
that only the first handshake is run by `Handshake` itself (`HandshakeInv`):
whoever has been let through has seen one complete, so at `hsIn` nobody reads,
and the two orders of locking cannot meet. `TypeOK` rests on `ActiveCallCounts`,
since a `Write` that returns subtracts two.

`StreamInv` has three parts. `NoBareAlert`: without oversized messages no alert is
written without `out`. `Steady` holds at any time: data is on its way in an open stream
only and never to the buffer (`DataOnItsWay`), a record on its way has `out`'s key and
last number (`Stamped`), no data is buffered and an alert that is has left its mark
(`Marked`), and `overlap` has come about by a closing alert in a renegotiation, behind
which no data follows (`Overlapped`). `Orderly` holds until `flush` and `write`
overlap: what has been written and not been sent (`Pending`) fits, one record after the
other, what the peer has read, and leads to the key and the number of the next record
(`Chained`, by a function that gives the peer's view behind each record); the buffer is
empty unless a handshake or a failed renegotiation uses it, and has a record where `flush`
expects one (`BufferFits`); and what
`Write` looks at under `out` (`MaySendData`) implies an open stream. The hard case of the
last is a handshake that began and failed in between, which never reaches keys the
peer has (`SettlesOpen`). `ImplementsStream` follows from `Steady` where the overlap has
happened: a record that does not fit ends the stream, and no data is on its way.
`ShutsDown` rests on `Told` besides: a closing alert that counts as sent has ended the
stream or is among `Pending`, which is empty once a handshake has succeeded.

The proofs first summarise what a step does to the goroutine
that takes it (`Movements`, `LockStep`, `HandshakeStep`, `ActiveStep`,
`OutStep`), one step per action, and then argue for the others at once.
`KeysInStep` rests on `HandInv`: in 1.3 one message waits at most, and if nobody
is about to deal with it, it is a first half or an oversized one, behind which
nothing is read.

**ListProofs.** The library's induction theorems take an operator, which no installed
prover can instantiate; `Induction` states it for a set of numbers instead and rests
on a least element (`Smallest`, by `WFMin`). With it the recursive function in
`Among` is shown to exist (`KeptUpTo`, `AmongDef`), to keep the entries it should
and the first of every part of the set (`AmongIs`, `AmongFirst`), and to go along
with a list that grows (`AmongAppend`, `AmongLast`). The facts of `Negotiation` that
`TlsConfigProofs` and `TlsHandshake12Proofs` share are here too: the versions are a
descending list of numbers (`Versions`, `HighestFirst`), and a hello holds what its
configuration says (`HelloIs`).

**TlsConfigProofs.** Of the configurations, `ConfigsAssumption` asks that versions are
numbers, suites names (known to the program or not), curves those of `CurveID`, that
each certificate has one of the keys that sign and no name without labels, and that
`NameToCertificate` is nil or what `BuildNameToCertificate` makes of the
certificates. There is no step to speak of: `NegotiatesBest` is about the functions. The
version is the first of a descending list, hence the greatest (`HighestFirst`); a
pattern that covers the name is one of those `getCertificate` tries, and the first
of them that a certificate has is the one with the fewest stars (`CoversTried`,
`StarsGrow`); the suite is the first of the preferred list that can be used
(`SuiteIs`), which is one of the client's and the server's because a hello holds what
its configuration says (`Hellos`); and the curve and the scheme the server then signs
with come from the hello and fit the certificate (`CurveIs`, `Schemes`).

Of the session cache, `CacheInv` says that the map and the list lead to each other, each
element under the key of its entry; `RecentInv`, that the sessions are of the first keys
of `recent`, in the same order as their elements lie in the list, that a key with an
entry of nil is not on `recent`, and that no session is missing while nil has not been
put for a key that was not there (`~strayed`); `ClientInv`, that a session was
established with the server it is held for. Lists are compared by what is on
them and what comes before what (`OnList`, `Precedes`), and lemmas say what
removing, moving and cutting do to both. A step is then one of two kinds: a key
comes first, and all the others stay but the last, if there is no room (`Enters`, `Room`),
or a key goes (`Leaves`). That the session that is evicted is the one `recent` gives up,
no other, is a matter of counting: at capacity, with no entry of nil, `recent` is as
long as the list (`Full`, `AsMany`), so the last of the one is the last of the other
(`LastGoes`); below capacity an element is free (`Unused`). `LosesNoOther` rests
on `NewerInv`: the session under a key is never older than one a client has got there,
as they are numbered in the order in which they are established.

Of the ticket keys: one goroutine at a time initialises a configuration
(`OnceInv`), the original before the returned one (`OrderInv`), and a
configuration that is done has keys or disabled tickets (`DoneInv`, with the
exception `KeyToEncrypt` names).

**ServerPartsProofs.** Of the start-up: only one process holds the address (`ListenerInv`,
`AddressInv`), so one at a time writes key and certificate under the name the
program gives them; `PairInv` says what the files hold at each of its steps,
`FatalInv` what a failed load leaves behind, `FreshInv` that nothing lies in a
directory that is not there.

Of the accounts: `LoginInv` says what a login under way has read of a user
who was kicked since his last change, `SessionInv` the same of a session.

Of the streams: what elements a sequence of tokens stands for is defined by its
depth and by recursion over the tokens, what the server does is a stack. The first part
shows what one token more does to the elements: a start opens one and changes none
(`StartGrows`), a text becomes that of the inmost (`TextGrows`), an end makes the
inmost the last child of the one it is in (`EndGrows`); the recursive function
exists and is unfolded once (`ElementsExist`, `ElementIs`), and what has ended stays
as it is (`EndedStays`, by induction from the last token back). So `Following`, which
says that the stack holds the open elements as far as they have come, is kept by
each token the server takes. The second part is the invariant `XmlInv`:

* `InTransit`: wire and buffer are the end of what was sent, first stream first;
* `Reads`: in each stage, the server follows the first so many tokens of the stream it
  reads; in the second one it begins at the first token of a peer that waits;
* `FirstStream`: what was returned in the clear is what the tokens before TLS say;
* `Waits`: a peer that waits had asked with its last token in the clear and not before,
  so the decoder that is dropped had read nothing more. Without it, `Reads` is not
  kept by `EndElement`;
* `NothingLost`: a failure of a peer that waits is its own.

**TlsHandshake12Proofs.** But for `CompatibleEndsSucceed` (below), the theorems assume
nothing of the configurations, and none assumes anything of the number of connections, faults and keys (a damaged hello is one that
`Damages` gives: another than was sent, with its ticket or with none); that
`None` is no number (`NoneAssumption`: a
session id is one, and none is `None`); and, for `Authentication` alone, that
clients that share a cache have the same roots (`SameRoots`, which the instances
TLC checks satisfy): `loadSession` checks the name and the expiry of a stored
certificate and not its issuer. Lemmas on sequences and logs (`HandshakeProofs`) come first. Then
each action is summarised by what it does to the parts of the state that matter
(`Effects`, 19 kinds of steps), and each part of the invariant is shown to
survive each kind:

* `ClientInv`, `ServerInv`: the secret, the certificate and the session of an end
  go back to this handshake or to the session it resumes, according to `resumed`;
* `HelloInv`: a hello is the first message of its direction and the only one, and
  while it is on its way the other end has sent nothing beyond it;
* `FinishedInv`: a Finished covers both hellos and the secret of who sent it, so
  who accepts one has the same (`SameHandshake`);
* `DamageInv`: a damaged hello is still on its way or differs for good from what
  was sent, and until it arrives there is no Finished: with `FinishedInv` nobody
  completes;
* `SessionInv`: every ticket and session, in the cache, on offer, on its way, goes
  back to an entry of `sessions`;
* `BurntInv`: two sessions of the cache are of different full handshakes (`Born`,
  the connection that made the secret), and none is of one that a failed
  handshake tried to go on with. Without the first part the second is not
  inductive: the same secret could lie under another name;
* `PolicyInv`, `PeerInv`: whom each end has accepted, and why a stored certificate
  is still good.

`SameKind` says that two ends that agree on the hellos agree on whether they
resume: the server echoes the session id only then, and the client's is its
connection's number. `LastFlight` and the refinement follow from it.

`CompatibleEndsSucceed` is about each message, not about what steps have in common,
and has an invariant of its own on top, `GoodInv`:

* `Undisturbed => GoesWell`: while the connection is up, no hello was damaged and the
  configurations are compatible, the handshake is in one of ten phases (`Waiting`,
  `Asking`, `Hearing`, `Reading`, `Responding`, `ServerConcludes`, `Resuming`,
  `ClientConcludes`, `Over`, `TicketRejected`). Each says where both ends stand, what
  exactly is on its way, and that the log of the reader lacks just the messages
  it has not read: so its Finished will cover what the other's does;
* `FitInv`: version, suite and secret in a ticket are those of the session it is kept
  with, and a ticket on its way is of this handshake. Without it a server could
  decline to go on where the client expects it to;
* `OfferInv`: a client's hello is what its configuration makes, with the session it
  offers, whose suite is in that hello.

That the reader takes each message is shown apart from the phases: the version and
the suite the server picks are ones the client finds in its own hello
(`VersionAgreed`, `SuiteAgreed`), and the key exchange, the client's chain and its
signature are acceptable because `Compatible` asks for it. Then a phase leads to a phase
for each message that is read (`UndisturbedStep`), and in no phase has an end failed
but in `TicketRejected` (`GoingWell`). It needs two assumptions more:
`SuitesAssumption`, that a configuration's suites are a list, and `BodiesAssumption`,
that `None` is not one of the records that stand for the body of a message, as the
model tells a message that is missing from one that is there by `None`.

**TlsHandshake13Proofs.** The same plan, assumptions and kinds of steps, and another
argument: here what one end computes covers what the other end has yet to say, and
secrets are derived from a Finished, not agreed on before it.

* `ServerInv`, `ServerSigned`: once a server has sent its Finished, hellos, secret,
  protocol, request for a certificate and both traffic keys are what that Finished
  covers, and stay so;
* `ClientInv`: a client that has accepted a Finished has derived everything it
  reports from it;
* `WireInv`, `OrderInv`: the only Finished of a server on its way is the one
  it sent, so a client that completes has the server's (`cli.peerSum = srv.sum`),
  and the server completes only after it; `Heard` says that what a server without a
  request expects, and puts in its tickets, is the Finished that the client will send:
  the log it computes ahead in `sendSessionTickets` is the one the client arrives at;
* `OwnInv`: a client that was asked for a certificate has signed a log with it in, and the
  server that accepts its Finished has the same one (`Answer`);
* `SessionInv`: every ticket and session has the secret and the suite of an entry of
  `sessions`; `BornInv`: the key shares in a secret name the connections that made them
  (`BornBy`), so two handshakes never have the same one, and a secret tells the
  certificates it goes with. Without `BornInv` the certificate in a ticket could be that of
  another handshake;
* `PolicyInv`, `PeerInv`: as in 1.2.

A damaged hello needs no invariant of its own: it is in the log that the Finished
covers. `Agrees` follows from `OrderInv` and `OwnInv`: two ends that complete have
the same log, so everything in the outcome is the same.

Only model-checked: liveness under fairness (`EverythingEnds`, `LockReleased`,
`DeadLeaves`, `CloseFreesCalls`), which the prover does not handle; `CompatibleSucceeds` of
`TlsHandshake13`, which would take phases like those of `TlsHandshake12` for its own flights;
and `ReadsBack`, as `Tokens` is a recursive operator. `TypeOK` of `XmppServer` and
of `TlsConn` and `CacheTypeOK` of `SessionCache` are proved and not checked.

## Not modelled

* Webhook (`cmdhook/`): one HTTP request per message. `XmppServer` has its
  verdict, that the message is kept.
* Chat log (`chatlog/`), logging, escaping, random strings: they keep no state.
* Listings of the API and the check of its key.
* Attributes of XML elements, and what stanzas say beyond kind and address.
* Bytes: formats of handshake messages, records, padding, ciphers, hashes, key
  derivation. The handshakes take secrets and transcripts as symbols; a reader of
  messages accepts what a writer wrote.
* In the handshakes: next protocol negotiation, signed certificate timestamps,
  SSL 3.0, `TLS_FALLBACK_SCSV`, early data (the client sends none), and the
  callbacks `GetCertificate`, `GetClientCertificate`, `VerifyPeerCertificate`, which the
  program does not set. TLS 1.3 and 1.2 are not mixed in one instance: which of
  them is spoken is `NegotiatesBest`'s matter.
* Deadlines as clocks: that a write fails after a second is a failure that may
  come at any time.

What is left: a composition of `TlsConn` with a handshake message by message, out of
reach for TLC at this size.
