------------------------- MODULE RetrievalAuthority -------------------------
(* What the browser believes before and after it pays for a download.  It     *)
(* pins one generation of a deal from three queries at one committed height,  *)
(* authenticates the file table a provider hands out against the pinned root, *)
(* refreshes the pin before payment, reads the opened session back from the   *)
(* chain and checks every response of a provider against the frozen session.  *)
(* Queries may be answered by a node that lags, the deal changes between them *)
(* (new content, a repair, another policy), and a provider may answer with    *)
(* the header, the coordinates and the bytes of anything it stores.           *)
(*                                                                            *)
(* Source: lib/retrieval.ts, lib/retrievalV3.ts, lib/retrievalWire.ts and     *)
(* lib/polyfsLocal.ts.  A root is named by its generation and a blob by where *)
(* it is stored; ranges are counted in blobs (SlabFormat has the bytes).      *)
EXTENDS Integers, Sequences, FiniteSets, SequencesExt

CONSTANTS K, M, Rows,       \* stripe profile; rows of a slot in one MDU
          Fat,              \* [generation -> its file table, a sequence of records]
          UserMdus,         \* [generation -> user MDUs]
          Path,             \* the file the user asks for
          Owners,           \* of the wallet: "owner" or "sponsor"
          Modes,            \* retrieval policies the deal may have
          V2At, V3At,       \* activation heights; 0 is never
          MaxHeight,        \* bound: committed blocks
          None

Generations == DOMAIN Fat
Slots == 0 .. K + M - 1
MetadataMdus == 2           \* MDU 0 and one witness MDU
LeafCount == Rows * (K + M)
PerMdu == Rows * K

AuthorityAssumption ==
  /\ {K, M, Rows, MaxHeight} \subseteq Nat \ {0} /\ {V2At, V3At} \subseteq Nat
  /\ Generations = 1 .. Len(Fat) /\ Len(Fat) > 0
  /\ UserMdus \in [Generations -> Nat \ {0}]

VARIABLES chain,     \* the committed state of the deal at each height
          sessions,  \* the sessions on the chain
          wallet,    \* who pays
          header,    \* the version each generation's file table is written in
          pc, goal,  \* the client's next step, and whether it pins or refreshes
          asked,     \* the answer of the generation query and its height
          auth,      \* the pinned generation
          rec,       \* the index of the file record, once the table is authenticated
          intent,    \* the open transaction
          sess,      \* the frozen session
          got        \* accepted blobs by requested coordinate

vars == <<chain, sessions, wallet, header, pc, goal, asked, auth, rec, intent, sess, got>>
chainVars == <<chain, sessions, wallet, header>>

Height == Len(chain)
Now == chain[Height]

-----------------------------------------------------------------------------
(* The chain.  A block leaves the deal as it was or with one change.         *)
Block(deal) ==
  /\ Height < MaxHeight
  /\ chain' = Append(chain, deal)

Quiet == Block(Now) /\ UNCHANGED sessions

\* New content: finalised with a v3 row, or committed without one.
NewContent ==
  /\ Now.gen < Len(Fat)
  /\ \/ Block([Now EXCEPT !.gen = @ + 1])
     \/ /\ header[Now.gen + 1] = 3 /\ Now.active = Slots
        /\ Block([Now EXCEPT !.gen = @ + 1, !.adm = Now.gen + 1, !.frozen = Now.provs])
  /\ UNCHANGED sessions

\* A repair takes a slot out of service and later hands it to another provider.
Repair ==
  /\ \/ Now.active = Slots /\ Block([Now EXCEPT !.active = @ \ {0}])
     \/ /\ Now.active # Slots
        /\ Block([Now EXCEPT !.active = Slots, !.provs = [@ EXCEPT ![0] = K + M]])
  /\ UNCHANGED sessions

Policy(mode) == mode # Now.mode /\ Block([Now EXCEPT !.mode = mode]) /\ UNCHANGED sessions

Authorizes(mode, payer) == payer = "owner" \/ mode = "public"

\* The admitted row must be the one of the deal's current content, with every
\* slot active and still held by the provider the row froze.
AdmittedMatches(adm, frozen, deal) ==
  /\ adm = deal.gen /\ deal.active = Slots /\ frozen = deal.provs

\* The chain demands of a v3 open what the client does.
Eligible(deal) == AdmittedMatches(deal.adm, deal.frozen, deal)

LastNonce == Cardinality({s \in sessions : s.owner = wallet})

\* Another tab of the same wallet opens a session for the same file.
OtherOpens ==
  /\ Eligible(Now) /\ Authorizes(Now.mode, wallet)
  /\ Block(Now)
  /\ sessions' = sessions \cup {[owner |-> wallet, ver |-> 3, gen |-> Now.gen, rec |-> 1,
                                 at |-> <<0, 1>>, nonce |-> LastNonce + 1, snapshot |-> Height + 1]}

ChainStep ==
  /\ \/ Quiet \/ NewContent \/ Repair \/ \E mode \in Modes : Policy(mode)
     \/ OtherOpens
  /\ UNCHANGED <<wallet, header, pc, goal, asked, auth, rec, intent, sess, got>>

-----------------------------------------------------------------------------
(* Queries.  A node answers for its latest height, or for the height asked.  *)
committedQuery(h) == IF h = None THEN 1 .. Height ELSE {h}

parsePinnedGeneration(h) ==
  [ver |-> 2, height |-> h, gen |-> chain[h].gen, provs |-> chain[h].provs,
   active |-> chain[h].active, users |-> UserMdus[chain[h].gen], mode |-> None]

parseGeneration(answer, h) ==
  [ver |-> 3, height |-> answer.height, gen |-> answer.adm, provs |-> answer.frozen,
   active |-> Slots, users |-> UserMdus[answer.adm], mode |-> chain[h].mode]

sameFrozenGenerationV3(a, b) == [a EXCEPT !.height = 0] = [b EXCEPT !.height = 0]

\* The comparison of a version 2 refresh: the windows' own slots must be active.
sameCommittedGeneration(a, b, slot) ==
  /\ a.gen = b.gen /\ a.users = b.users
  /\ slot \in a.active /\ a.provs[slot] = b.provs[slot]

assertSponsoredPolicyV3(authority, payer) == payer = "owner" \/ authority.mode = "public"

Throw == pc' = "failed" /\ UNCHANGED <<goal, asked, auth, rec, intent, sess, got>>

\* fetchActiveGenerationV3, in three awaits.
QueryGeneration ==
  /\ pc = "generation"
  /\ \E h \in committedQuery(None) :
       /\ asked' = [height |-> h, adm |-> chain[h].adm, frozen |-> chain[h].frozen]
       /\ pc' = IF chain[h].adm = 0 THEN "pin" ELSE "params"
       /\ UNCHANGED <<goal, auth, rec, intent, sess, got>>

QueryParams ==
  /\ pc = "params"
  /\ \E h \in committedQuery(asked.height) :
       /\ pc' = IF V3At = 0 \/ V3At > h THEN "pin" ELSE "deal"
       /\ UNCHANGED <<goal, asked, auth, rec, intent, sess, got>>

\* The answer of the last query is the pin, or is compared with it.
Resolve(found, matches) ==
  IF goal = "pin" THEN /\ auth' = found /\ pc' = "metadata"
                       /\ UNCHANGED <<goal, asked, rec, intent, sess, got>>
  ELSE IF matches THEN /\ pc' = IF found.ver = 3 THEN "nonce" ELSE "prepare"
                       /\ UNCHANGED <<goal, asked, auth, rec, intent, sess, got>>
  ELSE Throw

fetchActiveGenerationV3 ==
  /\ pc = "deal"
  /\ \E h \in committedQuery(asked.height) :
       LET found == parseGeneration(asked, h) IN
       IF AdmittedMatches(asked.adm, asked.frozen, chain[h])
       THEN Resolve(found, /\ sameFrozenGenerationV3(found, auth)
                           /\ assertSponsoredPolicyV3(auth, wallet))
       ELSE Throw

\* Without an active v3 generation a download pins for version 2; the refresh of
\* a v3 download fails instead.
QueryDeal ==
  /\ pc = "pin"
  /\ IF goal = "refresh" /\ auth.ver = 3 THEN Throw
     ELSE \E h \in committedQuery(None) :
            /\ asked' = [height |-> h, adm |-> 0, frozen |-> <<>>]
            /\ pc' = "availability"
            /\ UNCHANGED <<goal, auth, rec, intent, sess, got>>

\* The earliest of the two activation heights that are set.
Activated(h) == \E at \in {V2At, V3At} \ {0} : at <= h
fetchRetrievalAvailability ==
  /\ pc = "availability"
  /\ \E h \in committedQuery(asked.height) :
       LET found == parsePinnedGeneration(h) IN
       IF Activated(h)
       THEN Resolve(found, sameCommittedGeneration(found, auth, intent.slot))
       ELSE Throw

-----------------------------------------------------------------------------
(* The file table.  An MDU 0 is authentic for at most one root.              *)
\* Each record ends within 64 bits and its path is absent or canonical.
decodePolyfsFileRecord(r) == r.first + r.count <= 2 ^ 8 /\ r.path # "noncanonical"

\* Root cells and reserved bytes are canonical, what is behind the records is zero.
validateAuthenticatedMdu0Structure(mdu0) == mdu0.canonical /\ mdu0.padded

\* Live paths differ.
parsePolyfsRecordsFromAuthenticatedMdu0(mdu0) ==
  /\ validateAuthenticatedMdu0Structure(mdu0)
  /\ \A i \in DOMAIN mdu0.records : decodePolyfsFileRecord(mdu0.records[i])
  /\ \A i, j \in DOMAIN mdu0.records :
       (mdu0.records[i].path = mdu0.records[j].path /\ mdu0.records[i].path # "") => i = j

FitsGeneration(records, users) ==
  \A i \in DOMAIN records : records[i].first + records[i].count <= users * PerMdu

validatedRecordCount(mdu0) == mdu0.header = 2
\* External: the header of version 3 also names the integrity root.
verify_fat_v3_header(mdu0, pin) == mdu0.header = 3 /\ mdu0.integrity = pin.gen

validateV3GenerationAuthority(pin) == pin.users >= 1

\* Version 2 parses first and authenticates the bytes afterwards.
verifyRetrievalMetadata(mdu0, pin) ==
  /\ validatedRecordCount(mdu0)
  /\ parsePolyfsRecordsFromAuthenticatedMdu0(mdu0)
  /\ mdu0.root = pin.gen
  /\ FitsGeneration(mdu0.records, pin.users)

\* Version 3 authenticates first.
verifyRetrievalMetadataV3(mdu0, pin) ==
  /\ validateV3GenerationAuthority(pin)
  /\ mdu0.root = pin.gen
  /\ verify_fat_v3_header(mdu0, pin)
  /\ parsePolyfsRecordsFromAuthenticatedMdu0(mdu0)
  /\ FitsGeneration(mdu0.records, pin.users)

\* The MDUs 0 a provider may hand out: those of the generations, and damaged ones
\* whose bytes hash to no root.
Mdu0(g) == [root |-> g, header |-> header[g], integrity |-> g, canonical |-> TRUE,
            padded |-> TRUE, records |-> Fat[g]]
Mdu0s == LET intact == {Mdu0(g) : g \in Generations}
         IN intact \cup {[m EXCEPT !.root = 0, !.canonical = c, !.padded = ~c] :
                           m \in intact, c \in BOOLEAN}

fetchMetadata(m) ==
  /\ pc = "metadata"
  /\ IF IF auth.ver = 3 THEN verifyRetrievalMetadataV3(m, auth) ELSE verifyRetrievalMetadata(m, auth)
     THEN LET found == {i \in DOMAIN m.records : m.records[i].path = Path} IN
          IF found # {} /\ \A i \in found : m.records[i].flags = 0 /\ m.records[i].count > 0
          THEN /\ rec' = CHOOSE i \in found : TRUE
               /\ pc' = "plan"
               /\ UNCHANGED <<goal, asked, auth, intent, sess, got>>
          ELSE Throw
     ELSE Throw

-----------------------------------------------------------------------------
(* The plan and the payment.                                                 *)
\* Encoded blob t of the user data: its MDU, slot and leaf.
At(t) == [t |-> t, mdu |-> MetadataMdus + t \div PerMdu, slot |-> t % K,
          leaf |-> (t % K) * Rows + (t % PerMdu) \div K,
          position |-> (t \div PerMdu) * LeafCount + (t % K) * Rows + (t % PerMdu) \div K]

\* The chunks of a range: the blobs of one slot in one MDU, in order.
Chunks(first, last) ==
  {c \in {SelectSeq([i \in 1 .. last - first + 1 |-> At(first + i - 1)],
                    LAMBDA e : e.slot = s /\ e.mdu = u) :
            s \in 0 .. K - 1, u \in {At(t).mdu : t \in first .. last}} : c # <<>>}

\* Version 3 pays for the whole range at once, version 2 for one chunk, a window.
Plan ==
  /\ pc = "plan"
  /\ LET file == Fat[auth.gen][rec]
         last == file.first + file.count - 1 IN
     \E c \in Chunks(file.first, last) :
       /\ auth.ver = 3 \/ c[1].slot \in auth.active
       /\ intent' = [slot |-> c[1].slot, nonce |-> 0,
                     at |-> IF auth.ver = 3 THEN <<file.first, last>> ELSE <<c[1].t, c[Len(c)].t>>]
  /\ goal' = "refresh" /\ pc' = IF auth.ver = 3 THEN "generation" ELSE "pin"
  /\ UNCHANGED <<asked, auth, rec, sess, got>>

fetchLatestNonceV3 ==
  /\ pc = "nonce"
  /\ \E h \in committedQuery(None) :
       /\ intent' = [intent EXCEPT !.nonce =
                       1 + Cardinality({s \in sessions : s.owner = wallet /\ s.snapshot <= h})]
       /\ pc' = "send"
       /\ UNCHANGED <<goal, asked, auth, rec, sess, got>>

\* A version 2 nonce comes from the clock and never collides.
prepare ==
  /\ pc = "prepare"
  /\ intent' = [intent EXCEPT !.nonce = LastNonce + 1] /\ pc' = "send"
  /\ UNCHANGED <<goal, asked, auth, rec, sess, got>>

\* What prepareV3Binding hashes into the session id.
BindingOf(s) == <<s.owner, s.ver, s.gen, s.rec, s.at, s.nonce>>

\* The open transaction is executed in a block of its own, or refused by the state
\* it meets there.
Included ==
  /\ Authorizes(Now.mode, wallet)
  /\ IF auth.ver = 3 THEN Eligible(Now) /\ Now.adm = auth.gen /\ intent.nonce > LastNonce
     ELSE Now.gen = auth.gen /\ Now.provs[intent.slot] = auth.provs[intent.slot]
            /\ intent.slot \in Now.active

Send ==
  /\ pc = "send" /\ Height < MaxHeight
  /\ Block(Now)
  /\ IF Included
     THEN /\ sessions' = sessions \cup
               {[owner |-> wallet, ver |-> auth.ver, gen |-> auth.gen, rec |-> rec,
                 at |-> intent.at, nonce |-> intent.nonce, snapshot |-> Height + 1]}
          /\ pc' = "session"
     ELSE pc' = "failed" /\ UNCHANGED sessions
  /\ UNCHANGED <<wallet, header, goal, asked, auth, rec, intent, sess, got>>

-----------------------------------------------------------------------------
(* The session and the responses.                                            *)
Binding == <<wallet, auth.ver, auth.gen, rec, intent.at, intent.nonce>>

\* The row is that of the request, opened after the pin and not in the future.
parseFrozenSessionV3(row, h) ==
  /\ BindingOf(row) = Binding /\ row.gen = auth.gen
  /\ row.snapshot >= auth.height /\ h >= row.snapshot
parseFrozenSession(row, h) ==
  /\ BindingOf(row) = Binding /\ row.gen = auth.gen /\ row.at = intent.at
  /\ row.snapshot >= auth.height /\ h >= row.snapshot

\* A node that has not seen the block yet knows no such session.
fetchSession ==
  /\ pc = "session"
  /\ \E h \in committedQuery(None) :
       LET known == {s \in sessions : BindingOf(s) = Binding /\ s.snapshot <= h} IN
       IF \E s \in known : IF auth.ver = 3 THEN parseFrozenSessionV3(s, h) ELSE parseFrozenSession(s, h)
       THEN /\ sess' = CHOOSE s \in known : TRUE
            /\ pc' = "transfer"
            /\ UNCHANGED <<goal, asked, auth, rec, intent, got>>
       ELSE Throw

\* A response: a header for one chunk, the coordinates of a second and the bytes
\* (with their proofs) of a third, of any generation and session; the last blob may
\* be missing or be the first of another chunk.
Responses(chunks) ==
  [session : {Binding, <<>>}, header : chunks, entries : chunks, bytes : chunks,
   gen : Generations, stored : Generations, tail : chunks \cup {<<>>}]

\* The provider's copy of a coordinate: the blob, its commitment and its path.
Stored(g, e) == [gen |-> g, mdu |-> e.mdu, leaf |-> e.leaf]
Bytes(r) == LET all == [i \in DOMAIN r.bytes |-> Stored(r.stored, r.bytes[i])]
            IN IF r.tail = <<>> THEN Front(all)
               ELSE IF r.tail = r.bytes THEN all
               ELSE Append(Front(all), Stored(r.stored, r.tail[1]))

\* The parts the header announces are there.
parseMultipart(c, r) == Len(Bytes(r)) = Len(c)

\* A chunk is 1 to Rows consecutive leaves of one slot and one MDU.
validateV3ChunkAuthority(c) ==
  /\ validateV3GenerationAuthority(auth)
  /\ Len(c) \in 1 .. Rows /\ c[1].slot \in 0 .. K - 1
  /\ \A i \in DOMAIN c : c[i].mdu = c[1].mdu /\ c[i].leaf = c[1].leaf + i - 1

parseRetrievalEnvelopeV3(c, r) ==
  /\ validateV3ChunkAuthority(c)
  /\ parseMultipart(c, r)
  /\ r.session = BindingOf(sess) /\ r.gen = auth.gen
  /\ r.header[1].slot = c[1].slot /\ r.header[1].mdu = c[1].mdu /\ r.header[1].leaf = c[1].leaf
  /\ Len(r.entries) = Len(c)
  /\ \A i \in DOMAIN c : r.entries[i] = c[i]

\* External: the leaf hash covers the coordinates, the path leads to the root.
verify_integrity_v3_blob(e, blob, g) == blob = Stored(g, e)

\* Fault: only the first blob of a chunk is verified.
verifyFirstDataV3(c, r) ==
  /\ Len(Bytes(r)) = Len(c)
  /\ verify_integrity_v3_blob(c[1], Bytes(r)[1], auth.gen)

verifyRetrievalDataV3(c, r) ==
  /\ validateV3ChunkAuthority(c)
  /\ Len(Bytes(r)) = Len(c)
  /\ \A i \in DOMAIN c :
       /\ c[i] = At(c[i].t) /\ c[i].slot = c[1].slot
       /\ c[i].position < auth.users * LeafCount
       /\ verify_integrity_v3_blob(c[i], Bytes(r)[i], auth.gen)

parseRetrievalEnvelope(c, r) ==
  /\ parseMultipart(c, r)
  /\ r.session = BindingOf(sess) /\ r.gen = auth.gen
  /\ r.header[1].mdu = c[1].mdu /\ r.header[1].leaf = c[1].leaf /\ Len(r.header) = Len(c)
  /\ Len(r.entries) = Len(c)

\* External: each proof opens the commitment of its coordinate under the root, at
\* the point the session's challenge selects.
verify_polyfs_session_batch(r, g) == r.stored = g \/ r.entries = <<>>

\* The proofs are those of the challenges in order, and the received bytes have
\* the commitments the proofs opened.
verifyRetrievalWindow(c, r) ==
  /\ \A i \in DOMAIN c : r.entries[i].mdu = c[i].mdu /\ r.entries[i].leaf = c[i].leaf
  /\ verify_polyfs_session_batch(r, auth.gen)
  /\ \A i \in DOMAIN c : Bytes(r)[i] = Stored(auth.gen, r.entries[i])

Verified(c, r) ==
  IF auth.ver = 3 THEN parseRetrievalEnvelopeV3(c, r) /\ verifyRetrievalDataV3(c, r)
  ELSE parseRetrievalEnvelope(c, r) /\ verifyRetrievalWindow(c, r)

\* A refused response is asked for again elsewhere.
fetchChunk ==
  /\ pc = "transfer"
  /\ LET chunks == Chunks(intent.at[1], intent.at[2]) IN
     \E c \in {d \in chunks : \A i \in DOMAIN d : d[i] \notin DOMAIN got}, r \in Responses(chunks) :
       /\ Verified(c, r)
       /\ got' = [e \in DOMAIN got \cup Range(c) |->
                    IF e \in DOMAIN got THEN got[e]
                    ELSE Bytes(r)[CHOOSE i \in DOMAIN c : c[i] = e]]
  /\ UNCHANGED <<pc, goal, asked, auth, rec, intent, sess>>

Client ==
  \/ /\ \/ QueryGeneration \/ QueryParams \/ fetchActiveGenerationV3
        \/ QueryDeal \/ fetchRetrievalAvailability
        \/ (\E m \in Mdu0s : fetchMetadata(m))
        \/ Plan \/ fetchLatestNonceV3 \/ prepare \/ fetchSession \/ fetchChunk
     /\ UNCHANGED chainVars
  \/ Send

Deals == [gen : {1}, adm : {0, 1}, frozen : {[s \in Slots |-> s]}, provs : {[s \in Slots |-> s]},
          active : {Slots}, mode : Modes]

Init ==
  /\ chain \in {<<d>> : d \in Deals}
  /\ sessions = {} /\ wallet \in Owners /\ header \in [Generations -> {2, 3}]
  /\ chain[1].adm = 1 => header[1] = 3
  /\ pc = "generation" /\ goal = "pin"
  /\ asked = [height |-> 0, adm |-> 0, frozen |-> <<>>]
  /\ auth = None /\ rec = 0 /\ intent = None /\ sess = None /\ got = <<>>

Next == ChainStep \/ Client
Spec == Init /\ [][Next]_vars

-----------------------------------------------------------------------------
TypeOK ==
  /\ Height \in 1 .. MaxHeight /\ wallet \in Owners
  /\ goal \in {"pin", "refresh"} /\ rec \in Nat
  /\ \A s \in sessions : s.gen \in Generations /\ s.snapshot \in 2 .. Height

\* The pin is the deal as it was at one committed height, its policy and providers
\* included; the paid session is for the pinned content and the chosen file; and
\* every accepted blob is the one stored at the requested coordinate of the pinned
\* generation.  Lagging nodes, content updates and repairs between the queries, and
\* responses for other chunks, sessions or generations never mix in.
BytesAreRequested ==
  /\ auth # None => LET deal == chain[auth.height] IN
                    /\ auth.gen = deal.gen /\ auth.provs = deal.provs /\ auth.active = deal.active
                    /\ auth.ver = 3 => auth.mode = deal.mode
  /\ rec # 0 => Fat[auth.gen][rec].path = Path
  /\ sess # None => /\ sess.gen = auth.gen /\ sess.rec = rec /\ sess.owner = wallet
                    /\ chain[sess.snapshot - 1].gen = auth.gen
  /\ \A e \in DOMAIN got : /\ got[e] = Stored(sess.gen, e) /\ e = At(e.t)
                           /\ LET f == Fat[sess.gen][sess.rec] IN e.t \in f.first .. f.first + f.count - 1
=============================================================================
