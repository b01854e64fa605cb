------------------------ MODULE StreamPipelineProofs ------------------------
(***************************************************************************)
(* Proofs about StreamPipeline: PipelineInv (StreamPipelineInv) is         *)
(* inductive, and the properties of a streamed backup follow from it.      *)
(*                                                                         *)
(* The proof of each part XInv of PipelineInv has one step per kind of     *)
(* action: those of the session, those of the builder that only move its   *)
(* control point (Advance), the other builder actions one by one, the      *)
(* hand-off, the uploader's, and the rest (Aside).  The frame lemmas say   *)
(* what each kind leaves alone.  The parts come in this order: the chunk   *)
(* table, whose rows hold the stream; the types; control (session,         *)
(* builder, hand-off); the layer budget and the work directory; the chain  *)
(* of layers; the uploads; the published image; the answer.                *)
(*                                                                         *)
(* The last part shows that the pipeline keeps BackupPromise.  What a      *)
(* reader gets is put together by a loop over layers and, inside, one over *)
(* chunks; that it is the stream is proved by induction over both.         *)
(***************************************************************************)
EXTENDS MCStreamPipeline, TLAPS, FiniteSetTheorems

\* A leaf that names no prover is left to Zenon; arithmetic and tuples go to the SMT
\* solver.
USE ZenonT(30)
USE DEF sessionVars, chunkVars, rollVars, scanVars, uploadVars, endVars

-----------------------------------------------------------------------------
(* The steps of the pipeline and what they leave alone.                    *)

Advance ==
  \/ CheckFailure \/ ReadEOF \/ RollReturns \/ DrainStart \/ ScanOutcome
  \/ PublishOk \/ (\E tagged \in BOOLEAN : PublishFails(tagged))
  \/ AbortScan \/ AbortUploader \/ AbortReturns \/ ClosePipe
ChunkLost == \E created \in BOOLEAN : StoreChunkFails(created)
Aside == Scanner \/ CancelContext \/ Terminated \/ UNCHANGED vars

\* The kinds of step of the pipeline.
LEMMA NextCases ==
  ASSUME [Next]_vars
  PROVE  \/ Session \/ Advance \/ ReadUnit \/ ReadAborted \/ StoreChunk
         \/ ChunkLost \/ Roll \/ DrainEnd \/ Cleanup \/ Handoff \/ Uploader
         \/ Aside
BY DEF Next, Builder, Advance, ChunkLost, Aside

\* A step of the session (streamData, streamEnd, fail) leaves the rest alone.
LEMMA SessionFrame ==
  ASSUME Session
  PROVE  UNCHANGED <<ctxDone, bpc, chunkVars, rollVars, scanVars, uploadVars,
                     endVars, disk>>
<1>1. CASE \E u \in Unit : StreamData(u)
  BY <1>1 DEF StreamData
<1>2. CASE StreamWriteFails \/ StreamEnd
  BY <1>2 DEF StreamWriteFails, StreamEnd
<1>3. CASE SessionFails \/ SessionReturns
  BY <1>3 DEF SessionFails, SessionReturns
<1> QED BY <1>1, <1>2, <1>3 DEF Session

\* A step that only moves the builder leaves the chunks and the uploads alone.
LEMMA AdvanceFrame ==
  ASSUME Advance
  PROVE  UNCHANGED <<sessionVars, ctxDone, chunkVars, outbox, layers, scan,
                     scanErr, uploadVars, disk>>
BY DEF Advance, CheckFailure, ReadEOF, RollReturns, DrainStart,
     ScanOutcome, PublishOk, PublishFails, AbortScan, AbortUploader,
     AbortReturns, ClosePipe

\* Where an Advance step may lead: no chunk is read or stored after the end,
\* and the path to publish is never entered from elsewhere.
LEMMA AdvanceMoves ==
  ASSUME Advance
  PROVE  \/ bpc = "check" /\ bpc' \in {"read", "abort"} /\ last' = last
         \/ bpc = "read" /\ buf # <<>> /\ bpc' = "store" /\ ~last'
         \/ bpc = "read" /\ buf = <<>> /\ bpc' = "roll" /\ last'
            /\ frame = <<>> /\ wpipe = "eof"
         \/ bpc = "rolled" /\ last' = last
            /\ bpc' = IF uploadErr THEN "abort"
                      ELSE IF last THEN "drain" ELSE "check"
         \/ bpc = "drain" /\ bpc' = "drained" /\ last' = last
         \/ bpc = "scanwait" /\ bpc' \in {"publish", "close"} /\ last' = last
         \/ bpc \in {"publish", "abort", "abortscan", "abortwait", "close"}
            /\ bpc' \in {"close", "abortscan", "abortwait", "cleanup"}
            /\ last' = last
<1>1. CASE CheckFailure \/ ReadEOF
  BY <1>1 DEF CheckFailure, ReadEOF
<1>2. CASE RollReturns \/ DrainStart \/ ScanOutcome
  BY <1>2 DEF RollReturns, DrainStart, ScanOutcome
<1>3. CASE PublishOk \/ (\E tagged \in BOOLEAN : PublishFails(tagged))
  BY <1>3 DEF PublishOk, PublishFails
<1>4. CASE AbortScan \/ AbortUploader \/ AbortReturns \/ ClosePipe
  BY <1>4 DEF AbortScan, AbortUploader, AbortReturns, ClosePipe
<1> QED BY <1>1, <1>2, <1>3, <1>4 DEF Advance

\* A step of the builder that handles chunks: which results it leaves alone,
\* and where it may lead.
LEMMA ChunkFrame ==
  ASSUME \/ ReadUnit \/ ReadAborted \/ StoreChunk \/ ChunkLost \/ DrainEnd
         \/ Cleanup \/ Handoff
  PROVE  /\ UNCHANGED <<endVars, scan, scanErr, uploadErr, results, registry>>
         /\ \/ /\ bpc \in {"read", "store"}
               /\ bpc' \in {"abort", "read", "store", "roll", "check"}
               /\ UNCHANGED <<layerCount, rollVars, upc, job>>
            \/ /\ bpc = "drained" /\ bpc' \in {"abort", "scanwait"}
               /\ UNCHANGED <<layerCount, spool, last, outbox, upc, job, disk>>
            \/ /\ bpc = "cleanup" /\ bpc' = "done"
               /\ UNCHANGED <<layerCount, rollVars, upc, job>>
            \/ bpc = "send" /\ bpc' = "rolled"
<1>1. CASE ReadUnit
  BY <1>1 DEF ReadUnit
<1>2. CASE ReadAborted
  BY <1>2 DEF ReadAborted
<1>3. CASE StoreChunk
  BY <1>3 DEF StoreChunk
<1>4. CASE ChunkLost
  BY <1>4 DEF ChunkLost, StoreChunkFails
<1>5. CASE DrainEnd
  BY <1>5 DEF DrainEnd
<1>6. CASE Cleanup
  BY <1>6 DEF Cleanup
<1>7. CASE Handoff
  BY <1>7 DEF Handoff
<1> QED BY <1>1, <1>2, <1>3, <1>4, <1>5, <1>6, <1>7

\* A step of the uploader's goroutine leaves the builder and the session alone.
LEMMA UploaderFrame ==
  ASSUME Uploader
  PROVE  UNCHANGED <<sessionVars, ctxDone, bpc, chunkVars, rollVars, scanVars,
                     endVars>>
BY DEF Uploader, UploaderCheck, BuildLayer, HeadLayer, PutLayer, LayerFails,
       UploaderExit

\* The scanner and a cancelled context leave the chunks and uploads alone.
LEMMA AsideFrame ==
  ASSUME Aside
  PROVE  UNCHANGED <<sessionVars, bpc, chunkVars, rollVars, scanClosed,
                     uploadVars, endVars, disk>>
BY DEF Aside, Scanner, ScanStops, ScanEnds, CancelContext,
     Terminated, vars

\* The two outcomes of roll: a layer handed over, or nothing but a move.
LEMMA RollCases ==
  ASSUME Roll
  PROVE  /\ bpc = "roll"
         /\ UNCHANGED <<sessionVars, ctxDone, received, buf, rows, closeAt,
                        last, closing, layers, scanVars, uploadVars, endVars,
                        disk>>
         /\ \/ /\ spool.open /\ ~(layerCount >= MaxDataLayers)
               /\ outbox' = <<PendingLayer>> /\ bpc' = "send"
               /\ spool' = [open |-> FALSE, size |-> 0]
               /\ nextFrom' = Len(rows) /\ layerCount' = layerCount + 1
            \/ /\ bpc' = IF spool.open THEN "abort" ELSE "drain"
               /\ UNCHANGED <<spool, nextFrom, layerCount, outbox>>
BY DEF Roll

-----------------------------------------------------------------------------
(* Digests and names.                                                      *)

\* A result of the uploader is a range of the chunk table and a blob (layerResult).
LEMMA ResultFields ==
  ASSUME NEW r \in Result
  PROVE  r.index \in Nat /\ r.from \in Nat /\ r.to \in Nat /\ r.digest \in Blob
BY DEF Result

\* The digest of a range of the chunk table names a blob.
LEMMA BlobDigestType ==
  ASSUME NEW table \in Seq(Row), NEW from \in Nat, NEW to \in Nat,
         from <= to, to < Len(table)
  PROVE  BlobDigest(table, from, to) \in Blob
<1>1. to - from + 1 \in Nat
  BY SMTT(30)
<1>2. ASSUME NEW i \in 1..(to - from + 1)
      PROVE  [payload |-> table[from + i].payload,
               nonce |-> table[from + i].nonce]
               \in [payload : Seq(Unit), nonce : Nat]
  <2>1. table[from + i] \in Row
    BY SMTT(30)
  <2> QED BY <2>1 DEF Row
<1> QED BY <1>1, <1>2, SMTT(30) DEF BlobDigest, Blob

\* The digest of a range only reads the stored bytes of that range, so it
\* survives later chunks and the naming of data files.
LEMMA BlobDigestStable ==
  ASSUME NEW table \in Seq(Row), NEW table2 \in Seq(Row),
         NEW from \in Nat, NEW to \in Nat, to < Len(table),
         Len(table) <= Len(table2),
         \A i \in 1..Len(table) : /\ table2[i].payload = table[i].payload
                                  /\ table2[i].nonce = table[i].nonce
  PROVE  BlobDigest(table2, from, to) = BlobDigest(table, from, to)
<1>1. ASSUME NEW i \in 1..(to - from + 1) PROVE from + i \in 1..Len(table)
  BY SMTT(30)
<1> QED BY <1>1 DEF BlobDigest

\* drainUploader names the data files and changes nothing else of the table.
LEMMA NamedRowsKeep ==
  ASSUME rows \in Seq(Row), results \in Seq(Result)
  PROVE  /\ NamedRows \in Seq(Row)
         /\ Len(NamedRows) = Len(rows)
         /\ \A i \in 1..Len(rows) :
              /\ NamedRows[i].at = rows[i].at
              /\ NamedRows[i].payload = rows[i].payload
              /\ NamedRows[i].nonce = rows[i].nonce
<1> DEFINE Holds(i, k) == i - 1 \in results[k].from..results[k].to
           Named(i) == [rows[i] EXCEPT !.p =
             results[CHOOSE k \in 1..Len(results) : Holds(i, k)].digest]
           Item(i) == IF \E k \in 1..Len(results) : Holds(i, k)
                      THEN Named(i) ELSE rows[i]
<1>1. ASSUME NEW i \in 1..Len(rows)
      PROVE  /\ Item(i) \in Row /\ Item(i).at = rows[i].at
             /\ Item(i).payload = rows[i].payload
             /\ Item(i).nonce = rows[i].nonce
  <2>1. rows[i] \in Row
    BY SMTT(30)
  <2>2. CASE \E k \in 1..Len(results) : Holds(i, k)
    <3> DEFINE c == CHOOSE k \in 1..Len(results) : Holds(i, k)
    <3>1. c \in 1..Len(results)
      BY <2>2
    <3>2. Item(i) = [rows[i] EXCEPT !.p = results[c].digest]
      BY <2>2
    <3> HIDE DEF c
    <3>3. results[c] \in Result
      BY <3>1, SMTT(30)
    <3>4. results[c].digest \in Blob
      BY <3>3, ResultFields
    <3> QED BY <2>1, <3>2, <3>4 DEF Row, Blob
  <2>3. CASE ~ \E k \in 1..Len(results) : Holds(i, k)
    BY <2>1, <2>3 
  <2> QED BY <2>2, <2>3
<1>2. NamedRows = [i \in 1..Len(rows) |-> Item(i)]
  BY DEF NamedRows
<1> HIDE DEF Item
<1>3. Len(rows) \in Nat
  BY SMTT(30)
<1>4. NamedRows \in Seq(Row)
  BY <1>1, <1>2, <1>3, SMTT(30)
<1>5. Len(NamedRows) = Len(rows)
  BY <1>2, <1>3, SMTT(30)
<1> QED BY <1>1, <1>2, <1>4, <1>5

\* drainUploader names in each row the blob of the layer that holds it.
LEMMA NamedRowsName ==
  ASSUME rows \in Seq(Row), results \in Seq(Result),
         \A k, l \in 1..Len(results) : k < l => results[k].to < results[l].from,
         NEW k \in 1..Len(results), NEW i \in 1..Len(rows),
         i - 1 \in results[k].from..results[k].to
  PROVE  NamedRows[i].p = results[k].digest
<1> DEFINE Holds(l) == i - 1 \in results[l].from..results[l].to
           c == CHOOSE l \in 1..Len(results) : Holds(l)
<1>1. c \in 1..Len(results) /\ Holds(c)
  OBVIOUS
<1>2. /\ results[k] \in Result /\ results[c] \in Result
  BY <1>1, SMTT(30)
<1>3. c = k
  BY <1>1, <1>2, ResultFields, SMTT(30)
<1>4. NamedRows[i] = [rows[i] EXCEPT !.p = results[c].digest]
  BY DEF NamedRows
<1>5. rows[i] \in Row
  BY SMTT(30)
<1> HIDE DEF c
<1> QED BY <1>3, <1>4, <1>5 DEF Row

\* A sequence is empty when its length is zero.
LEMMA EmptySeq ==
  ASSUME NEW S, NEW s \in Seq(S)
  PROVE  s = <<>> <=> Len(s) = 0
BY SMTT(30)

-----------------------------------------------------------------------------
(* The chunk table is the stream.                                          *)

\* The elements of a concatenation.
LEMMA Joined ==
  ASSUME NEW S, NEW s \in Seq(S), NEW t \in Seq(S)
  PROVE  /\ Len(s \o t) = Len(s) + Len(t)
         /\ \A j \in 1..Len(s) : (s \o t)[j] = s[j]
         /\ \A j \in 1..Len(t) : (s \o t)[Len(s) + j] = t[j]
  BY SMTT(30)

\* The elements of a sequence after Append.
LEMMA Appended ==
  ASSUME NEW S, NEW s \in Seq(S), NEW x
  PROVE  /\ Len(Append(s, x)) = Len(s) + 1
         /\ Append(s, x)[Len(s) + 1] = x
         /\ \A j \in 1..Len(s) : Append(s, x)[j] = s[j]
         /\ Append(s, x) # <<>>
  BY SMTT(30)

\* Reading a unit extends the stream and the chunk being cut alike.
LEMMA ReadUnitStream == ASSUME PipelineInv, ReadUnit PROVE StreamInv'
<1> DEFINE d == Len(received) - Len(buf)
<1>1. /\ received' = received \o frame /\ buf' = buf \o frame /\ rows' = rows
      /\ received \in Seq(Unit) /\ buf \in Seq(Unit) /\ frame \in Seq(Unit)
      /\ rows \in Seq(Row)
  BY DEF ReadUnit, PipelineInv, TypeOK, SessionTypeOK, BuilderTypeOK
<1>11. /\ Len(received \o frame) = Len(received) + Len(frame)
       /\ \A j \in 1..Len(received) : (received \o frame)[j] = received[j]
       /\ \A j \in 1..Len(frame) :
            (received \o frame)[Len(received) + j] = frame[j]
  BY <1>1, Joined, SMTT(30)
<1>12. /\ Len(buf \o frame) = Len(buf) + Len(frame)
       /\ \A j \in 1..Len(buf) : (buf \o frame)[j] = buf[j]
       /\ \A j \in 1..Len(frame) : (buf \o frame)[Len(buf) + j] = frame[j]
  BY <1>1, Joined, SMTT(30)
<1>2. /\ Len(received') = Len(received) + Len(frame)
      /\ Len(buf') = Len(buf) + Len(frame)
      /\ \A j \in 1..Len(received) : received'[j] = received[j]
      /\ \A j \in 1..Len(frame) : received'[Len(received) + j] = frame[j]
      /\ \A j \in 1..Len(buf) : buf'[j] = buf[j]
      /\ \A j \in 1..Len(frame) : buf'[Len(buf) + j] = frame[j]
  BY <1>1, <1>11, <1>12
<1>3. Building
  BY DEF ReadUnit, Building
<1>4. /\ Len(buf) <= Len(received) /\ d \in Nat
      /\ \A j \in 1..Len(buf) : buf[j] = received[d + j]
  BY <1>1, <1>3, SMTT(30) DEF PipelineInv, StreamInv
<1>5. Len(buf') <= Len(received') /\ Len(received') - Len(buf') = d
  BY <1>1, <1>2, <1>4, SMTT(30)
<1>6. ASSUME NEW j \in 1..Len(buf') PROVE buf'[j] = received'[d + j]
  <2>1. CASE j \in 1..Len(buf)
    BY <1>1, <1>2, <1>4, <2>1, SMTT(30)
  <2>2. CASE j \notin 1..Len(buf)
    <3>1. j - Len(buf) \in 1..Len(frame)
      BY <1>1, <1>2, <2>2, SMTT(30)
    <3>2. buf'[j] = frame[j - Len(buf)]
      BY <1>1, <1>2, <3>1, SMTT(30)
    <3>3. received'[d + j] = frame[j - Len(buf)]
      <4>1. d + j = Len(received) + (j - Len(buf))
        BY <1>1, SMTT(30)
      <4> QED BY <1>2, <3>1, <4>1
    <3> QED BY <3>2, <3>3
  <2> QED BY <2>1, <2>2
<1>7. ASSUME NEW i \in 1..Len(rows), NEW j \in 1..Len(rows[i].payload)
      PROVE  rows[i].payload[j] = received'[rows[i].at + j]
  <2>1. rows[i].at \in Nat /\ rows[i].payload \in Seq(Unit)
    <3>1. rows[i] \in Row
      BY <1>1, SMTT(30)
    <3> QED BY <3>1 DEF Row
  <2>2. /\ rows[i].payload[j] = received[rows[i].at + j]
        /\ rows[i].at + Len(rows[i].payload) <= d
    BY <1>3 DEF PipelineInv, StreamInv
  <2>3. Len(received) \in Nat /\ Len(rows[i].payload) \in Nat
    BY <1>1, <2>1, SMTT(30)
  <2>4. d <= Len(received)
    BY <1>1, SMTT(30)
  <2> HIDE DEF d
  <2>5. rows[i].at + j \in 1..Len(received)
    BY <1>4, <2>1, <2>2, <2>3, <2>4, SMTT(30)
  <2> QED BY <1>2, <2>2, <2>5
<1>8. rows = <<>> => Len(buf') = Len(received')
  BY <1>1, <1>2, <1>3 DEF PipelineInv, StreamInv
<1> QED BY <1>1, <1>3, <1>5, <1>6, <1>7, <1>8 DEF PipelineInv,
             StreamInv

\* storeChunk adds the cut chunk to the table where it starts in the stream.
LEMMA StoreChunkStream == ASSUME PipelineInv, StoreChunk PROVE StreamInv'
<1> DEFINE d == Len(received) - Len(buf)
           n == Len(rows)
           new == [at |-> d, payload |-> buf,
                   nonce |-> Stored(n, buf).nonce, p |-> NoPath]
<1>1. /\ received \in Seq(Unit) /\ buf \in Seq(Unit) /\ rows \in Seq(Row)
      /\ Len(received) \in Nat /\ Len(buf) \in Nat /\ n \in Nat
  BY SMTT(30) DEF PipelineInv, TypeOK, BuilderTypeOK
<1>2. /\ rows' = Append(rows, new) /\ received' = received /\ buf' = <<>>
      /\ new.at = d /\ new.payload = buf
  BY DEF StoreChunk, Stored
<1>3. Building /\ Len(buf) > 0
  BY <1>1, EmptySeq, SMTT(30) DEF StoreChunk, Building, PipelineInv, BuilderInv
<1>4. /\ d \in Nat /\ Len(buf) <= Len(received) /\ d + Len(buf) = Len(received)
      /\ \A j \in 1..Len(buf) : buf[j] = received[d + j]
  BY <1>1, <1>3, SMTT(30) DEF PipelineInv, StreamInv
<1> HIDE DEF new
<1>5. /\ Len(rows') = n + 1 /\ rows'[n + 1] = new
      /\ \A i \in 1..n : rows'[i] = rows[i]
      /\ rows' # <<>> /\ Len(buf') = 0
  BY <1>1, <1>2, Appended, SMTT(30)
<1>6. rows'[1].at = 0
  <2>1. CASE n = 0
    <3>1. rows = <<>>
      BY <1>1, <2>1, EmptySeq
    <3>2. d = 0
      BY <1>1, <1>3, <3>1, SMTT(30) DEF PipelineInv, StreamInv
    <3> QED BY <1>2, <1>5, <2>1, <3>2, SMTT(30)
  <2>2. CASE n # 0
    <3>1. rows # <<>> /\ rows'[1] = rows[1]
      BY <1>1, <1>5, <2>2, EmptySeq, SMTT(30)
    <3> QED BY <1>3, <3>1 DEF PipelineInv, StreamInv
  <2> QED BY <2>1, <2>2
<1>7. ASSUME NEW i \in 1..(n + 1)
      PROVE  /\ Len(rows'[i].payload) > 0
             /\ rows'[i].at + Len(rows'[i].payload) <= Len(received)
             /\ rows'[i].at + Len(rows'[i].payload) =
                  (IF i = n + 1 THEN Len(received) ELSE rows'[i + 1].at)
             /\ \A j \in 1..Len(rows'[i].payload) :
                  rows'[i].payload[j] = received[rows'[i].at + j]
  <2>1. CASE i = n + 1
    <3>1. rows'[i].payload = buf /\ rows'[i].at = d
      BY <1>2, <1>5, <2>1
    <3> HIDE DEF d, n
    <3> QED BY <1>1, <1>3, <1>4, <2>1, <3>1, SMTT(30)
  <2>2. CASE i \in 1..n
    <3>1. rows[i] \in Row
      BY <1>1, <2>2, SMTT(30)
    <3>2. rows[i].at \in Nat /\ rows[i].payload \in Seq(Unit)
      BY <3>1 DEF Row
    <3>3. Len(rows[i].payload) \in Nat
      BY <3>2, SMTT(30)
    <3>4. /\ Len(rows[i].payload) > 0
          /\ rows[i].at + Len(rows[i].payload) <= d
          /\ rows[i].at + Len(rows[i].payload) =
               (IF i = n THEN d ELSE rows[i + 1].at)
          /\ \A j \in 1..Len(rows[i].payload) :
               rows[i].payload[j] = received[rows[i].at + j]
      BY <1>3, <2>2 DEF PipelineInv, StreamInv
    <3>5. rows'[i] = rows[i] /\ i # n + 1
      BY <1>1, <1>5, <2>2, SMTT(30)
    <3>6. rows'[i + 1].at = IF i = n THEN d ELSE rows[i + 1].at
      <4>1. CASE i = n
        BY <1>2, <1>5, <4>1
      <4>2. CASE i # n
        <5>1. i + 1 \in 1..n
          BY <1>1, <2>2, <4>2, SMTT(30)
        <5> QED BY <1>5, <4>2, <5>1
      <4> QED BY <4>1, <4>2
    <3>7. rows[i].at + Len(rows[i].payload) <= Len(received)
      BY <1>1, <1>4, <3>2, <3>3, <3>4, SMTT(30)
    <3> HIDE DEF d, n
    <3> QED BY <3>4, <3>5, <3>6, <3>7
  <2>3. i = n + 1 \/ i \in 1..n
    BY <1>1, SMTT(30)
  <2> HIDE DEF d, n
  <2> QED BY <2>1, <2>2, <2>3
<1>8. Len(received) - Len(buf') = Len(received)
  BY <1>1, <1>5, SMTT(30)
<1>9. /\ Len(buf') <= Len(received')
      /\ \A j \in 1..Len(buf') :
           buf'[j] = received'[Len(received') - Len(buf') + j]
  BY <1>1, <1>2, <1>5, SMTT(30)
<1> HIDE DEF d, n
<1>10. \A i \in 1..Len(rows') :
         /\ Len(rows'[i].payload) > 0
         /\ rows'[i].at + Len(rows'[i].payload) <= Len(received') - Len(buf')
         /\ rows'[i].at + Len(rows'[i].payload) =
              (IF i = Len(rows') THEN Len(received') - Len(buf')
                                 ELSE rows'[i + 1].at)
         /\ \A j \in 1..Len(rows'[i].payload) :
              rows'[i].payload[j] = received'[rows'[i].at + j]
  <2>1. received' = received /\ Len(rows') = n + 1
        /\ Len(received') - Len(buf') = Len(received)
    BY <1>2, <1>5, <1>8
  <2> QED BY <1>7, <2>1
<1> QED BY <1>5, <1>6, <1>9, <1>10 DEF StreamInv

\* Each step keeps the table, followed by the chunk being cut, the stream.
LEMMA StreamStep == ASSUME PipelineInv, [Next]_vars PROVE StreamInv'
<1>0. StreamInv /\ rows \in Seq(Row) /\ results \in Seq(Result)
  BY DEF PipelineInv, TypeOK, BuilderTypeOK, UploaderTypeOK
<1>1. CASE UNCHANGED <<received, buf, rows>> /\ (Building' => Building)
  BY <1>0, <1>1 DEF StreamInv
<1>2. CASE Session \/ Uploader \/ Aside
  <2>1. UNCHANGED <<received, buf, rows, bpc>>
    BY <1>2, SessionFrame, UploaderFrame, AsideFrame
  <2> QED BY <1>1, <2>1 DEF Building
<1>3. CASE Advance
  BY <1>1, <1>3, AdvanceFrame, AdvanceMoves DEF Building
<1>4. CASE Roll
  BY <1>1, <1>4, RollCases DEF Building
<1>5. CASE ReadUnit
  BY <1>5, ReadUnitStream
<1>6. CASE StoreChunk
  BY <1>6, StoreChunkStream
<1>7. CASE ReadAborted \/ ChunkLost \/ Cleanup
  <2>1. ~Building'
    BY <1>7 DEF ReadAborted, ChunkLost, StoreChunkFails, Cleanup, Building
  <2> QED BY <2>1 DEF StreamInv
<1>8. CASE DrainEnd
  <2>1. CASE uploadErr
    <3>1. ~Building'
      BY <1>8, <2>1 DEF DrainEnd, Building
    <3> QED BY <3>1 DEF StreamInv
  <2>2. CASE ~uploadErr
    <3>1. rows' = NamedRows /\ UNCHANGED <<received, buf>> /\ Building
      BY <1>8, <2>2 DEF DrainEnd, Building
    <3>2. /\ rows' \in Seq(Row) /\ Len(rows') = Len(rows)
          /\ \A i \in 1..Len(rows) : /\ rows'[i].at = rows[i].at
                                     /\ rows'[i].payload = rows[i].payload
      BY <1>0, <3>1, NamedRowsKeep
    <3>3. (rows' = <<>> <=> rows = <<>>) /\ Len(rows) \in Nat
      BY <1>0, <3>2, EmptySeq, SMTT(30)
    <3>4. rows # <<>> => 1 \in 1..Len(rows)
      BY <1>0, EmptySeq, SMTT(30)
    <3>5. \A i \in 1..Len(rows) : i # Len(rows) => i + 1 \in 1..Len(rows)
      BY <3>3, SMTT(30)
    <3>6. /\ rows' # <<>> => rows'[1].at = 0
          /\ rows' = <<>> => Len(buf') = Len(received')
          /\ Len(buf') <= Len(received')
          /\ \A j \in 1..Len(buf') :
               buf'[j] = received'[Len(received') - Len(buf') + j]
      BY <1>0, <3>1, <3>2, <3>3, <3>4 DEF StreamInv
    <3>7. ASSUME NEW i \in 1..Len(rows')
          PROVE
            /\ Len(rows'[i].payload) > 0
            /\ rows'[i].at + Len(rows'[i].payload) <= Len(received') - Len(buf')
            /\ rows'[i].at + Len(rows'[i].payload) =
                 (IF i = Len(rows') THEN Len(received') - Len(buf')
                                    ELSE rows'[i + 1].at)
            /\ \A j \in 1..Len(rows'[i].payload) :
                 rows'[i].payload[j] = received'[rows'[i].at + j]
      <4>1. /\ i \in 1..Len(rows) /\ received' = received /\ buf' = buf
            /\ rows'[i].at = rows[i].at /\ rows'[i].payload = rows[i].payload
            /\ i # Len(rows) => rows'[i + 1].at = rows[i + 1].at
        BY <3>1, <3>2, <3>5
      <4>2. /\ Len(rows[i].payload) > 0
            /\ rows[i].at + Len(rows[i].payload) <= Len(received) - Len(buf)
            /\ rows[i].at + Len(rows[i].payload) =
                 (IF i = Len(rows) THEN Len(received) - Len(buf)
                                   ELSE rows[i + 1].at)
            /\ \A j \in 1..Len(rows[i].payload) :
                 rows[i].payload[j] = received[rows[i].at + j]
        BY <1>0, <3>1, <4>1 DEF StreamInv
      <4> QED BY <3>2, <4>1, <4>2
    <3> QED BY <3>6, <3>7 DEF StreamInv
  <2> QED BY <2>1, <2>2
<1>9. CASE Handoff
  BY <1>1, <1>9 DEF Handoff, Building
<1> QED BY <1>2, <1>3, <1>4, <1>5, <1>6, <1>7, <1>8, <1>9, NextCases

-----------------------------------------------------------------------------
(* Types.                                                                  *)

\* The boundary roll chooses for the next layer is a size.
LEMMA FallbackTyped == ASSUME TypeOK PROVE BoundaryAfterRoll \in Nat
<1>1. CeilDiv(Estimated - Len(received), 8) \in Int
  BY PipelineAssumption, SMTT(30) DEF CeilDiv, TypeOK, BuilderTypeOK
<1> QED BY <1>1, PipelineAssumption, SMTT(30)
        DEF BoundaryAfterRoll, FallbackBytes, TypeOK, BuilderTypeOK

\* The layer the uploader holds is a range of the chunk table.
LEMMA JobTyped ==
  ASSUME PipelineInv, job # <<>>
  PROVE  /\ Job \in Pending /\ JobDigest \in Blob
         /\ Job.index \in Nat /\ Job.from \in Nat /\ Job.to \in Nat
         /\ Job.from <= Job.to /\ Job.to < Len(rows)
<1>1. job[1] \in Pending
  BY SMTT(30) DEF PipelineInv, TypeOK, UploaderTypeOK
<1>2. nextFrom \in Nat /\ rows \in Seq(Row) /\ nextFrom <= Len(rows)
  BY DEF PipelineInv, TypeOK, BuilderTypeOK, BuilderInv
<1>3. job[1].from <= job[1].to /\ job[1].to < nextFrom
  <2>1. CASE outbox # <<>>
    <3>1. outbox[1] \in Pending
      BY <2>1, SMTT(30) DEF PipelineInv, TypeOK, BuilderTypeOK
    <3> QED BY <1>1, <1>2, <2>1, <3>1, SMTT(30) DEF PipelineInv, PendingInv, Pending
  <2>2. CASE outbox = <<>>
    BY <1>1, <1>2, <2>2, SMTT(30) DEF PipelineInv, PendingInv, Pending
  <2> QED BY <2>1, <2>2
<1>4. job[1].index \in Nat /\ job[1].from \in Nat /\ job[1].to \in Nat
  BY <1>1 DEF Pending
<1>5. job[1].to < Len(rows)
  BY <1>2, <1>3, <1>4, SMTT(30)
<1> QED BY <1>1, <1>2, <1>3, <1>4, <1>5, BlobDigestType DEF JobDigest, Job

\* Each step keeps the shape of the session's state.
LEMMA SessionTypeStep == ASSUME PipelineInv, [Next]_vars PROVE SessionTypeOK'
<1> USE DEF SessionTypeOK
<1>0. SessionTypeOK
  BY DEF PipelineInv, TypeOK
<1>1. CASE Session
  <2>1. /\ sess' \in {"open", "writing", "finish", "abort", "closed"}
        /\ wpipe' \in {"open", "eof", "aborted"}
        /\ reply' \in {"none", "BackupEnd", "Error"}
    BY <1>0, <1>1 DEF Session, StreamData, StreamWriteFails,
         StreamEnd, SessionFails, SessionReturns, AbortIngest
  <2>2. frame' = frame \/ frame' = <<>> \/ \E u \in Unit : frame' = <<u>>
    BY <1>1 DEF Session, StreamData, StreamWriteFails, StreamEnd,
         SessionFails, SessionReturns, AbortIngest
  <2>3. frame' \in Seq(Unit)
    <3>1. <<>> \in Seq(Unit) /\ \A u \in Unit : <<u>> \in Seq(Unit)
      BY SMTT(30)
    <3> QED BY <1>0, <2>2, <3>1
  <2> QED BY <1>0, <1>1, <2>1, <2>3, SessionFrame
<1>2. CASE Advance
  BY <1>0, <1>2, AdvanceFrame
<1>3. CASE ReadUnit
  <2>1. sess' = "open" /\ frame' = <<>> /\ UNCHANGED <<wpipe, reply, ctxDone>>
    BY <1>3 DEF ReadUnit
  <2>2. <<>> \in Seq(Unit)
    BY SMTT(30)
  <2> QED BY <1>0, <2>1, <2>2
<1>4. CASE \/ ReadAborted \/ StoreChunk \/ ChunkLost \/ DrainEnd \/ Cleanup
           \/ Handoff
  BY <1>0, <1>4 DEF ReadAborted, StoreChunk, ChunkLost, StoreChunkFails,
       DrainEnd, Cleanup, Handoff
<1>5. CASE Roll
  BY <1>0, <1>5, RollCases
<1>6. CASE Uploader
  BY <1>0, <1>6, UploaderFrame
<1>7. CASE Aside
  <2>1. ctxDone' \in BOOLEAN
    BY <1>0, <1>7 DEF Aside, Scanner, ScanStops, ScanEnds,
         CancelContext, Terminated, vars
  <2> QED BY <1>0, <1>7, <2>1, AsideFrame
<1> QED BY <1>1, <1>2, <1>3, <1>4, <1>5, <1>6, <1>7, NextCases

\* Each step keeps the shape of the builder's state.
LEMMA BuilderTypeStep == ASSUME PipelineInv, [Next]_vars PROVE BuilderTypeOK'
<1> USE DEF BuilderTypeOK
<1>0. BuilderTypeOK
  BY DEF PipelineInv, TypeOK
<1>1. CASE Session
  BY <1>0, <1>1, SessionFrame
<1>2. CASE Advance
  <2>1. last' \in BOOLEAN /\ closing' \in BOOLEAN
    BY <1>0, <1>2 DEF Advance, CheckFailure, ReadEOF, RollReturns,
         DrainStart, ScanOutcome, PublishOk, PublishFails, AbortScan,
         AbortUploader, AbortReturns, ClosePipe
  <2>2. bpc' \in {"read", "abort", "store", "roll", "drain", "check", "drained",
                  "publish", "close", "abortscan", "abortwait", "cleanup"}
    BY <1>2, AdvanceMoves
  <2> QED BY <1>0, <1>2, <2>1, <2>2, AdvanceFrame
<1>3. CASE ReadUnit
  <2>1. received \o frame \in Seq(Unit) /\ buf \o frame \in Seq(Unit)
    BY <1>0, SMTT(30) DEF PipelineInv, TypeOK, SessionTypeOK
  <2>2. /\ received' = received \o frame /\ buf' = buf \o frame
        /\ bpc' \in {"store", "read"}
        /\ UNCHANGED <<spool, rows, nextFrom, layerCount, closeAt, rollVars>>
    BY <1>3 DEF ReadUnit
  <2> QED BY <1>0, <2>1, <2>2
<1>4. CASE ReadAborted
  <2>1. bpc' = "abort" /\ buf' = <<>> /\ UNCHANGED <<received, spool, rows,
          nextFrom, layerCount, closeAt, rollVars>>
    BY <1>4 DEF ReadAborted
  <2>2. <<>> \in Seq(Unit)
    BY SMTT(30)
  <2> QED BY <1>0, <2>1, <2>2
<1>5. CASE StoreChunk
  <2> DEFINE row == [at |-> Len(received) - Len(buf), payload |-> buf,
                     nonce |-> Stored(Len(rows), buf).nonce, p |-> NoPath]
  <2>1. row \in Row
    <3>1. Stored(Len(rows), buf).nonce \in Nat
      BY <1>0, SMTT(30) DEF Stored
    <3>2. Len(received) - Len(buf) \in Nat
      BY <1>0, <1>5, SMTT(30) DEF StoreChunk, PipelineInv, StreamInv, Building
    <3>3. NoPath \in Seq([payload : Seq(Unit), nonce : Nat])
      BY SMTT(30) DEF NoPath
    <3> QED BY <1>0, <3>1, <3>2, <3>3 DEF Row
  <2>2. Append(rows, row) \in Seq(Row) /\ <<>> \in Seq(Unit)
    BY <1>0, <2>1, SMTT(30)
  <2>3. /\ rows' = Append(rows, row) /\ buf' = <<>>
        /\ bpc' \in {"abort", "roll", "check"}
        /\ spool' = [open |-> TRUE, size |-> spool.size + Len(buf)]
        /\ UNCHANGED <<received, nextFrom, layerCount, closeAt, rollVars>>
    BY <1>5 DEF StoreChunk, Stored
  <2>4. spool' \in [open : BOOLEAN, size : Nat]
    BY <1>0, <2>3, SMTT(30)
  <2> QED BY <1>0, <2>2, <2>3, <2>4
<1>6. CASE ChunkLost
  <2>1. /\ spool' = spool \/ spool' = [spool EXCEPT !.open = TRUE]
        /\ buf' = <<>> /\ bpc' = "abort"
        /\ UNCHANGED <<received, rows, nextFrom, layerCount, closeAt, rollVars>>
    BY <1>6 DEF ChunkLost, StoreChunkFails
  <2>2. [spool EXCEPT !.open = TRUE] \in [open : BOOLEAN, size : Nat]
    BY <1>0
  <2>3. spool' \in [open : BOOLEAN, size : Nat]
    BY <1>0, <2>1, <2>2
  <2>4. <<>> \in Seq(Unit)
    BY SMTT(30)
  <2> QED BY <1>0, <2>1, <2>3, <2>4
<1>7. CASE Roll
  <2>1. CASE outbox' = <<PendingLayer>> /\ spool.open
    <3>1. PendingLayer \in Pending
      BY <1>0, <1>7, <2>1, RollCases, SMTT(30)
      DEF PendingLayer, Pending, PipelineInv, BuilderInv, Building
    <3>2. <<PendingLayer>> \in Seq(Pending)
      BY <3>1, SMTT(30)
    <3>3. /\ spool' \in [open : BOOLEAN, size : Nat] /\ nextFrom' \in Nat
          /\ layerCount' \in Nat /\ bpc' \in {"send", "abort", "drain"}
      <4>1. [open |-> FALSE, size |-> 0] \in [open : BOOLEAN, size : Nat]
        OBVIOUS
      <4>2. Len(rows) \in Nat /\ layerCount + 1 \in Nat
        BY <1>0, SMTT(30)
      <4> QED BY <1>0, <1>7, <4>1, <4>2, RollCases
    <3> QED BY <1>0, <1>7, <2>1, <3>2, <3>3, RollCases
  <2>2. CASE UNCHANGED <<spool, nextFrom, layerCount, outbox>>
    BY <1>0, <1>7, <2>2, RollCases
  <2> QED BY <1>7, <2>1, <2>2, RollCases
<1>8. CASE DrainEnd
  <2>1. results \in Seq(Result)
    BY DEF PipelineInv, TypeOK, UploaderTypeOK
  <2>2. NamedRows \in Seq(Row)
    BY <1>0, <2>1, NamedRowsKeep
  <2>3. /\ rows' \in {rows, NamedRows} /\ layers' \in {layers, results}
        /\ bpc' \in {"abort", "scanwait"}
        /\ UNCHANGED <<received, buf, spool, nextFrom, layerCount, closeAt,
                       last, outbox, closing>>
    BY <1>8 DEF DrainEnd
  <2> QED BY <1>0, <2>1, <2>2, <2>3
<1>9. CASE Cleanup
  BY <1>0, <1>9 DEF Cleanup
<1>10. CASE Handoff
  <2>1. BoundaryAfterRoll \in Nat /\ <<>> \in Seq(Pending)
    BY FallbackTyped, SMTT(30) DEF PipelineInv
  <2>2. /\ outbox' = <<>> /\ bpc' = "rolled" /\ closeAt' = BoundaryAfterRoll
        /\ UNCHANGED <<received, buf, spool, rows, nextFrom, layerCount, last,
                       closing, layers>>
    BY <1>10 DEF Handoff
  <2> QED BY <1>0, <2>1, <2>2
<1>11. CASE Uploader
  BY <1>0, <1>11, UploaderFrame
<1>12. CASE Aside
  BY <1>0, <1>12, AsideFrame
<1> QED BY <1>1, <1>2, <1>3, <1>4, <1>5, <1>6, <1>7, <1>8, <1>9, <1>10,
           <1>11, <1>12, NextCases

\* Each step keeps the shape of the uploader's state.
LEMMA UploaderTypeStep == ASSUME PipelineInv, [Next]_vars PROVE UploaderTypeOK'
<1> USE DEF UploaderTypeOK
<1>0. UploaderTypeOK /\ layerCount \in Nat /\ ChannelInv
  BY DEF PipelineInv, TypeOK, BuilderTypeOK
<1>1. CASE Session
  BY <1>0, <1>1, SessionFrame
<1>2. CASE Advance
  BY <1>0, <1>2, AdvanceFrame
<1>3. CASE ReadUnit \/ ReadAborted \/ DrainEnd
  <2>1. UNCHANGED <<uploadVars, disk>>
    <3>1. CASE ReadUnit
      BY <3>1 DEF ReadUnit
    <3>2. CASE ReadAborted
      BY <3>2 DEF ReadAborted
    <3>3. CASE DrainEnd
      BY <3>3 DEF DrainEnd
    <3> QED BY <1>3, <3>1, <3>2, <3>3
  <2> QED BY <1>0, <2>1
<1>4. CASE Roll
  BY <1>0, <1>4, RollCases
<1>5. CASE StoreChunk \/ ChunkLost \/ Cleanup
  <2>1. SpoolFile(layerCount) \in {"spool", "layer"} \X Nat
    BY <1>0 DEF SpoolFile
  <2>2. /\ disk' \subseteq disk \cup {SpoolFile(layerCount)}
        /\ UNCHANGED uploadVars
    BY <1>5 DEF StoreChunk, ChunkLost, StoreChunkFails, Cleanup
  <2> QED BY <1>0, <2>1, <2>2
<1>6. CASE Handoff
  BY <1>0, <1>6 DEF Handoff, PipelineInv, TypeOK, BuilderTypeOK
<1>7. CASE Uploader
  <2>1. CASE UploaderExit
    BY <1>0, <2>1 DEF UploaderExit
  <2>2. CASE ~UploaderExit
    <3>1. job # <<>>
      BY <1>0, <1>7, <2>2 DEF Uploader, UploaderCheck, BuildLayer, HeadLayer,
           PutLayer, LayerFails, ChannelInv
    <3> DEFINE new == [index |-> Job.index, from |-> Job.from, to |-> Job.to,
                       digest |-> JobDigest]
    <3>2. /\ JobDigest \in Blob /\ new \in Result
          /\ LayerFile(Job.index) \in {"spool", "layer"} \X Nat
      BY <3>1, JobTyped DEF LayerFile, Result
    <3>3. /\ upc' \in {"recv", "build", "head", "put"} /\ uploadErr' \in BOOLEAN
          /\ job' = job \/ job' = <<>>
          /\ registry' \subseteq registry \cup {JobDigest}
          /\ disk' \subseteq disk \cup {LayerFile(Job.index)}
          /\ results' = results \/ results' = Append(results, new)
      BY <1>0, <1>7, <2>2 DEF Uploader, UploaderCheck, BuildLayer,
           HeadLayer, PutLayer, LayerDone, LayerFails
    <3> HIDE DEF new
    <3>4. Append(results, new) \in Seq(Result)
      BY <1>0, <3>2, SMTT(30)
    <3>5. results' \in Seq(Result)
      BY <1>0, <3>3, <3>4
    <3>6. job' \in Seq(Pending)
      <4>1. job \in Seq(Pending) /\ <<>> \in Seq(Pending)
        BY <1>0, SMTT(30)
      <4>2. job' = job \/ job' = <<>>
        BY <3>3
      <4> QED BY <4>1, <4>2
    <3> QED BY <1>0, <3>2, <3>3, <3>5, <3>6
  <2> QED BY <2>1, <2>2
<1>8. CASE Aside
  BY <1>0, <1>8, AsideFrame
<1> QED BY <1>1, <1>2, <1>3, <1>4, <1>5, <1>6, <1>7, <1>8, NextCases

\* Each step keeps the shape of the scan, the reference and the outcome.
LEMMA EndTypeStep == ASSUME PipelineInv, [Next]_vars PROVE EndTypeOK'
<1>0. EndTypeOK
  BY DEF PipelineInv, TypeOK
<1>01. ASSUME UNCHANGED <<scanVars, endVars>> PROVE EndTypeOK'
  BY <1>0, <1>01 DEF EndTypeOK
<1>1. CASE Session
  <2>1. UNCHANGED <<scanVars, endVars>>
    BY <1>1, SessionFrame
  <2> QED BY <1>01, <2>1
<1>2. CASE Advance
  <2>1. Image \in Published
    BY DEF Image, Published, PipelineInv, TypeOK, BuilderTypeOK
  <2>2. /\ tag' \in {tag, Image} /\ outcome' \in {outcome, "ok", "err"}
        /\ rpipe' \in {rpipe, "closed"} /\ scanClosed' \in {scanClosed, TRUE}
    BY <1>2 DEF Advance, CheckFailure, ReadEOF, RollReturns,
         DrainStart, ScanOutcome, PublishOk, PublishFails, AbortScan,
         AbortUploader, AbortReturns, ClosePipe
  <2>3. UNCHANGED <<scan, scanErr>>
    BY <1>2, AdvanceFrame
  <2> QED BY <1>0, <2>1, <2>2, <2>3 DEF EndTypeOK
<1>3. CASE \/ ReadUnit \/ ReadAborted \/ StoreChunk \/ ChunkLost \/ DrainEnd
           \/ Cleanup \/ Handoff
  <2>1. scanClosed' = scanClosed \/ scanClosed' = TRUE
    <3>1. CASE DrainEnd
      BY <3>1 DEF DrainEnd
    <3>2. CASE ReadUnit \/ ReadAborted \/ Cleanup \/ Handoff
      BY <3>2 DEF ReadUnit, ReadAborted, Cleanup, Handoff
    <3>3. CASE StoreChunk \/ ChunkLost
      BY <3>3 DEF StoreChunk, ChunkLost, StoreChunkFails
    <3> QED BY <1>3, <3>1, <3>2, <3>3
  <2>2. UNCHANGED <<endVars, scan, scanErr>>
    BY <1>3, ChunkFrame
  <2> QED BY <1>0, <2>1, <2>2 DEF EndTypeOK
<1>4. CASE Roll
  <2>1. UNCHANGED <<scanVars, endVars>>
    BY <1>4, RollCases
  <2> QED BY <1>01, <2>1
<1>5. CASE Uploader
  <2>1. UNCHANGED <<scanVars, endVars>>
    BY <1>5, UploaderFrame
  <2> QED BY <1>01, <2>1
<1>6. CASE Aside
  <2>1. scan' \in {scan, "drain", "done"} /\ scanErr' \in {scanErr} \cup BOOLEAN
    BY <1>6 DEF Aside, Scanner, ScanStops, ScanEnds,
         CancelContext, Terminated, vars
  <2>2. UNCHANGED <<scanClosed, endVars>>
    BY <1>6, AsideFrame
  <2> QED BY <1>0, <2>1, <2>2 DEF EndTypeOK
<1> QED BY <1>1, <1>2, <1>3, <1>4, <1>5, <1>6, NextCases

\* Each step keeps the shape stream.go declares.
LEMMA TypeStep == ASSUME PipelineInv, [Next]_vars PROVE TypeOK'
BY SessionTypeStep, BuilderTypeStep, UploaderTypeStep, EndTypeStep
     DEF TypeOK

-----------------------------------------------------------------------------
(* Control: the session, the builder and the channel to the uploader.      *)

\* Each step keeps what the session and its pipe say of each other.
LEMMA SessionStep == ASSUME PipelineInv, [Next]_vars PROVE SessionInv'
<1> USE DEF SessionInv
<1>0. SessionInv
  BY DEF PipelineInv
<1>1. CASE Session
  BY <1>0, <1>1 DEF Session, StreamData, StreamWriteFails, StreamEnd,
       SessionFails, SessionReturns, AbortIngest
<1>2. CASE Advance
  BY <1>0, <1>2, AdvanceFrame, AdvanceMoves
<1>3. CASE ReadUnit
  BY <1>0, <1>3 DEF ReadUnit
<1>4. CASE ReadAborted \/ StoreChunk \/ ChunkLost \/ DrainEnd \/ Cleanup
  BY <1>0, <1>4 DEF ReadAborted, StoreChunk, ChunkLost, StoreChunkFails,
       DrainEnd, Cleanup
<1>5. CASE Roll
  BY <1>0, <1>5, RollCases
<1>6. CASE Handoff
  BY <1>0, <1>6 DEF Handoff
<1>7. CASE Uploader
  BY <1>0, <1>7, UploaderFrame
<1>8. CASE Aside
  BY <1>0, <1>8, AsideFrame
<1> QED BY <1>1, <1>2, <1>3, <1>4, <1>5, <1>6, <1>7, <1>8, NextCases

\* Each step keeps what the control point of run says of buffer and spool.
LEMMA BuilderStep == ASSUME PipelineInv, [Next]_vars PROVE BuilderInv'
<1> USE DEF BuilderInv, Building, Drained
<1>0. /\ BuilderInv /\ SessionInv
      /\ nextFrom \in Nat /\ Len(rows) \in Nat /\ last \in BOOLEAN
      /\ rows \in Seq(Row) /\ spool \in [open : BOOLEAN, size : Nat]
  BY SMTT(30) DEF PipelineInv, TypeOK, BuilderTypeOK
<1>1. CASE Session
  <2>1. /\ UNCHANGED <<bpc, chunkVars, rollVars>>
        /\ wpipe = "eof" => UNCHANGED <<frame, wpipe>>
    BY <1>0, <1>1 DEF Session, StreamData, StreamWriteFails,
         StreamEnd, SessionFails, SessionReturns, AbortIngest, SessionInv
  <2> QED BY <1>0, <2>1
<1>2. CASE Advance
  BY <1>0, <1>2, AdvanceFrame, AdvanceMoves, SMTT(30)
<1>3. CASE ReadUnit
  <2>1. buf \o frame # <<>>
    BY <1>3, SMTT(30) DEF ReadUnit, PipelineInv, TypeOK, BuilderTypeOK, SessionTypeOK
  <2>2. /\ bpc = "read" /\ bpc' \in {"store", "read"} /\ buf' = buf \o frame
        /\ UNCHANGED <<spool, rows, nextFrom, last>>
    BY <1>3 DEF ReadUnit
  <2> QED BY <1>0, <2>1, <2>2
<1>4. CASE ReadAborted \/ ChunkLost
  BY <1>0, <1>4, SMTT(30) DEF ReadAborted, ChunkLost, StoreChunkFails
<1>5. CASE StoreChunk
  <2>1. /\ bpc = "store" /\ bpc' \in {"abort", "roll", "check"}
        /\ buf' = <<>> /\ spool'.open /\ UNCHANGED <<nextFrom, last>>
        /\ \E row : rows' = Append(rows, row)
    BY <1>5 DEF StoreChunk
  <2>2. Len(rows') = Len(rows) + 1
    BY <1>0, <2>1, SMTT(30)
  <2>3. nextFrom < Len(rows')
    BY <1>0, <2>2, SMTT(30)
  <2> QED BY <1>0, <2>1, <2>2, <2>3, SMTT(30)
<1>6. CASE Roll
  BY <1>0, <1>6, RollCases, SMTT(30)
<1>7. CASE DrainEnd
  <2>1. Len(rows') = Len(rows)
    BY <1>7, NamedRowsKeep DEF DrainEnd, PipelineInv, TypeOK,
         BuilderTypeOK, UploaderTypeOK
  <2> QED BY <1>0, <1>7, <2>1 DEF DrainEnd
<1>8. CASE Cleanup
  BY <1>0, <1>8 DEF Cleanup
<1>9. CASE Handoff
  BY <1>0, <1>9 DEF Handoff
<1>10. CASE Uploader
  BY <1>0, <1>10, UploaderFrame, SMTT(30)
<1>11. CASE Aside
  BY <1>0, <1>11, AsideFrame, SMTT(30)
<1> QED BY <1>1, <1>2, <1>3, <1>4, <1>5, <1>6, <1>7, <1>8, <1>9, <1>10,
           <1>11, NextCases

\* Each step keeps the hand-off to the uploader: at most one layer waits in
\* roll and one is being uploaded.
LEMMA ChannelStep == ASSUME PipelineInv, [Next]_vars PROVE ChannelInv'
<1> USE DEF ChannelInv
<1>0. ChannelInv /\ EndInv
  BY DEF PipelineInv
<1>1. CASE Session
  BY <1>0, <1>1, SessionFrame, SMTT(30)
<1>2. CASE Advance
  <2>1. /\ UNCHANGED <<outbox, job, upc>> /\ bpc # "send" /\ bpc' # "send"
    BY <1>2, AdvanceFrame, AdvanceMoves
  <2>2. \/ closing' = closing
        \/ closing' = TRUE /\ bpc' \in {"drained", "abortwait"}
    BY <1>2 DEF Advance, CheckFailure, ReadEOF, RollReturns,
         DrainStart, ScanOutcome, PublishOk, PublishFails, AbortScan,
         AbortUploader, AbortReturns, ClosePipe
  <2> QED BY <1>0, <1>2, <2>1, <2>2, AdvanceMoves, SMTT(30)
<1>3. CASE ReadUnit \/ ReadAborted \/ StoreChunk \/ ChunkLost
  <2>1. bpc \in {"read", "store"}
    BY <1>3 DEF ReadUnit, ReadAborted, StoreChunk, ChunkLost, StoreChunkFails
  <2> QED BY <1>0, <1>3, <2>1, ChunkFrame, SMTT(30)
<1>4. CASE Roll
  <2>1. CASE outbox' = <<PendingLayer>> /\ bpc' = "send"
    <3>1. outbox' # <<>> /\ Len(outbox') = 1
      BY <2>1
    <3> QED BY <1>0, <1>4, <2>1, <3>1, RollCases, SMTT(30)
  <2>2. CASE outbox' = outbox /\ bpc' \in {"abort", "drain"}
    BY <1>0, <1>4, <2>2, RollCases, SMTT(30)
  <2> QED BY <1>4, <2>1, <2>2, RollCases
<1>5. CASE DrainEnd \/ Cleanup
  BY <1>0, <1>5 DEF DrainEnd, Cleanup
<1>6. CASE Handoff
  BY <1>0, <1>6 DEF Handoff
<1>7. CASE Uploader
  <2>1. \/ job' = job /\ (upc \in {"check", "build", "head", "put"} <=>
                            upc' \in {"check", "build", "head", "put"})
        \/ job' = <<>> /\ upc' = "recv"
    <3>1. CASE UploaderCheck \/ BuildLayer
      BY <3>1 DEF UploaderCheck, BuildLayer
    <3>2. CASE HeadLayer \/ PutLayer
      BY <3>2 DEF HeadLayer, PutLayer, LayerDone
    <3>3. CASE \E stored \in BOOLEAN : LayerFails(stored)
      BY <3>3 DEF LayerFails
    <3>4. CASE UploaderExit
      BY <3>4 DEF UploaderExit
    <3> QED BY <1>7, <3>1, <3>2, <3>3, <3>4 DEF Uploader
  <2> QED BY <1>0, <1>7, <2>1, UploaderFrame, SMTT(30)
<1>8. CASE Aside
  BY <1>0, <1>8, AsideFrame, SMTT(30)
<1> QED BY <1>1, <1>2, <1>3, <1>4, <1>5, <1>6, <1>7, <1>8, NextCases

\* Each step keeps what publish may rely on: the uploader has ended without
\* failure and the scan has succeeded.
LEMMA EndStep == ASSUME PipelineInv, [Next]_vars PROVE EndInv'
<1> USE DEF EndInv
<1>0. EndInv /\ ChannelInv
  BY DEF PipelineInv
<1>1. CASE Session
  BY <1>0, <1>1, SessionFrame, SMTT(30)
<1>2. CASE Advance
  <2>1. UNCHANGED <<rows, scan, scanErr, upc, uploadErr>>
    BY <1>2, AdvanceFrame
  <2>2. CASE \/ CheckFailure \/ ReadEOF \/ RollReturns \/ DrainStart
             \/ AbortScan \/ AbortUploader
    <3>1. /\ bpc' \notin {"scanwait", "publish", "close", "cleanup", "done"}
          /\ closing => closing'
      BY <2>2, SMTT(30) DEF CheckFailure, ReadEOF, RollReturns, DrainStart,
           AbortScan, AbortUploader
    <3> QED BY <1>0, <2>1, <3>1
  <2>3. CASE ScanOutcome
    BY <1>0, <2>1, <2>3, SMTT(30) DEF ScanOutcome
  <2>4. CASE \/ PublishOk \/ (\E tagged \in BOOLEAN : PublishFails(tagged))
             \/ AbortReturns \/ ClosePipe
    <3>1. /\ bpc \in {"publish", "close"} \/ upc = "exit"
          /\ bpc' \in {"close", "cleanup"} /\ closing' = closing
      BY <2>4 DEF PublishOk, PublishFails, AbortReturns, ClosePipe
    <3> QED BY <1>0, <2>1, <3>1
  <2> QED BY <1>2, <2>2, <2>3, <2>4 DEF Advance
<1>3. CASE ReadUnit \/ ReadAborted \/ StoreChunk \/ ChunkLost
  <2>1. bpc \in {"read", "store"}
    BY <1>3 DEF ReadUnit, ReadAborted, StoreChunk, ChunkLost, StoreChunkFails
  <2> QED BY <1>0, <1>3, <2>1, ChunkFrame
<1>4. CASE Roll
  BY <1>0, <1>4, RollCases
<1>5. CASE DrainEnd \/ Cleanup
  BY <1>0, <1>5, SMTT(30) DEF DrainEnd, Cleanup
<1>6. CASE Handoff
  BY <1>0, <1>6 DEF Handoff
<1>7. CASE Uploader
  <2>1. \/ upc' # "exit" /\ upc # "exit"
        \/ upc' = "exit" /\ closing /\ uploadErr' = uploadErr
    <3>1. CASE UploaderCheck \/ BuildLayer
      BY <3>1 DEF UploaderCheck, BuildLayer
    <3>2. CASE HeadLayer \/ PutLayer
      BY <3>2 DEF HeadLayer, PutLayer, LayerDone
    <3>3. CASE \E stored \in BOOLEAN : LayerFails(stored)
      BY <3>3 DEF LayerFails
    <3>4. CASE UploaderExit
      BY <3>4 DEF UploaderExit
    <3> QED BY <1>7, <3>1, <3>2, <3>3, <3>4 DEF Uploader
  <2> QED BY <1>0, <1>7, <2>1, UploaderFrame, SMTT(30)
<1>8. CASE Aside
  <2>1. (scan' = scan /\ scanErr' = scanErr) \/ scan # "done"
    BY <1>8 DEF Aside, Scanner, ScanStops, ScanEnds, CancelContext,
         Terminated, vars
  <2>2. UNCHANGED <<bpc, rows, closing, upc, uploadErr>>
    BY <1>8, AsideFrame
  <2> QED BY <1>0, <2>1, <2>2, SMTT(30)
<1> QED BY <1>1, <1>2, <1>3, <1>4, <1>5, <1>6, <1>7, <1>8, NextCases

-----------------------------------------------------------------------------
(* The layers on their way, the layer budget and the work directory.       *)

\* Each step keeps the order of the ranges in roll and at the uploader.
LEMMA PendingStep == ASSUME PipelineInv, [Next]_vars PROVE PendingInv'
<1> USE DEF PendingInv
<1>0. /\ PendingInv /\ ChannelInv
      /\ layerCount \in Nat /\ nextFrom \in Nat /\ Len(rows) \in Nat
  BY SMTT(30) DEF PipelineInv, TypeOK, BuilderTypeOK
<1>1. CASE Session
  BY <1>0, <1>1, SessionFrame
<1>2. CASE Advance
  BY <1>0, <1>2, AdvanceFrame
<1>3. CASE ReadUnit \/ ReadAborted \/ StoreChunk \/ ChunkLost \/ DrainEnd
           \/ Cleanup
  BY <1>0, <1>3 DEF ReadUnit, ReadAborted, StoreChunk, ChunkLost,
       StoreChunkFails, DrainEnd, Cleanup
<1>4. CASE Roll
  <2>1. CASE /\ outbox' = <<PendingLayer>> /\ spool.open
             /\ nextFrom' = Len(rows) /\ layerCount' = layerCount + 1
    <3>1. outbox = <<>> /\ job' = job
      BY <1>0, <1>4, RollCases DEF ChannelInv
    <3>2. nextFrom < Len(rows)
      BY <1>4, <2>1, RollCases DEF PipelineInv, BuilderInv, Building
    <3>3. /\ outbox'[1].index = layerCount /\ outbox'[1].from = nextFrom
          /\ outbox'[1].to = Len(rows) - 1
          /\ outbox' # <<>> /\ Len(outbox') = 1 /\ Len(outbox) = 0
      BY <2>1, <3>1 DEF PendingLayer
    <3> QED BY <1>0, <2>1, <3>1, <3>2, <3>3, SMTT(30)
  <2>2. CASE UNCHANGED <<nextFrom, layerCount, outbox>>
    BY <1>0, <1>4, <2>2, RollCases
  <2> QED BY <1>4, <2>1, <2>2, RollCases
<1>5. CASE Handoff
  <2>1. /\ job' = outbox /\ outbox' = <<>> /\ Len(outbox') = 0
        /\ UNCHANGED <<layerCount, nextFrom>>
    BY <1>5 DEF Handoff
  <2> QED BY <1>0, <2>1, SMTT(30)
<1>6. CASE Uploader
  <2>1. job' = job \/ job' = <<>>
    BY <1>6 DEF Uploader, UploaderCheck, BuildLayer, HeadLayer,
         PutLayer, LayerDone, LayerFails, UploaderExit
  <2>2. UNCHANGED <<outbox, layerCount, nextFrom>>
    BY <1>6, UploaderFrame
  <2> QED BY <1>0, <2>1, <2>2
<1>7. CASE Aside
  BY <1>0, <1>7, AsideFrame
<1> QED BY <1>1, <1>2, <1>3, <1>4, <1>5, <1>6, <1>7, NextCases

\* Each step keeps the reserve of shouldRoll within the layer budget.
LEMMA BudgetStep == ASSUME PipelineInv, [Next]_vars PROVE BudgetInv'
<1> USE DEF BudgetInv
<1>0. /\ BudgetInv /\ layerCount \in Nat /\ last \in BOOLEAN
      /\ MaxDataLayers \in Nat
      /\ last => bpc \notin {"check", "read", "store"}
  BY PipelineAssumption DEF PipelineInv, TypeOK, BuilderTypeOK,
       BuilderInv
<1>1. CASE Session
  BY <1>0, <1>1, SessionFrame, SMTT(30)
<1>2. CASE Advance
  <2>1. CASE bpc = "rolled"
    BY <1>0, <1>2, <2>1, AdvanceFrame, AdvanceMoves
  <2>2. CASE bpc # "rolled"
    BY <1>0, <1>2, <2>2, AdvanceFrame, AdvanceMoves
  <2> QED BY <2>1, <2>2
<1>3. CASE ReadUnit \/ ReadAborted \/ ChunkLost \/ DrainEnd \/ Cleanup
  <2>1. bpc # "send" /\ bpc' # "roll"
    BY <1>3 DEF ReadUnit, ReadAborted, ChunkLost, StoreChunkFails, DrainEnd,
         Cleanup
  <2> QED BY <1>0, <1>3, <2>1, ChunkFrame
<1>4. CASE StoreChunk
  <2>1. /\ bpc = "store" /\ UNCHANGED <<layerCount, last>>
        /\ \/ bpc' = "roll" /\ layerCount < MaxDataLayers - 1
           \/ bpc' \in {"abort", "check"}
    BY <1>4 DEF StoreChunk, ShouldRoll
  <2> QED BY <1>0, <2>1
<1>5. CASE Roll
  BY <1>0, <1>5, RollCases, SMTT(30)
<1>6. CASE Handoff
  BY <1>0, <1>6 DEF Handoff
<1>7. CASE Uploader
  BY <1>0, <1>7, UploaderFrame, SMTT(30)
<1>8. CASE Aside
  BY <1>0, <1>8, AsideFrame, SMTT(30)
<1> QED BY <1>1, <1>2, <1>3, <1>4, <1>5, <1>6, <1>7, <1>8, NextCases

\* Each step keeps every file of the work directory owned by somebody.
LEMMA DiskStep == ASSUME PipelineInv, [Next]_vars PROVE DiskInv'
<1> USE DEF DiskInv
<1>0. DiskInv /\ ChannelInv
  BY DEF PipelineInv
<1>1. CASE Session
  BY <1>0, <1>1, SessionFrame
<1>2. CASE Advance
  BY <1>0, <1>2, AdvanceFrame
<1>3. CASE ReadUnit \/ ReadAborted \/ DrainEnd
  <2>1. UNCHANGED <<disk, layerCount, spool, outbox, job, upc>>
    <3>1. CASE ReadUnit
      BY <3>1 DEF ReadUnit
    <3>2. CASE ReadAborted
      BY <3>2 DEF ReadAborted
    <3>3. CASE DrainEnd
      BY <3>3 DEF DrainEnd
    <3> QED BY <1>3, <3>1, <3>2, <3>3
  <2> QED BY <1>0, <2>1
<1>4. CASE StoreChunk
  <2>1. /\ spool'.open /\ disk' = disk \cup {SpoolFile(layerCount)}
        /\ UNCHANGED <<layerCount, outbox, job, upc>>
    BY <1>4 DEF StoreChunk
  <2> QED BY <1>0, <2>1
<1>5. CASE ChunkLost
  <2>1. spool \in [open : BOOLEAN, size : Nat]
    BY DEF PipelineInv, TypeOK, BuilderTypeOK
  <2>2. /\ UNCHANGED <<layerCount, outbox, job, upc>>
        /\ \/ UNCHANGED <<disk, spool>>
           \/ spool'.open /\ disk' = disk \cup {SpoolFile(layerCount)}
    BY <1>5, <2>1 DEF ChunkLost, StoreChunkFails
  <2> QED BY <1>0, <2>2
<1>6. CASE Roll
  <2>1. CASE outbox' = <<PendingLayer>> /\ spool.open
    <3>1. outbox = <<>> /\ outbox' # <<>> /\ outbox'[1].index = layerCount
      <4>1. bpc = "roll"
        BY <1>6, RollCases
      <4> QED BY <1>0, <2>1, <4>1 DEF ChannelInv, PendingLayer
    <3>2. UNCHANGED <<job, upc, disk>>
      BY <1>6, RollCases
    <3> QED BY <1>0, <2>1, <3>1, <3>2
  <2>2. CASE UNCHANGED <<spool, layerCount, outbox>>
    BY <1>0, <1>6, <2>2, RollCases
  <2> QED BY <1>6, <2>1, <2>2, RollCases
<1>7. CASE Cleanup
  BY <1>0, <1>7 DEF Cleanup
<1>8. CASE Handoff
  <2>1. /\ job = <<>> /\ job' = outbox /\ outbox' = <<>>
        /\ UNCHANGED <<disk, spool, layerCount>>
    BY <1>0, <1>8 DEF Handoff, ChannelInv
  <2> QED BY <1>0, <2>1
<1>9. CASE Uploader
  <2>1. CASE upc \in {"check", "build", "head", "put"} /\ job' = <<>>
    <3>1. /\ disk' = disk \ {SpoolFile(job[1].index)} /\ upc = "check"
          \/ disk' = disk \ {SpoolFile(job[1].index), LayerFile(job[1].index)}
      BY <1>9, <2>1, <1>0 DEF Uploader, UploaderCheck, BuildLayer,
           HeadLayer, PutLayer, LayerDone, LayerFails, UploaderExit, Job,
           JobFiles, ChannelInv
    <3> QED BY <1>0, <1>9, <2>1, <3>1, UploaderFrame
  <2>2. CASE job' = job
    <3>1. \/ /\ disk' = disk
             /\ upc \in {"head", "put"} => upc' \in {"head", "put"}
          \/ /\ disk' = disk \cup {LayerFile(job[1].index)} /\ upc' = "head"
             /\ job # <<>>
      BY <1>0, <1>9, <2>2 DEF Uploader, UploaderCheck, BuildLayer,
           HeadLayer, PutLayer, LayerDone, LayerFails, UploaderExit, Job,
           ChannelInv
    <3> QED BY <1>0, <1>9, <2>2, <3>1, UploaderFrame
  <2> QED BY <1>0, <1>9, <2>1, <2>2 DEF Uploader, UploaderCheck,
               BuildLayer, HeadLayer, PutLayer, LayerDone, LayerFails,
               UploaderExit, ChannelInv
<1>10. CASE Aside
  BY <1>0, <1>10, AsideFrame
<1> QED BY <1>1, <1>2, <1>3, <1>4, <1>5, <1>6, <1>7, <1>8, <1>9, <1>10, NextCases

-----------------------------------------------------------------------------
(* The chain of layers.                                                    *)

\* A non-empty sequence of at most one element has one.
LEMMA OneElement ==
  ASSUME NEW S, NEW s \in Seq(S), s # <<>>, Len(s) <= 1
  PROVE  Len(s) = 1
<1>1. Len(s) \in Nat \ {0}
  BY EmptySeq, SMTT(30)
<1> QED BY <1>1, SMTT(30)

\* What no result covers yet starts within the chunk table.
LEMMA ChunkEnd ==
  ASSUME PipelineInv
  PROVE  /\ Unclaimed \in Nat /\ Unclaimed <= Len(rows)
         /\ nextFrom \in Nat /\ rows \in Seq(Row) /\ results \in Seq(Result)
<1> USE DEF PipelineInv
<1>1. nextFrom \in Nat /\ rows \in Seq(Row) /\ nextFrom <= Len(rows)
  BY DEF TypeOK, BuilderTypeOK, BuilderInv
<1>2. results \in Seq(Result)
  BY DEF TypeOK, UploaderTypeOK
<1>3. CASE job # <<>>
  BY <1>1, <1>2, <1>3, JobTyped, SMTT(30) DEF Unclaimed, Job, Pending
<1>4. CASE job = <<>> /\ outbox # <<>>
  <2>1. outbox[1] \in Pending
    BY <1>4, SMTT(30) DEF TypeOK, BuilderTypeOK
  <2> QED BY <1>1, <1>2, <1>4, <2>1, SMTT(30) DEF Unclaimed, Pending, PendingInv
<1>5. CASE job = <<>> /\ outbox = <<>>
  BY <1>1, <1>2, <1>5 DEF Unclaimed
<1> QED BY <1>3, <1>4, <1>5

\* A longer or renamed chunk table leaves the digests of the results alone.
LEMMA ChainKeeps ==
  ASSUME PipelineInv, rows' \in Seq(Row), Len(rows) <= Len(rows'),
         \A i \in 1..Len(rows) : /\ rows'[i].payload = rows[i].payload
                                 /\ rows'[i].nonce = rows[i].nonce,
         UNCHANGED <<results, uploadErr, job, outbox, layerCount, nextFrom>>
  PROVE  ChainInv'
<1>1. Unclaimed' = Unclaimed
  BY DEF Unclaimed
<1>2. SUFFICES ASSUME ~uploadErr, NEW k \in 1..Len(results)
               PROVE  BlobDigest(rows', results[k].from, results[k].to)
                        = BlobDigest(rows, results[k].from, results[k].to)
  BY <1>1 DEF ChainInv, PipelineInv
<1>3. results[k] \in Result
  BY ChunkEnd, SMTT(30)
<1>4. results[k].from \in Nat /\ results[k].to \in Nat
  BY <1>3, ResultFields
<1>5. results[k].to < Len(rows)
  <2>1. results[k].to < Unclaimed
    BY <1>2 DEF PipelineInv, ChainInv
  <2> HIDE DEF Unclaimed
  <2> QED BY <1>4, <2>1, ChunkEnd, SMTT(30)
<1> QED BY <1>4, <1>5, ChunkEnd, BlobDigestStable

\* A finished layer extends the chain of results (finishLayer).
LEMMA ChainGrows ==
  ASSUME PipelineInv, job # <<>>, LayerDone,
         UNCHANGED <<rows, outbox, layerCount, nextFrom, uploadErr>>
  PROVE  ChainInv'
<1> SUFFICES ASSUME ~uploadErr PROVE ChainInv'
  BY DEF ChainInv
<1> DEFINE new == [index |-> Job.index, from |-> Job.from, to |-> Job.to,
                   digest |-> JobDigest]
           n == Len(results)
<1>1. /\ Job \in Pending /\ Job.from <= Job.to /\ new \in Result
      /\ Job.from \in Nat /\ Job.to \in Nat /\ Job.index \in Nat
  BY JobTyped DEF Pending, Result
<1>2. /\ results \in Seq(Result) /\ results' = Append(results, new)
      /\ Len(results') = n + 1 /\ results'[n + 1] = new
      /\ \A k \in 1..n : results'[k] = results[k] /\ results[k] \in Result
  BY <1>1, ChunkEnd, SMTT(30) DEF LayerDone
<1>3. /\ job' = <<>> /\ Len(job) = 1 /\ Len(job') = 0
      /\ Job.index = layerCount - 1 - Len(outbox)
  <2>1. job \in Seq(Pending) /\ Len(job) <= 1
    BY DEF PipelineInv, ChannelInv, TypeOK, UploaderTypeOK
  <2>2. Len(job) = 1
    BY <2>1, OneElement
  <2> QED BY <2>2 DEF PipelineInv, PendingInv, LayerDone, Job
<1>4. Unclaimed = Job.from /\ Unclaimed' = Job.to + 1
  BY <1>3 DEF PipelineInv, PendingInv, Unclaimed, Job
<1>5. ChainInv
  BY DEF PipelineInv
<1>6. layerCount \in Nat /\ Len(outbox) \in Nat /\ n \in Nat
  BY <1>2, SMTT(30) DEF PipelineInv, TypeOK, BuilderTypeOK
<1>7. Len(results') + Len(job') + Len(outbox') = layerCount' /\ Job.index = n
  BY <1>2, <1>3, <1>5, <1>6, SMTT(30) DEF ChainInv
<1>8. results' # <<>> /\ results'[1].from = 0
  <2>1. CASE n = 0
    <3>1. Job.from = 0
      BY <1>2, <1>4, <1>5, <2>1, SMTT(30) DEF ChainInv
    <3> QED BY <1>2, <1>6, <2>1, <3>1, SMTT(30)
  <2>2. CASE n # 0
    <3>1. results[1].from = 0
      BY <1>2, <1>5, <2>2 DEF ChainInv
    <3> QED BY <1>2, <1>6, <2>2, <3>1, SMTT(30)
  <2> QED BY <2>1, <2>2
<1>9. ASSUME NEW k \in 1..Len(results'), NEW l \in 1..Len(results'), k < l
      PROVE  results'[k].to < results'[l].from
  <2>1. k \in 1..n /\ results'[k] = results[k]
    BY <1>2, <1>6, <1>9, SMTT(30)
  <2>2. CASE l = n + 1
    <3>1. results[k].to < Job.from
      BY <1>4, <1>5, <2>1 DEF ChainInv
    <3> QED BY <1>2, <2>1, <2>2, <3>1, SMTT(30)
  <2>3. CASE l \in 1..n
    BY <1>2, <1>5, <1>9, <2>1, <2>3 DEF ChainInv
  <2> QED BY <1>2, <1>6, <2>2, <2>3, SMTT(30)
<1>10. ASSUME NEW k \in 1..Len(results')
       PROVE  /\ results'[k].index = k - 1
              /\ results'[k].from <= results'[k].to
              /\ results'[k].to < Unclaimed'
              /\ results'[k].to + 1 = (IF k = Len(results') THEN Unclaimed'
                                       ELSE results'[k + 1].from)
              /\ results'[k].digest =
                   BlobDigest(rows, results'[k].from, results'[k].to)
  <2>1. CASE k = n + 1
    BY <1>1, <1>2, <1>4, <1>7, <2>1, SMTT(30) DEF JobDigest
  <2>2. CASE k \in 1..n
    <3>1. /\ results'[k] = results[k]
          /\ results[k].from \in Nat /\ results[k].to \in Nat
      <4>1. results'[k] = results[k]
        BY <1>2, <2>2
      <4>2. results[k] \in Result
        BY <1>2, <2>2
      <4> QED BY <4>1, <4>2, ResultFields
    <3>2. results'[k + 1] = IF k = n THEN new ELSE results[k + 1]
      BY <1>2, <2>2, SMTT(30)
    <3>3. /\ results[k].index = k - 1 /\ results[k].from <= results[k].to
          /\ results[k].to < Job.from
          /\ results[k].to + 1 =
               (IF k = n THEN Job.from ELSE results[k + 1].from)
          /\ results[k].digest =
               BlobDigest(rows, results[k].from, results[k].to)
      BY <1>4, <1>5, <2>2 DEF ChainInv
    <3>4. results[k].to < Job.to + 1
      BY <1>1, <3>1, <3>3, SMTT(30)
    <3>5. k # Len(results')
      <4>1. Len(results') = n + 1
        BY <1>2
      <4> QED BY <1>6, <2>2, <4>1, SMTT(30)
    <3>6. new.from = Job.from
      OBVIOUS
    <3> QED BY <1>4, <3>1, <3>2, <3>3, <3>4, <3>5, <3>6
  <2> QED BY <1>2, <2>1, <2>2, SMTT(30)
<1> QED BY <1>7, <1>8, <1>9, <1>10 DEF ChainInv

-----------------------------------------------------------------------------
(* Uploads.                                                                *)

\* A finished layer is in the registry when its result is recorded (upload).
LEMMA PushedGrows ==
  ASSUME PipelineInv, LayerDone, JobDigest \in registry',
         registry \subseteq registry'
  PROVE  PushedInv'
<1> DEFINE new == [index |-> Job.index, from |-> Job.from, to |-> Job.to,
                   digest |-> JobDigest]
<1>1. results \in Seq(Result) /\ Len(results) \in Nat
  BY SMTT(30) DEF PipelineInv, TypeOK, UploaderTypeOK
<1>2. results' = Append(results, new) /\ new.digest = JobDigest
  BY DEF LayerDone
<1> HIDE DEF new
<1>3. /\ Len(results') = Len(results) + 1
      /\ \A k \in 1..Len(results) : results'[k] = results[k]
      /\ results'[Len(results) + 1].digest = JobDigest
  BY <1>1, <1>2, SMTT(30)
<1>4. ASSUME NEW k \in 1..Len(results') PROVE results'[k].digest \in registry'
  <2>1. CASE k = Len(results) + 1
    BY <1>3, <2>1
  <2>2. CASE k \in 1..Len(results)
    BY <1>3, <2>2 DEF PipelineInv, PushedInv
  <2> QED BY <1>1, <1>3, <2>1, <2>2, SMTT(30)
<1> QED BY <1>4 DEF PushedInv

\* Each step keeps every recorded layer in the registry.
LEMMA PushedStep == ASSUME PipelineInv, [Next]_vars PROVE PushedInv'
<1>0. PushedInv
  BY DEF PipelineInv
<1>1. CASE results' = results /\ registry \subseteq registry'
  BY <1>0, <1>1 DEF PushedInv
<1>2. CASE Session \/ Advance \/ Roll \/ Aside
  BY <1>1, <1>2, SessionFrame, AdvanceFrame, RollCases, AsideFrame
<1>3. CASE \/ ReadUnit \/ ReadAborted \/ StoreChunk \/ ChunkLost \/ DrainEnd
           \/ Cleanup \/ Handoff
  BY <1>1, <1>3, ChunkFrame
<1>4. CASE Uploader
  <2>1. \/ results' = results /\ registry \subseteq registry'
        \/ LayerDone /\ JobDigest \in registry' /\ registry \subseteq registry'
    BY <1>4 DEF Uploader, UploaderCheck, BuildLayer, HeadLayer,
         PutLayer, LayerFails, UploaderExit
  <2> QED BY <1>1, <2>1, PushedGrows
<1> QED BY <1>2, <1>3, <1>4, NextCases

\* Each step keeps the results a chain of ranges that starts at chunk 0.
LEMMA ChainStep == ASSUME PipelineInv, [Next]_vars PROVE ChainInv'
<1>0. /\ ChainInv /\ ChannelInv
      /\ layerCount \in Nat /\ job \in Seq(Pending)
      /\ outbox \in Seq(Pending) /\ rows \in Seq(Row)
      /\ results \in Seq(Result)
  BY DEF PipelineInv, TypeOK, BuilderTypeOK, UploaderTypeOK
<1>01. Len(results) \in Nat /\ Len(job) \in Nat /\ Len(outbox) \in Nat
  BY <1>0, SMTT(30)
<1>1. CASE UNCHANGED <<rows, results, uploadErr, job, outbox, layerCount,
                       nextFrom>>
  BY <1>0, <1>1 DEF ChainInv, Unclaimed
<1>2. CASE Session \/ Advance \/ Aside
  BY <1>1, <1>2, SessionFrame, AdvanceFrame, AsideFrame
<1>3. CASE ReadUnit \/ ReadAborted \/ ChunkLost \/ Cleanup
  BY <1>1, <1>3 DEF ReadUnit, ReadAborted, ChunkLost,
       StoreChunkFails, Cleanup
<1>4. CASE StoreChunk
  <2>1. rows' \in Seq(Row)
    BY BuilderTypeStep DEF BuilderTypeOK
  <2>2. \E row : rows' = Append(rows, row)
    BY <1>4 DEF StoreChunk
  <2>3. /\ Len(rows) <= Len(rows')
        /\ \A i \in 1..Len(rows) : rows'[i] = rows[i]
    BY <1>0, <2>2, SMTT(30)
  <2>4. UNCHANGED <<results, uploadErr, job, outbox, layerCount, nextFrom>>
    BY <1>4 DEF StoreChunk
  <2> QED BY <2>1, <2>3, <2>4, ChainKeeps
<1>5. CASE DrainEnd
  <2>1. UNCHANGED <<results, uploadErr, job, outbox, layerCount, nextFrom>>
    BY <1>5 DEF DrainEnd
  <2>2. rows' = rows \/ rows' = NamedRows
    BY <1>5 DEF DrainEnd
  <2>3. /\ rows' \in Seq(Row) /\ Len(rows) <= Len(rows')
        /\ \A i \in 1..Len(rows) : /\ rows'[i].payload = rows[i].payload
                                   /\ rows'[i].nonce = rows[i].nonce
    BY <1>0, <2>2, NamedRowsKeep, SMTT(30)
  <2> QED BY <2>1, <2>3, ChainKeeps
<1>6. CASE Roll
  <2>1. CASE outbox' = <<PendingLayer>> /\ layerCount' = layerCount + 1
    <3>1. outbox = <<>> /\ UNCHANGED <<rows, results, uploadErr, job>>
      BY <1>0, <1>6, RollCases DEF ChannelInv
    <3>2. /\ Unclaimed' = Unclaimed /\ Len(outbox') = 1 /\ Len(outbox) = 0
      BY <2>1, <3>1 DEF Unclaimed, PendingLayer
    <3>3. SUFFICES ASSUME ~uploadErr PROVE ChainInv'
      BY <3>1 DEF ChainInv
    <3>4. Len(results) + Len(job) + Len(outbox) = layerCount
      BY <1>0, <3>3 DEF ChainInv
    <3>5. Len(results') + Len(job') + Len(outbox') = layerCount'
      BY <1>0, <1>01, <2>1, <3>1, <3>2, <3>4, SMTT(30)
    <3> HIDE DEF Unclaimed
    <3> QED BY <1>0, <3>1, <3>2, <3>3, <3>5, SMTT(30) DEF ChainInv
  <2>2. CASE UNCHANGED <<nextFrom, layerCount, outbox>>
    BY <1>1, <1>6, <2>2, RollCases
  <2> QED BY <1>6, <2>1, <2>2, RollCases
<1>7. CASE Handoff
  <2>1. /\ job = <<>> /\ job' = outbox /\ outbox' = <<>>
        /\ UNCHANGED <<rows, results, uploadErr, layerCount, nextFrom>>
    BY <1>0, <1>7 DEF Handoff, ChannelInv
  <2>2. /\ Unclaimed' = Unclaimed
        /\ Len(job') = Len(outbox) /\ Len(outbox') = 0 /\ Len(job) = 0
    BY <2>1 DEF Unclaimed
  <2> QED BY <1>0, <1>01, <2>1, <2>2, SMTT(30) DEF ChainInv
<1>8. CASE Uploader
  <2>1. UNCHANGED <<rows, outbox, layerCount, nextFrom>>
    BY <1>8, UploaderFrame
  <2>2. \/ UNCHANGED <<results, uploadErr, job>>
        \/ uploadErr'
        \/ LayerDone /\ uploadErr' = uploadErr /\ job # <<>>
    <3>1. upc \in {"head", "put"} => job # <<>>
      BY <1>0 DEF ChannelInv
    <3>2. CASE UploaderCheck
      BY <3>2 DEF UploaderCheck
    <3>3. CASE BuildLayer \/ UploaderExit
      BY <3>3 DEF BuildLayer, UploaderExit
    <3>4. CASE HeadLayer \/ PutLayer
      BY <3>1, <3>4 DEF HeadLayer, PutLayer
    <3>5. CASE \E stored \in BOOLEAN : LayerFails(stored)
      BY <3>5 DEF LayerFails
    <3> QED BY <1>8, <3>2, <3>3, <3>4, <3>5 DEF Uploader
  <2>3. CASE uploadErr'
    BY <2>3 DEF ChainInv
  <2> QED BY <1>1, <2>1, <2>2, <2>3, ChainGrows
<1> QED BY <1>2, <1>3, <1>4, <1>5, <1>6, <1>7, <1>8, NextCases

\* Each step keeps the rows named after the layers that hold them.
LEMMA NamedStep == ASSUME PipelineInv, [Next]_vars PROVE NamedInv'
<1>0. NamedInv /\ EndInv
  BY DEF PipelineInv
<1>1. CASE /\ UNCHANGED <<results, rows, layers>>
           /\ bpc' \in {"scanwait", "publish"} =>
                bpc \in {"scanwait", "publish"}
  BY <1>0, <1>1 DEF NamedInv
<1>2. CASE Session \/ Advance \/ Roll \/ Aside
  BY <1>1, <1>2, SessionFrame, AdvanceFrame, AdvanceMoves, RollCases, AsideFrame
<1>3. CASE bpc' \notin {"scanwait", "publish"}
  BY <1>3 DEF NamedInv
<1>4. CASE \/ ReadUnit \/ ReadAborted \/ StoreChunk \/ ChunkLost \/ Cleanup
           \/ Handoff
  BY <1>3, <1>4 DEF ReadUnit, ReadAborted, StoreChunk, ChunkLost,
       StoreChunkFails, Cleanup, Handoff
<1>5. CASE DrainEnd
  <2>1. CASE uploadErr
    BY <1>3, <1>5, <2>1 DEF DrainEnd
  <2>2. CASE ~uploadErr
    <3>1. rows' = NamedRows /\ layers' = results /\ results' = results
      BY <1>5, <2>2 DEF DrainEnd
    <3>2. ASSUME NEW k \in 1..Len(results),
                 NEW i \in results[k].from..results[k].to
          PROVE  rows'[i + 1].p = results[k].digest
      <4>0. results \in Seq(Result)
        BY ChunkEnd
      <4>1. results[k] \in Result
        BY <4>0, SMTT(30)
      <4>2. results[k].from \in Nat /\ results[k].to \in Nat
        BY <4>1, ResultFields
      <4>3. /\ results[k].to < Unclaimed
            /\ \A m, l \in 1..Len(results) :
                 m < l => results[m].to < results[l].from
        BY <2>2 DEF PipelineInv, ChainInv
      <4>4. /\ i + 1 \in 1..Len(rows)
            /\ (i + 1) - 1 \in results[k].from..results[k].to
        BY <4>2, <4>3, ChunkEnd, SMTT(30)
      <4> QED BY <3>1, <4>3, <4>4, ChunkEnd, NamedRowsName
    <3>3. layers' = results /\ results' = results
      BY <3>1
    <3> QED BY <3>2, <3>3 DEF NamedInv
  <2> QED BY <2>1, <2>2
<1>6. CASE Uploader
  <2>1. upc # "exit"
    BY <1>6 DEF Uploader, UploaderCheck, BuildLayer, HeadLayer,
         PutLayer, LayerFails, UploaderExit
  <2>2. bpc' = bpc
    BY <1>6, UploaderFrame
  <2> QED BY <1>0, <1>3, <2>1, <2>2 DEF EndInv
<1> QED BY <1>2, <1>4, <1>5, <1>6, NextCases

-----------------------------------------------------------------------------
(* The published image.                                                    *)

\* Each step keeps the reference unmoved until publish has run.
LEMMA TagStep == ASSUME PipelineInv, [Next]_vars PROVE TagInv'
<1>0. TagInv
  BY DEF PipelineInv
<1>1. CASE tag' = tag /\ bpc' = bpc
  BY <1>0, <1>1 DEF TagInv
<1>2. CASE Session \/ Uploader \/ Aside
  BY <1>1, <1>2, SessionFrame, UploaderFrame, AsideFrame
<1>3. CASE Advance
  BY <1>0, <1>3 DEF TagInv, Advance, CheckFailure, ReadEOF,
       RollReturns, DrainStart, ScanOutcome, PublishOk, PublishFails,
       AbortScan, AbortUploader, AbortReturns, ClosePipe
<1>4. CASE Roll
  BY <1>0, <1>4, RollCases DEF TagInv
<1>5. CASE \/ ReadUnit \/ ReadAborted \/ StoreChunk \/ ChunkLost \/ DrainEnd
           \/ Cleanup \/ Handoff
  BY <1>0, <1>5, ChunkFrame DEF TagInv
<1> QED BY <1>2, <1>3, <1>4, <1>5, NextCases

\* What publish reads when it runs: every unit is in the table, and the results
\* of the uploader cover it.
LEMMA PublishReady ==
  ASSUME PipelineInv, bpc = "publish"
  PROVE  /\ wpipe = "eof" /\ frame = <<>> /\ buf = <<>> /\ rows # <<>>
         /\ TableIsStream(rows, received)
         /\ LayersCover(rows, layers)
         /\ Len(layers) \in 1..MaxDataLayers
         /\ \A k \in 1..Len(layers) :
              /\ layers[k].digest \in registry
              /\ \A i \in layers[k].from..layers[k].to :
                   rows[i + 1].p = layers[k].digest
<1>1. /\ wpipe = "eof" /\ frame = <<>> /\ buf = <<>> /\ ~spool.open
  BY DEF PipelineInv, BuilderInv, Drained
<1>2. /\ rows # <<>> /\ upc = "exit" /\ ~uploadErr
  BY DEF PipelineInv, EndInv
<1>3. /\ rows \in Seq(Row) /\ results \in Seq(Result) /\ nextFrom \in Nat
      /\ received \in Seq(Unit) /\ layerCount \in Nat
  BY DEF PipelineInv, TypeOK, BuilderTypeOK, UploaderTypeOK
<1>4. job = <<>> /\ outbox = <<>>
  BY <1>2 DEF PipelineInv, ChannelInv
<1>5. Unclaimed = Len(rows)
  <2>1. nextFrom <= Len(rows) /\ ~(nextFrom < Len(rows))
    BY <1>1 DEF PipelineInv, BuilderInv, Building
  <2> QED BY <1>3, <1>4, <2>1, SMTT(30) DEF Unclaimed
<1>6. layers = results
  BY DEF PipelineInv, NamedInv
<1>7. TableIsStream(rows, received)
  <2>1. Len(received) - Len(buf) = Len(received)
    BY <1>1, <1>3, SMTT(30)
  <2> QED BY <2>1 DEF PipelineInv, StreamInv, Building, TableIsStream
<1> HIDE DEF Unclaimed
<1>8. LayersCover(rows, layers)
  BY <1>2, <1>5, <1>6 DEF PipelineInv, ChainInv, LayersCover
<1>9. Len(layers) \in 1..MaxDataLayers
  <2>1. Len(rows) # 0
    BY <1>2, <1>3, EmptySeq
  <2>2. layers # <<>>
    BY <1>2, <1>5, <1>6, <2>1 DEF PipelineInv, ChainInv
  <2>3. Len(layers) \in Nat \ {0}
    BY <1>3, <1>6, <2>2, EmptySeq, SMTT(30)
  <2>4. Len(results) + Len(job) + Len(outbox) = layerCount
    BY <1>2 DEF PipelineInv, ChainInv
  <2>5. Len(job) = 0 /\ Len(outbox) = 0
    BY <1>4
  <2>6. layerCount <= MaxDataLayers
    BY DEF PipelineInv, BudgetInv
  <2> QED BY <1>3, <1>6, <2>3, <2>4, <2>5, <2>6, PipelineAssumption, SMTT(30)
<1>10. \A k \in 1..Len(layers) :
         /\ layers[k].digest \in registry
         /\ \A i \in layers[k].from..layers[k].to :
              rows[i + 1].p = layers[k].digest
  BY <1>6 DEF PipelineInv, PushedInv, NamedInv
<1> QED BY <1>1, <1>2, <1>7, <1>8, <1>9, <1>10

\* A step writes the reference from publish only, or leaves it and all that
\* the properties of the published image read.
LEMMA TagMoves ==
  ASSUME PipelineInv, [Next]_vars
  PROVE  \/ /\ bpc = "publish" /\ tag' = Image
            /\ UNCHANGED <<sessionVars, received, buf, registry>>
         \/ tag' = tag
<1>1. CASE Advance
  BY <1>1 DEF Advance, CheckFailure, ReadEOF, RollReturns,
       DrainStart, ScanOutcome, PublishOk, PublishFails, AbortScan,
       AbortUploader, AbortReturns, ClosePipe
<1>2. CASE \/ ReadUnit \/ ReadAborted \/ StoreChunk \/ ChunkLost \/ DrainEnd
           \/ Cleanup \/ Handoff
  BY <1>2, ChunkFrame
<1> QED BY <1>1, <1>2, NextCases, SessionFrame, UploaderFrame, AsideFrame,
           RollCases

\* Once the reference moved no step changes the stream or drops a blob.
LEMMA AfterTag ==
  ASSUME PipelineInv, [Next]_vars, tag # NoTag
  PROVE  /\ UNCHANGED <<received, buf, frame, wpipe>>
         /\ registry \subseteq registry'
<1>1. bpc \in {"close", "cleanup", "done"} /\ wpipe = "eof"
  BY DEF PipelineInv, TagInv, PublishedIsTheStream
<1>2. sess \in {"finish", "closed"} /\ upc = "exit"
  BY <1>1 DEF PipelineInv, SessionInv, EndInv
<1>3. CASE Session
  <2>1. UNCHANGED <<frame, wpipe>>
    BY <1>2, <1>3 DEF Session, StreamData, StreamWriteFails,
         StreamEnd, SessionFails, SessionReturns
  <2> QED BY <1>3, <2>1, SessionFrame
<1>4. CASE \/ ReadUnit \/ ReadAborted \/ StoreChunk \/ ChunkLost \/ Roll
           \/ DrainEnd \/ Handoff
  <2>1. bpc \in {"read", "store", "roll", "drained", "send"}
    BY <1>4 DEF ReadUnit, ReadAborted, StoreChunk, ChunkLost,
         StoreChunkFails, Roll, DrainEnd, Handoff
  <2> QED BY <1>1, <2>1
<1>5. CASE Uploader
  <2>1. upc # "exit"
    BY <1>5 DEF Uploader, UploaderCheck, BuildLayer, HeadLayer,
         PutLayer, LayerFails, UploaderExit
  <2> QED BY <1>2, <2>1
<1>6. CASE Cleanup
  BY <1>6 DEF Cleanup
<1>7. CASE Advance \/ Aside
  BY <1>7, AdvanceFrame, AsideFrame
<1> QED BY <1>3, <1>4, <1>5, <1>6, <1>7, NextCases

\* Each step keeps the published image exact and complete.
LEMMA PublishedStep ==
  ASSUME PipelineInv, [Next]_vars
  PROVE  PublishedIsTheStream' /\ PublishedLayersPushed'
<1>0. PublishedIsTheStream /\ PublishedLayersPushed
  BY DEF PipelineInv
<1>1. CASE bpc = "publish" /\ tag' = Image
           /\ UNCHANGED <<sessionVars, received, buf, registry>>
  <2>1. tag'.rows = rows /\ tag'.layers = layers
    BY <1>1 DEF Image
  <2>2. PublishedIsTheStream'
    BY <1>1, <2>1, PublishReady DEF PublishedIsTheStream
  <2>3. PublishedLayersPushed'
    BY <1>1, <2>1, PublishReady DEF PublishedLayersPushed
  <2> QED BY <2>2, <2>3
<1>2. CASE tag' = tag
  <2>1. PublishedIsTheStream'
    BY <1>0, <1>2, AfterTag DEF PublishedIsTheStream
  <2>2. PublishedLayersPushed'
    BY <1>0, <1>2, AfterTag DEF PublishedLayersPushed
  <2> QED BY <2>1, <2>2
<1> QED BY <1>1, <1>2, TagMoves

-----------------------------------------------------------------------------
(* The answer.                                                             *)

\* What the steps between reading and publishing leave alone.
LEMMA QuietFrame ==
  ASSUME \/ ReadAborted \/ StoreChunk \/ ChunkLost \/ Roll \/ DrainEnd
         \/ Cleanup \/ Handoff \/ Uploader \/ Aside
  PROVE  UNCHANGED <<sess, wpipe, reply, frame, outcome, tag, received>>
<1>1. CASE ReadAborted \/ StoreChunk \/ ChunkLost
  BY <1>1 DEF ReadAborted, StoreChunk, ChunkLost, StoreChunkFails
<1>2. CASE Roll \/ DrainEnd \/ Cleanup \/ Handoff
  BY <1>2 DEF Roll, DrainEnd, Cleanup, Handoff
<1>3. CASE Uploader \/ Aside
  BY <1>3, UploaderFrame, AsideFrame
<1> QED BY <1>1, <1>2, <1>3

\* Each step keeps what the session's answer rests on (streamEnd, fail, publish).
LEMMA AnswerStep == ASSUME PipelineInv, [Next]_vars PROVE AnswerInv'
<1>0. AnswerInv /\ SessionInv /\ TagInv
  BY DEF PipelineInv
<1>1. CASE Session
  <2>1. UNCHANGED <<outcome, tag>>
    BY <1>1, SessionFrame
  <2>2. \A u : <<u>> # <<>>
    BY SMTT(30)
  <2>3. CASE \E u \in Unit : StreamData(u)
    BY <1>0, <2>1, <2>3 DEF StreamData, AbortIngest, AnswerInv, SessionInv
  <2>4. CASE StreamWriteFails \/ StreamEnd \/ SessionFails
    BY <1>0, <2>1, <2>4 DEF StreamWriteFails, StreamEnd, SessionFails,
         AbortIngest, AnswerInv, SessionInv
  <2>5. CASE SessionReturns
    BY <1>0, <2>1, <2>5 DEF SessionReturns, AnswerInv, SessionInv
  <2> QED BY <1>1, <2>3, <2>4, <2>5 DEF Session
<1>2. CASE UNCHANGED <<sess, wpipe, reply, frame, outcome, tag>>
  BY <1>0, <1>2 DEF AnswerInv
<1>3. CASE ReadUnit
  BY <1>0, <1>3 DEF ReadUnit, AnswerInv, SessionInv
<1>4. CASE Advance
  <2>1. UNCHANGED <<sess, wpipe, reply, frame>>
    BY <1>4, AdvanceFrame
  <2>2. CASE PublishOk
    <3>1. rows \in Seq(Row) /\ layers \in Seq(Result)
      BY DEF PipelineInv, TypeOK, BuilderTypeOK
    <3>2. Image \in Published
      BY <3>1 DEF Image, Published
    <3>3. tag' # NoTag
      BY <2>2, <3>2, NothingAssumption DEF PublishOk
    <3> QED BY <1>0, <2>1, <3>3 DEF AnswerInv
  <2>3. CASE ~PublishOk
    <3>1. outcome' = "ok" => outcome = "ok" /\ tag' = tag
      BY <1>4, <2>3 DEF Advance, CheckFailure, ReadEOF, RollReturns,
           DrainStart, ScanOutcome, PublishFails, AbortScan, AbortUploader,
           AbortReturns, ClosePipe
    <3> QED BY <1>0, <2>1, <3>1 DEF AnswerInv
  <2> QED BY <2>2, <2>3
<1>5. CASE \/ ReadAborted \/ StoreChunk \/ ChunkLost \/ Roll \/ DrainEnd
           \/ Cleanup \/ Handoff \/ Uploader \/ Aside
  <2>1. UNCHANGED <<sess, wpipe, reply, frame, outcome, tag>>
    BY <1>5, QuietFrame
  <2> QED BY <1>2, <2>1
<1> QED BY <1>1, <1>3, <1>4, <1>5, NextCases

-----------------------------------------------------------------------------
(* The theorems.                                                           *)

\* A session that opens a stream starts in the invariant (startIngest).
LEMMA InitInv == Init => PipelineInv
<1> SUFFICES ASSUME Init PROVE PipelineInv
  OBVIOUS
<1>1. /\ <<>> \in Seq(Unit) /\ <<>> \in Seq(Row) /\ <<>> \in Seq(Pending)
      /\ <<>> \in Seq(Result) /\ Len(<<>>) = 0
  BY SMTT(30)
<1>2. [open |-> FALSE, size |-> 0] \in [open : BOOLEAN, size : Nat]
  OBVIOUS
<1>3. closeAt \in Nat
  BY PipelineAssumption DEF Init
<1>4. TypeOK
  BY <1>1, <1>2, <1>3 DEF Init, TypeOK, SessionTypeOK,
       BuilderTypeOK, UploaderTypeOK, EndTypeOK
<1>5. SessionInv /\ ChannelInv /\ EndInv /\ PendingInv /\ TagInv
  BY <1>1, SMTT(30) DEF Init, SessionInv, ChannelInv, EndInv, PendingInv,
       TagInv
<1>6. BuilderInv /\ BudgetInv
  BY <1>1, PipelineAssumption, SMTT(30) DEF Init, BuilderInv, BudgetInv,
       Building
<1>7. StreamInv /\ PushedInv /\ NamedInv
  BY <1>1, SMTT(30) DEF Init, StreamInv, PushedInv, NamedInv
<1>8. ChainInv
  BY <1>1, SMTT(30) DEF Init, ChainInv, Unclaimed
<1>9. DiskInv /\ PublishedIsTheStream /\ PublishedLayersPushed
  BY DEF Init, DiskInv, PublishedIsTheStream, PublishedLayersPushed
<1>10. AnswerInv
  BY DEF Init, AnswerInv
<1> QED BY <1>4, <1>5, <1>6, <1>7, <1>8, <1>9, <1>10 DEF PipelineInv

\* The invariant is inductive.
LEMMA StepInv == PipelineInv /\ [Next]_vars => PipelineInv'
BY TypeStep, SessionStep, BuilderStep, StreamStep, ChannelStep, EndStep,
   PendingStep, PushedStep, ChainStep, NamedStep, BudgetStep, DiskStep,
   TagStep, AnswerStep, PublishedStep DEF PipelineInv

\* Every reachable state of a v2 ingest, for every chunk size, layer size,
\* layer budget, quota, estimate and archive, satisfies the inductive invariant
\* (run, roll, startUploader, drainUploader, publish and cleanup together).
THEOREM Invariance == Spec => []PipelineInv
BY InitInv, StepInv, PTL DEF Spec

\* The state keeps the shape stream.go declares.
THEOREM TypeCorrect == Spec => []TypeOK
<1>1. PipelineInv => TypeOK
  BY DEF PipelineInv
<1> QED BY <1>1, Invariance, PTL

\* A published image is exactly the stream the client ended with StreamEnd, cut
\* into layers that cover the chunk table in order (run, drainUploader,
\* publish).
THEOREM PublishedExact == Spec => []PublishedIsTheStream
<1>1. PipelineInv => PublishedIsTheStream
  BY DEF PipelineInv
<1> QED BY <1>1, Invariance, PTL

\* A published image names only layers the registry holds, each chunk its own
\* layer's data file, and at most MaxDataLayers of them (finishLayer, upload,
\* shouldRoll).
THEOREM PublishedPushed == Spec => []PublishedLayersPushed
<1>1. PipelineInv => PublishedLayersPushed
  BY DEF PipelineInv
<1> QED BY <1>1, Invariance, PTL

\* roll never meets its "layer limit exceeded" error: shouldRoll's reserve is
\* enough for every stream, whatever the budget.
THEOREM BudgetKept == Spec => []LayerBudgetHolds
<1>1. PipelineInv => LayerBudgetHolds
  <2> SUFFICES ASSUME PipelineInv, bpc = "roll" PROVE layerCount < MaxDataLayers
    BY DEF LayerBudgetHolds
  <2>1. /\ layerCount \in Nat
        /\ layerCount < IF last THEN MaxDataLayers ELSE MaxDataLayers - 1
    BY DEF PipelineInv, TypeOK, BuilderTypeOK, BudgetInv
  <2> QED BY <2>1, PipelineAssumption, SMTT(30)
<1> QED BY <1>1, Invariance, PTL

\* A set of one or two things has at most two elements.
LEMMA PairBound ==
  ASSUME NEW x, NEW y, NEW S, S \subseteq {x, y}
  PROVE  Cardinality(S) <= 2
<1>1. S = {} \/ S = {x} \/ S = {y} \/ S = {x, y}
  OBVIOUS
<1>2. Cardinality({}) = 0 /\ Cardinality({x}) = 1 /\ Cardinality({y}) = 1
  BY FS_EmptySet, FS_Singleton
<1>3. Cardinality({x, y}) <= 2
  <2>1. IsFiniteSet({x}) /\ {x, y} = {x} \cup {y}
    BY FS_Singleton
  <2> QED BY <1>2, <2>1, FS_AddElement, SMTT(30)
<1> QED BY <1>1, <1>2, <1>3, SMTT(30)

\* However far the client outruns the registry, --work-dir holds at most two
\* spools and one rebuilt layer (the unbuffered hand-off of roll).
THEOREM WorkDirBounded == Spec => []WorkDirBound
<1>1. PipelineInv => WorkDirBound
  <2> SUFFICES ASSUME PipelineInv PROVE WorkDirBound
    OBVIOUS
  <2> DEFINE spools == {f \in disk : f[1] = "spool"}
             built == {f \in disk : f[1] = "layer"}
             a == IF spool.open THEN SpoolFile(layerCount)
                                ELSE SpoolFile(outbox[1].index)
             b == SpoolFile(job[1].index)
             c == LayerFile(job[1].index)
  <2>1. DiskInv /\ (spool.open => outbox = <<>>)
    BY DEF PipelineInv, ChannelInv, BuilderInv
  <2>2. spools \subseteq {a, b} /\ built \subseteq {c, c}
    BY <2>1, SMTT(30) DEF DiskInv, SpoolFile, LayerFile
  <2> HIDE DEF spools, built, a, b, c
  <2>3. Cardinality(spools) <= 2
    BY <2>2, PairBound
  <2>4. built = {} \/ built = {c}
    BY <2>2
  <2>5. Cardinality(built) <= 1
    <3>1. Cardinality({}) = 0 /\ Cardinality({c}) = 1
      BY FS_EmptySet, FS_Singleton
    <3> QED BY <2>4, <3>1, SMTT(30)
  <2> QED BY <2>3, <2>5 DEF WorkDirBound, spools, built
<1> QED BY <1>1, Invariance, PTL

\* When the ingest has ended, on any path, the work directory is empty
\* (cleanup, the deferred removals of finishLayer, the draining uploader).
THEOREM WorkDirEmptied == Spec => []NothingLeftBehind
<1>1. PipelineInv => NothingLeftBehind
  <2> SUFFICES ASSUME PipelineInv, bpc = "done" PROVE disk = {}
    BY DEF NothingLeftBehind
  <2>1. upc = "exit"
    BY DEF PipelineInv, EndInv
  <2>2. job = <<>> /\ outbox = <<>>
    BY <2>1 DEF PipelineInv, ChannelInv
  <2>3. ~spool.open
    BY DEF PipelineInv, BuilderInv
  <2> QED BY <2>2, <2>3 DEF PipelineInv, DiskInv
<1> QED BY <1>1, Invariance, PTL

\* The reference moves only in Finish, after StreamEnd, when every layer was
\* uploaded and the scan succeeded (publish).
THEOREM TagOnlyInFinish == Spec => TagMovesOnlyInFinish
<1>1. PipelineInv /\ [Next]_vars =>
        [tag' # tag => /\ wpipe = "eof" /\ sess = "finish"
                       /\ upc = "exit" /\ ~uploadErr /\ ~scanErr]_vars
  <2> SUFFICES ASSUME PipelineInv, [Next]_vars, tag' # tag
               PROVE  /\ wpipe = "eof" /\ sess = "finish"
                      /\ upc = "exit" /\ ~uploadErr /\ ~scanErr
    OBVIOUS
  <2>1. bpc = "publish"
    BY TagMoves
  <2>2. wpipe = "eof" /\ upc = "exit" /\ ~uploadErr /\ ~scanErr
    BY <2>1 DEF PipelineInv, BuilderInv, Drained, EndInv
  <2>3. sess = "finish"
    BY <2>1, <2>2 DEF PipelineInv, SessionInv
  <2> QED BY <2>2, <2>3
<1> QED BY <1>1, Invariance, PTL DEF Spec, TagMovesOnlyInFinish

-----------------------------------------------------------------------------
(* The promise.                                                            *)

\* A non-empty set of natural numbers has a least element.
LEMMA LeastNumber ==
  ASSUME NEW T \in SUBSET Nat, T # {}
  PROVE  \E x \in T : \A y \in T : x <= y
<1> DEFINE R == {ss \in Nat \X Nat : ss[1] < ss[2]}
<1>1. IsWellFoundedOn(R, Nat)
  BY NatLessThanWellFounded DEF OpToRel
<1>2. \A x, y \in Nat : x < y => <<x, y>> \in R
  BY SMTT(30)
<1> HIDE DEF R
<1>3. PICK x \in T : \A y \in T : ~(<<y, x>> \in R)
  BY <1>1, WFMin
<1>4. \A y \in T : ~(y < x)
  BY <1>2, <1>3
<1> QED BY <1>4, SMTT(30)

\* A set that has 0 and the successors of its elements has all of 0..N.
LEMMA Induction ==
  ASSUME NEW N \in Nat, NEW P, 0 \in P, \A n \in 1..N : n - 1 \in P => n \in P
  PROVE  0..N \subseteq P
<1> SUFFICES ASSUME NEW m \in 0..N, m \notin P PROVE FALSE
  OBVIOUS
<1> DEFINE T == {n \in 0..N : n \notin P}
<1>1. PICK x \in T : \A y \in T : x <= y
  <2>1. T \in SUBSET Nat /\ T # {}
    BY SMTT(30)
  <2> QED BY <2>1, LeastNumber
<1>2. x \in 1..N /\ x - 1 \in P
  BY <1>1, SMTT(30)
<1> QED BY <1>1, <1>2

\* The units of st after the first a, up to the b-th.
Run(st, a, b) == [j \in 1..(b - a) |-> st[a + j]]

\* When a sequence is two others joined.
LEMMA JoinIs ==
  ASSUME NEW S, NEW l \in Seq(S), NEW r \in Seq(S), NEW w \in Seq(S),
         Len(w) = Len(l) + Len(r),
         \A j \in 1..Len(l) : w[j] = l[j],
         \A j \in 1..Len(r) : w[Len(l) + j] = r[j]
  PROVE  l \o r = w
<1>1. l \o r \in Seq(S) /\ Len(l \o r) = Len(w)
  BY SMTT(30)
<1>2. ASSUME NEW j \in 1..Len(w) PROVE (l \o r)[j] = w[j]
  <2>1. CASE j <= Len(l)
    BY <2>1, SMTT(30)
  <2>2. CASE j > Len(l)
    <3>1. j - Len(l) \in 1..Len(r) /\ Len(l) + (j - Len(l)) = j
      BY <2>2, SMTT(30)
    <3>2. (l \o r)[j] = r[j - Len(l)]
      BY <2>2, SMTT(30)
    <3> QED BY <3>1, <3>2
  <2> QED BY <2>1, <2>2, SMTT(30)
<1> QED BY <1>1, <1>2, SMTT(30)

\* Two runs that meet are one.
LEMMA RunsMeet ==
  ASSUME NEW st, NEW a \in Nat, NEW b \in Nat, NEW c \in Nat, a <= b, b <= c
  PROVE  Run(st, a, b) \o Run(st, b, c) = Run(st, a, c)
<1> DEFINE S == {st[n] : n \in Nat}
<1>1. ASSUME NEW x \in Nat, NEW y \in Nat, x <= y
      PROVE  /\ Run(st, x, y) \in Seq(S) /\ Len(Run(st, x, y)) = y - x
             /\ \A j \in 1..(y - x) : Run(st, x, y)[j] = st[x + j]
  <2>1. y - x \in Nat /\ \A j \in 1..(y - x) : x + j \in Nat
    BY <1>1, SMTT(30)
  <2>2. \A j \in 1..(y - x) : st[x + j] \in S
    BY <2>1
  <2> HIDE DEF S
  <2> QED BY <2>1, <2>2, SMTT(30) DEF Run
<1> HIDE DEF S
<1> DEFINE l == Run(st, a, b)
           r == Run(st, b, c)
           w == Run(st, a, c)
<1>2. /\ l \in Seq(S) /\ Len(l) = b - a /\ \A j \in 1..(b - a) : l[j] = st[a + j]
      /\ r \in Seq(S) /\ Len(r) = c - b /\ \A j \in 1..(c - b) : r[j] = st[b + j]
  BY <1>1
<1>3. a <= c
  BY SMTT(30)
<1>4. w \in Seq(S) /\ Len(w) = c - a /\ \A j \in 1..(c - a) : w[j] = st[a + j]
  BY <1>1, <1>3
<1> HIDE DEF l, r, w
<1>5. Len(w) = Len(l) + Len(r) /\ \A j \in 1..Len(l) : w[j] = l[j]
  BY <1>2, <1>4, SMTT(30)
<1>6. ASSUME NEW j \in 1..Len(r) PROVE w[Len(l) + j] = r[j]
  <2>1. Len(l) + j \in 1..(c - a) /\ a + (Len(l) + j) = b + j /\ j \in 1..(c - b)
    BY <1>2, SMTT(30)
  <2> QED BY <1>2, <1>4, <2>1
<1>7. l \o r = w
  BY <1>2, <1>4, <1>5, <1>6, JoinIs
<1> QED BY <1>7 DEF l, r, w

\* Sequences that are consecutive runs of st, put together, are one run.
LEMMA JoinsRun ==
  ASSUME NEW st, NEW N \in Nat, NEW at \in [0..N -> Nat], NEW ss, Len(ss) = N,
         \A n \in 1..N : at[n - 1] <= at[n] /\ ss[n] = Run(st, at[n - 1], at[n])
  PROVE  Joins(ss) = Run(st, at[0], at[N]) /\ at[0] <= at[N]
<1> DEFINE E(f) == f = [n \in 0..N |-> IF n = 0 THEN <<>> ELSE f[n - 1] \o ss[n]]
           g == [n \in 0..N |-> Run(st, at[0], at[n])]
           f0 == CHOOSE f : E(f)
           P(f) == {n \in 0..N : f[n] = Run(st, at[0], at[n]) /\ at[0] <= at[n]}
<1>1. Joins(ss) = f0[N]
  BY DEF Joins
<1>2. \A n \in 0..N : at[n] \in Nat
  OBVIOUS
<1>3. Run(st, at[0], at[0]) = <<>>
  BY SMTT(30) DEF Run
<1>4. ASSUME NEW n \in 1..N PROVE n - 1 \in 0..N /\ n \in 0..N /\ n # 0
  BY SMTT(30)
<1>5. 0 \in 0..N /\ N \in 0..N
  BY SMTT(30)
<1>6. ASSUME NEW n \in 1..N, at[0] <= at[n - 1]
      PROVE  /\ Run(st, at[0], at[n - 1]) \o ss[n] = Run(st, at[0], at[n])
             /\ at[0] <= at[n]
  <2>1. at[0] \in Nat /\ at[n - 1] \in Nat /\ at[n] \in Nat
    BY <1>2, <1>4, <1>5
  <2>2. at[n - 1] <= at[n] /\ ss[n] = Run(st, at[n - 1], at[n])
    OBVIOUS
  <2>3. Run(st, at[0], at[n - 1]) \o Run(st, at[n - 1], at[n]) = Run(st, at[0], at[n])
    BY <1>6, <2>1, <2>2, RunsMeet
  <2>4. at[0] <= at[n]
    BY <1>6, <2>1, <2>2, SMTT(30)
  <2> QED BY <2>2, <2>3, <2>4
<1>7. at[0] <= at[0]
  BY <1>2, <1>5, SMTT(30)
<1>8. ASSUME NEW f, E(f) PROVE 0..N \subseteq P(f)
  <2>1. 0 \in P(f)
    BY <1>3, <1>5, <1>7, <1>8
  <2>2. ASSUME NEW n \in 1..N, n - 1 \in P(f) PROVE n \in P(f)
    BY <1>4, <1>6, <1>8, <2>2
  <2> HIDE DEF P, E
  <2> QED BY <2>1, <2>2, Induction
<1>9. 0..N \subseteq {n \in 0..N : at[0] <= at[n]}
  <2> DEFINE Q == {n \in 0..N : at[0] <= at[n]}
  <2>1. 0 \in Q
    BY <1>5, <1>7
  <2>2. ASSUME NEW n \in 1..N, n - 1 \in Q PROVE n \in Q
    BY <1>4, <1>6, <2>2
  <2> HIDE DEF Q
  <2>3. 0..N \subseteq Q
    BY <2>1, <2>2, Induction
  <2> QED BY <2>3 DEF Q
<1>10. E(g)
  <2>1. ASSUME NEW n \in 0..N
        PROVE  g[n] = IF n = 0 THEN <<>> ELSE g[n - 1] \o ss[n]
    <3>1. CASE n = 0
      BY <1>3, <3>1
    <3>2. CASE n # 0
      <4>1. n \in 1..N
        BY <3>2, SMTT(30)
      <4> QED BY <1>4, <1>6, <1>9, <3>2, <4>1
    <3> QED BY <3>1, <3>2
  <2>2. g = [n \in 0..N |-> g[n]]
    OBVIOUS
  <2> HIDE DEF g
  <2> QED BY <2>1, <2>2
<1>11. E(f0)
  <2> HIDE DEF E, g
  <2> QED BY <1>10
<1> HIDE DEF f0, g, E
<1>12. N \in P(f0)
  BY <1>5, <1>8, <1>11
<1> QED BY <1>1, <1>12

\* What a reader gets from the image that publish writes, layer after layer and chunk
\* after chunk, is what the builder received.
LEMMA RestoredIs ==
  ASSUME PipelineInv, bpc = "publish"
  PROVE  Restored(Image) = received
<1> DEFINE M == Len(rows)
           N == Len(layers)
           Edge(i) == IF i = M THEN Len(received) ELSE rows[i + 1].at
<1>1. /\ M \in Nat /\ \A i \in 1..M : rows[i].at \in Nat /\ rows[i].payload \in Seq(Unit)
      /\ received \in Seq(Unit) /\ Len(received) \in Nat
  <2>1. rows \in Seq(Row) /\ received \in Seq(Unit)
    BY DEF PipelineInv, TypeOK, BuilderTypeOK
  <2>2. M \in Nat /\ Len(received) \in Nat /\ \A i \in 1..M : rows[i] \in Row
    BY <2>1, SMTT(30)
  <2> QED BY <2>1, <2>2, SMTT(30) DEF Row
<1>2. /\ N \in Nat \ {0}
      /\ \A k \in 1..N : layers[k].from \in Nat /\ layers[k].to \in Nat
  <2>1. layers \in Seq(Result)
    BY DEF PipelineInv, TypeOK, BuilderTypeOK
  <2>2. N \in Nat \ {0}
    BY <2>1, PublishReady, SMTT(30)
  <2>3. \A k \in 1..N : layers[k] \in Result
    BY <2>1, <2>2, SMTT(30)
  <2> QED BY <2>2, <2>3, SMTT(30) DEF Result
<1>3. TableIsStream(rows, received) /\ LayersCover(rows, layers) /\ rows # <<>>
  BY PublishReady
<1>4. \A i \in 0..M : Edge(i) \in Nat
  BY <1>1, SMTT(30)
<1>5. ASSUME NEW i \in 1..M
      PROVE  Edge(i - 1) <= Edge(i) /\ rows[i].payload = Run(received, Edge(i - 1), Edge(i))
  <2> DEFINE b == rows[i].payload
  <2>1. Edge(i - 1) = rows[i].at
    BY <1>1, SMTT(30)
  <2>2. Edge(i) = rows[i].at + Len(b) /\ \A j \in 1..Len(b) : b[j] = received[rows[i].at + j]
    BY <1>3 DEF TableIsStream
  <2>3. rows[i].at \in Nat /\ b \in Seq(Unit)
    BY <1>1
  <2>4. b = [j \in 1..Len(b) |-> b[j]] /\ Len(b) \in Nat
    BY <2>3, SMTT(30)
  <2> HIDE DEF b, Edge
  <2>5. Edge(i - 1) <= Edge(i) /\ Edge(i) - Edge(i - 1) = Len(b)
    BY <2>1, <2>2, <2>3, <2>4, SMTT(30)
  <2>6. [j \in 1..Len(b) |-> b[j]] = [j \in 1..Len(b) |-> received[rows[i].at + j]]
    BY <2>2
  <2>7. b = Run(received, Edge(i - 1), Edge(i))
    BY <2>1, <2>4, <2>5, <2>6 DEF Run
  <2> QED BY <2>5, <2>7 DEF b
<1>6. ASSUME NEW k \in 1..N
      PROVE  /\ layers[k].from <= layers[k].to /\ layers[k].to + 1 <= M
             /\ layers[k].digest = BlobDigest(rows, layers[k].from, layers[k].to)
             /\ layers[k].to + 1 = (IF k = N THEN M ELSE layers[k + 1].from)
  <2>1. /\ layers[k].from <= layers[k].to
        /\ layers[k].digest = BlobDigest(rows, layers[k].from, layers[k].to)
        /\ layers[k].to + 1 = (IF k = N THEN M ELSE layers[k + 1].from)
    BY <1>3 DEF LayersCover
  <2>2. layers = results /\ ~uploadErr /\ upc = "exit"
    BY DEF PipelineInv, NamedInv, EndInv
  <2>3. Unclaimed = nextFrom
    BY <2>2 DEF PipelineInv, ChannelInv, Unclaimed
  <2>4. results[k].to < Unclaimed
    BY <2>2 DEF PipelineInv, ChainInv
  <2>5. nextFrom <= M /\ nextFrom \in Nat
    BY DEF PipelineInv, BuilderInv, TypeOK, BuilderTypeOK
  <2>6. layers[k].to + 1 <= M
    BY <1>1, <1>2, <2>2, <2>3, <2>4, <2>5, SMTT(30)
  <2> QED BY <2>1, <2>6
<1> HIDE DEF Edge, M, N
<1>7. ASSUME NEW k \in 1..N
      PROVE  /\ LayerUnits(layers[k]) = Run(received, Edge(layers[k].from), Edge(layers[k].to + 1))
             /\ Edge(layers[k].from) <= Edge(layers[k].to + 1)
  <2> DEFINE from == layers[k].from
             to == layers[k].to
             n == to - from + 1
             d == layers[k].digest
             ss == [i \in 1..Len(d) |-> d[i].payload]
             at == [i \in 0..n |-> Edge(from + i)]
  <2>1. from \in Nat /\ to \in Nat /\ from <= to /\ to + 1 <= M /\ n \in Nat
    BY <1>2, <1>6, SMTT(30)
  <2>2. Len(d) = n /\ \A i \in 1..n : d[i].payload = rows[from + i].payload
    <3>1. d = BlobDigest(rows, from, to)
      BY <1>6
    <3> HIDE DEF d
    <3>2. Len(d) = n
      BY <2>1, <3>1, SMTT(30) DEF BlobDigest
    <3>3. \A i \in 1..n : d[i] = [payload |-> rows[from + i].payload, nonce |-> rows[from + i].nonce]
      BY <2>1, <3>1, SMTT(30) DEF BlobDigest
    <3> HIDE DEF n, from
    <3>4. ASSUME NEW i \in 1..n PROVE d[i].payload = rows[from + i].payload
      <4> DEFINE r == [payload |-> rows[from + i].payload, nonce |-> rows[from + i].nonce]
      <4>1. r.payload = rows[from + i].payload
        OBVIOUS
      <4>2. d[i] = r
        BY <3>3
      <4> HIDE DEF r
      <4> QED BY <4>1, <4>2
    <3> QED BY <3>2, <3>4
  <2>3. \A i \in 0..n : from + i \in 0..M
    BY <1>1, <2>1, SMTT(30)
  <2>4. at \in [0..n -> Nat]
    BY <1>4, <2>3
  <2>5. Len(ss) = n
    BY <2>1, <2>2, SMTT(30)
  <2>6. ASSUME NEW i \in 1..n
        PROVE  at[i - 1] <= at[i] /\ ss[i] = Run(received, at[i - 1], at[i])
    <3>1. /\ from + i \in 1..M /\ from + (i - 1) = (from + i) - 1
          /\ i - 1 \in 0..n /\ i \in 0..n /\ i \in 1..Len(d)
      BY <1>1, <2>1, <2>2, SMTT(30)
    <3>2. at[i - 1] = Edge((from + i) - 1) /\ at[i] = Edge(from + i)
      BY <3>1
    <3>3. ss[i] = rows[from + i].payload
      BY <2>2, <3>1
    <3>4. /\ Edge((from + i) - 1) <= Edge(from + i)
          /\ rows[from + i].payload = Run(received, Edge((from + i) - 1), Edge(from + i))
      <4> DEFINE x == from + i
      <4>1. x \in 1..M
        BY <3>1
      <4> HIDE DEF x
      <4>2. Edge(x - 1) <= Edge(x) /\ rows[x].payload = Run(received, Edge(x - 1), Edge(x))
        BY <1>5, <4>1
      <4> QED BY <4>2 DEF x
    <3> HIDE DEF ss, at
    <3> QED BY <3>2, <3>3, <3>4
  <2>7. at[0] = Edge(from) /\ at[n] = Edge(to + 1)
    <3>1. 0 \in 0..n /\ n \in 0..n /\ from + 0 = from /\ from + n = to + 1
      BY <2>1, SMTT(30)
    <3> QED BY <3>1
  <2>8. LayerUnits(layers[k]) = Joins(ss)
    BY DEF LayerUnits
  <2> HIDE DEF from, to, n, d, ss, at
  <2>9. Joins(ss) = Run(received, at[0], at[n]) /\ at[0] <= at[n]
    BY <2>1, <2>4, <2>5, <2>6, JoinsRun
  <2> QED BY <2>7, <2>8, <2>9 DEF from, to
<1> DEFINE ss == [k \in 1..N |-> LayerUnits(layers[k])]
           at == [k \in 0..N |-> IF k = 0 THEN Edge(0) ELSE Edge(layers[k].to + 1)]
<1>8. at \in [0..N -> Nat] /\ Len(ss) = N
  <2>1. ASSUME NEW k \in 0..N, k # 0 PROVE layers[k].to + 1 \in 0..M
    <3>1. k \in 1..N
      BY <1>2, <2>1, SMTT(30)
    <3> QED BY <1>1, <1>2, <1>6, <3>1, SMTT(30)
  <2>2. 0 \in 0..M
    BY <1>1, SMTT(30)
  <2>3. at \in [0..N -> Nat]
    BY <1>4, <2>1, <2>2
  <2>4. Len(ss) = N
    BY <1>2, SMTT(30)
  <2> QED BY <2>3, <2>4
<1>9. ASSUME NEW k \in 1..N
      PROVE  at[k - 1] <= at[k] /\ ss[k] = Run(received, at[k - 1], at[k])
  <2>1. k - 1 \in 0..N /\ k \in 0..N /\ k # 0 /\ (k - 1 # 0 => k - 1 \in 1..N /\ k - 1 # N /\ k - 1 + 1 = k)
    BY <1>2, SMTT(30)
  <2>2. at[k] = Edge(layers[k].to + 1)
    BY <2>1
  <2>3. at[k - 1] = Edge(layers[k].from)
    <3>1. CASE k - 1 = 0
      <4>1. k = 1
        BY <3>1, SMTT(30)
      <4>2. layers # <<>>
        BY <1>2, SMTT(30) DEF N
      <4>3. layers[1].from = 0
        BY <1>3, <4>2 DEF LayersCover
      <4> QED BY <2>1, <3>1, <4>1, <4>3
    <3>2. CASE k - 1 # 0
      BY <1>6, <2>1, <3>2
    <3> QED BY <3>1, <3>2
  <2> QED BY <1>7, <2>2, <2>3
<1>10. at[0] = 0 /\ at[N] = Len(received)
  <2>1. 0 \in 0..N /\ N \in 0..N /\ N \in 1..N /\ N # 0
    BY <1>2, SMTT(30)
  <2>2. Edge(0) = 0
    <3>1. 0 # M
      BY <1>3, SMTT(30) DEF M, PipelineInv, TypeOK, BuilderTypeOK
    <3>2. rows[1].at = 0
      BY <1>3 DEF TableIsStream
    <3>3. 0 + 1 = 1
      BY SMTT(30)
    <3> QED BY <3>1, <3>2, <3>3 DEF Edge
  <2>3. layers[N].to + 1 = M
    BY <1>6, <2>1
  <2> QED BY <2>1, <2>2, <2>3 DEF Edge
<1>11. Restored(Image) = Joins(ss)
  BY DEF Restored, Image, N
<1>12. Run(received, 0, Len(received)) = received
  BY <1>1, SMTT(30) DEF Run
<1> HIDE DEF ss, at
<1>13. Joins(ss) = Run(received, at[0], at[N])
  <2>1. N \in Nat
    BY <1>2
  <2> QED BY <1>8, <1>9, <2>1, JoinsRun
<1> QED BY <1>10, <1>11, <1>12, <1>13

\* Each step keeps what a reader gets: publish writes it, and the stream has ended by then.
LEMMA RestoredStep ==
  ASSUME PipelineInv, RestoredIsTheStream, [Next]_vars
  PROVE  RestoredIsTheStream'
<1>1. CASE bpc = "publish" /\ tag' = Image /\ received' = received
  BY <1>1, RestoredIs DEF RestoredIsTheStream
<1>2. CASE tag' = tag
  BY <1>2, AfterTag DEF RestoredIsTheStream
<1> QED BY <1>1, <1>2, TagMoves

\* The three phases by the state of the pipe.
LEMMA Phases ==
  ASSUME TypeOK
  PROVE  /\ Phase = "sending" <=> wpipe = "open"
         /\ Phase = "ended" <=> wpipe = "eof"
         /\ Phase = "dropped" <=> wpipe = "aborted"
<1>1. wpipe \in {"open", "eof", "aborted"}
  BY DEF TypeOK, SessionTypeOK
<1> QED BY <1>1 DEF Phase

\* Every step of the pipeline is a step of the promise, or none: frames taken by the
\* builder are the stream (ReadUnit), StreamEnd ends it and an abort drops it, publish
\* publishes it, and the answer of the session is the answer.
LEMMA PromiseStep ==
  ASSUME PipelineInv, PipelineInv', RestoredIsTheStream, [Next]_vars
  PROVE  [Promise!PNext]_(Promise!pvars)
<1>0. TypeOK /\ SessionInv /\ AnswerInv /\ TagInv /\ TypeOK'
  BY DEF PipelineInv
<1>1. /\ Phase = "sending" <=> wpipe = "open"
      /\ Phase = "ended" <=> wpipe = "eof"
      /\ Phase = "dropped" <=> wpipe = "aborted"
  BY <1>0, Phases
<1>2. /\ Phase' = "ended" <=> wpipe' = "eof"
      /\ Phase' = "dropped" <=> wpipe' = "aborted"
  <2>1. wpipe' \in {"open", "eof", "aborted"}
    BY <1>0 DEF TypeOK, SessionTypeOK
  <2> QED BY <2>1 DEF Phase
<1>3. ASSUME UNCHANGED <<wpipe, received, tag, reply>>
      PROVE  [Promise!PNext]_(Promise!pvars)
  BY <1>3 DEF Phase, Backup, Promise!pvars
<1>4. tag' = tag => Backup' = Backup
  BY DEF Backup
<1>5. wpipe' = wpipe => Phase' = Phase
  BY DEF Phase
<1>6. CASE ReadUnit
  <2>1. /\ bpc = "read" /\ frame # <<>> /\ received' = received \o frame
        /\ UNCHANGED <<wpipe, reply, tag>>
    BY <1>6 DEF ReadUnit
  <2>2. PICK u \in Unit : frame = <<u>>
    BY <1>0, <2>1 DEF AnswerInv
  <2>3. wpipe = "open"
    BY <1>0, <2>1 DEF SessionInv
  <2>4. received' = Append(received, u)
    <3>1. received \in Seq(Unit)
      BY <1>0 DEF TypeOK, BuilderTypeOK
    <3>2. received \o <<u>> = Append(received, u)
      BY <3>1, SMTT(30)
    <3> QED BY <2>1, <2>2, <3>2
  <2>5. Promise!Accept(u)
    BY <1>1, <1>4, <1>5, <2>1, <2>3, <2>4 DEF Promise!Accept
  <2> QED BY <2>5 DEF Promise!PNext
<1>7. CASE Session
  <2>1. UNCHANGED <<received, tag>>
    BY <1>7, SessionFrame
  <2>2. CASE AbortIngest /\ wpipe = "open" /\ reply' = reply
    <3>1. Promise!DropStream
      BY <1>1, <1>2, <1>4, <2>1, <2>2 DEF AbortIngest, Promise!DropStream
    <3> QED BY <3>1 DEF Promise!PNext
  <2>3. CASE \/ \E u \in Unit : StreamData(u)
             \/ StreamWriteFails \/ SessionFails
    <3>1. \/ AbortIngest /\ wpipe = "open" /\ reply' = reply
          \/ UNCHANGED <<wpipe, reply>>
      BY <1>0, <2>3 DEF StreamData, StreamWriteFails, SessionFails, SessionInv
    <3> QED BY <1>3, <2>1, <2>2, <3>1
  <2>4. CASE StreamEnd
    <3>1. wpipe = "open" /\ wpipe' = "eof" /\ reply' = reply
      BY <1>0, <2>4 DEF StreamEnd, SessionInv
    <3>2. Promise!EndStream
      BY <1>1, <1>2, <1>4, <2>1, <3>1 DEF Promise!EndStream
    <3> QED BY <3>2 DEF Promise!PNext
  <2>5. CASE SessionReturns
    <3>1. /\ wpipe' = wpipe /\ wpipe # "open" /\ reply = "none"
          /\ reply' \in {"BackupEnd", "Error"}
          /\ reply' = "BackupEnd" => outcome = "ok"
      BY <1>0, <2>5 DEF SessionReturns, AnswerInv
    <3>2. reply' = "BackupEnd" => Backup # NoTag
      <4> SUFFICES ASSUME reply' = "BackupEnd" PROVE Backup # NoTag
        OBVIOUS
      <4>1. tag # NoTag
        BY <1>0, <3>1 DEF AnswerInv
      <4>2. Restored(tag) = received /\ received \in Seq(Unit)
        BY <1>0, <4>1 DEF RestoredIsTheStream, TypeOK, BuilderTypeOK
      <4> QED BY <4>1, <4>2, NothingAssumption DEF Backup
    <3>3. Promise!Answer
      BY <1>1, <1>4, <1>5, <2>1, <3>1, <3>2 DEF Promise!Answer
    <3> QED BY <3>3 DEF Promise!PNext
  <2> QED BY <1>7, <2>3, <2>4, <2>5 DEF Session
<1>8. CASE Advance
  <2>1. UNCHANGED <<wpipe, reply, received>>
    BY <1>8, AdvanceFrame
  <2>2. CASE bpc = "publish" /\ tag' = Image
    <3>1. wpipe = "eof" /\ tag = NoTag
      BY <1>0, <2>2, PublishReady DEF TagInv
    <3>2. reply = "none"
      BY <1>0, <2>2 DEF SessionInv, AnswerInv
    <3>3. Image # NoTag
      <4>1. rows \in Seq(Row) /\ layers \in Seq(Result)
        BY <1>0 DEF TypeOK, BuilderTypeOK
      <4>2. Image \in Published
        BY <4>1 DEF Image, Published
      <4> QED BY <4>2, NothingAssumption
    <3>4. Backup = NoTag /\ Backup' = received
      BY <2>2, <3>1, <3>3, RestoredIs DEF Backup
    <3>5. Promise!Publish
      BY <1>1, <1>5, <2>1, <3>1, <3>2, <3>4 DEF Promise!Publish
    <3> QED BY <3>5 DEF Promise!PNext
  <2>3. CASE tag' = tag
    BY <1>3, <2>1, <2>3
  <2> QED BY <2>2, <2>3, TagMoves
<1>9. CASE \/ ReadAborted \/ StoreChunk \/ ChunkLost \/ Roll \/ DrainEnd
           \/ Cleanup \/ Handoff \/ Uploader \/ Aside
  BY <1>3, <1>9, QuietFrame
<1> QED BY <1>6, <1>7, <1>8, <1>9, NextCases

\* Restoring a published image, layer after layer, gives back the stream the client sent,
\* for every chunking, layering and nonce (publish and the readers' order of layers).
THEOREM RestoredExact == Spec => []RestoredIsTheStream
<1>1. Init => RestoredIsTheStream
  BY DEF Init, RestoredIsTheStream
<1>2. PipelineInv /\ RestoredIsTheStream /\ [Next]_vars => RestoredIsTheStream'
  BY RestoredStep
<1> QED BY <1>1, <1>2, Invariance, PTL DEF Spec

\* The ingest pipeline of a v2 session keeps BackupPromise: it publishes once at most,
\* only the stream that was ended, and answers once, positively only when published.
THEOREM PromiseKept == Spec => KeepsPromise
<1>1. Init => Promise!PInit
  BY DEF Init, Promise!PInit, Phase, Backup
<1>2. /\ PipelineInv /\ PipelineInv' /\ RestoredIsTheStream /\ [Next]_vars
      => [Promise!PNext]_(Promise!pvars)
  BY PromiseStep
<1> QED BY <1>1, <1>2, Invariance, RestoredExact, PTL DEF Spec, Promise!PSpec, KeepsPromise
=============================================================================
