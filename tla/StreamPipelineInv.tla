-------------------------- MODULE StreamPipelineInv --------------------------
(***************************************************************************)
(* The inductive invariant behind the safety properties of StreamPipeline. *)
(* The properties speak of published images, of one control point or of    *)
(* the work directory; what makes them hold is how the four goroutines'    *)
(* positions fit together, which the parts below state one by one.         *)
(***************************************************************************)
EXTENDS StreamPipeline

\* The builder has not left the path that leads to publish.
Building == bpc \in {"check", "read", "store", "roll", "send", "rolled",
                     "drain", "drained", "scanwait", "publish"}
\* Every unit the client ended its stream with is in the table.
Drained == wpipe = "eof" /\ frame = <<>> /\ buf = <<>>

\* Who holds the write side of the pipe: it can only be closed from "open" or
\* "writing", so an end of stream is never turned into an abort.
SessionInv ==
  /\ frame # <<>> => sess = "writing"
  /\ sess \in {"open", "writing"} => wpipe = "open"
  /\ wpipe = "eof" => sess \in {"finish", "closed"}
  /\ sess = "closed" => bpc = "done"

\* Where the builder stands, and what its chunk buffer and spool then hold.
BuilderInv ==
  /\ nextFrom <= Len(rows)
  /\ Building => (spool.open <=> nextFrom < Len(rows))
  /\ bpc = "store" => buf # <<>>
  /\ last => Drained /\ bpc \notin {"check", "read", "store"}
  /\ bpc \in {"check", "roll", "send", "rolled"} => buf = <<>>
  /\ bpc = "roll" /\ ~last => spool.open
  /\ bpc \in {"send", "rolled", "done"} => ~spool.open
  /\ bpc \in {"drain", "drained", "scanwait", "publish"} =>
       Drained /\ ~spool.open

\* The chunk table and the chunk being cut are, together, what was received.
StreamInv ==
  Building =>
    /\ Len(buf) <= Len(received)
    /\ \A j \in 1..Len(buf) : buf[j] = received[Len(received) - Len(buf) + j]
    /\ rows = <<>> => Len(buf) = Len(received)
    /\ rows # <<>> => rows[1].at = 0
    /\ \A i \in 1..Len(rows) :
         /\ Len(rows[i].payload) > 0
         /\ rows[i].at + Len(rows[i].payload) <= Len(received) - Len(buf)
         /\ rows[i].at + Len(rows[i].payload) =
              (IF i = Len(rows) THEN Len(received) - Len(buf)
                                ELSE rows[i + 1].at)
         /\ \A j \in 1..Len(rows[i].payload) :
              rows[i].payload[j] = received[rows[i].at + j]

\* What is on its way to the uploader, and when the channel may be closed.
ChannelInv ==
  /\ outbox # <<>> <=> bpc = "send"
  /\ job # <<>> <=> upc \in {"check", "build", "head", "put"}
  /\ Len(outbox) <= 1 /\ Len(job) <= 1
  /\ closing => bpc \notin {"check", "read", "store", "roll", "send", "rolled",
                            "drain"}

\* Which goroutines have ended, and how, when the builder gets to its end.
EndInv ==
  /\ upc = "exit" => closing
  /\ bpc \in {"scanwait", "publish", "close", "cleanup", "done"} => upc = "exit"
  /\ bpc \in {"scanwait", "publish"} => ~uploadErr
  /\ bpc = "publish" => ~scanErr /\ scan = "done" /\ rows # <<>>

\* The first chunk no result accounts for yet.
Unclaimed == IF job # <<>> THEN job[1].from
             ELSE IF outbox # <<>> THEN outbox[1].from ELSE nextFrom

\* The layers in flight are consecutive ranges that end where the spool starts.
PendingInv ==
  /\ outbox # <<>> =>
       /\ outbox[1].index = layerCount - 1
       /\ outbox[1].from <= outbox[1].to /\ outbox[1].to + 1 = nextFrom
  /\ job # <<>> =>
       /\ job[1].index = layerCount - 1 - Len(outbox)
       /\ job[1].from <= job[1].to
       /\ job[1].to + 1 =
            (IF outbox # <<>> THEN outbox[1].from ELSE nextFrom)

\* A result is recorded only once the registry holds its blob.
PushedInv == \A k \in 1..Len(results) : results[k].digest \in registry

\* As long as no upload failed, the results and the layers in flight cut the
\* chunk table into consecutive layers.
ChainInv ==
  ~uploadErr =>
    /\ Len(results) + Len(job) + Len(outbox) = layerCount
    /\ results = <<>> => Unclaimed = 0
    /\ results # <<>> => results[1].from = 0
    /\ \A k, l \in 1..Len(results) :
         k < l => results[k].to < results[l].from
    /\ \A k \in 1..Len(results) :
         /\ results[k].index = k - 1
         /\ results[k].from <= results[k].to
         /\ results[k].to < Unclaimed
         /\ results[k].to + 1 =
              (IF k = Len(results) THEN Unclaimed ELSE results[k + 1].from)
         /\ results[k].digest =
              BlobDigest(rows, results[k].from, results[k].to)

\* drainUploader gave every chunk of a result the path of its layer.
NamedInv ==
  bpc \in {"scanwait", "publish"} =>
    /\ layers = results
    /\ \A k \in 1..Len(results) :
         \A i \in results[k].from..results[k].to :
           rows[i + 1].p = results[k].digest

\* shouldRoll keeps a layer in reserve for as long as chunks may come.
BudgetInv ==
  /\ layerCount <= MaxDataLayers
  /\ bpc \in {"check", "read", "store"} => layerCount < MaxDataLayers
  /\ bpc = "roll" =>
       layerCount < IF last THEN MaxDataLayers ELSE MaxDataLayers - 1
  /\ bpc \in {"send", "rolled"} /\ ~last => layerCount < MaxDataLayers

\* Every file in the work directory belongs to a goroutine that removes it.
DiskInv ==
  \A f \in disk :
    \/ f = SpoolFile(layerCount) /\ spool.open
    \/ outbox # <<>> /\ f = SpoolFile(outbox[1].index)
    \/ job # <<>> /\ f = SpoolFile(job[1].index)
    \/ job # <<>> /\ f = LayerFile(job[1].index) /\ upc \in {"head", "put"}

\* A publication happens on the way out, and nothing it rests on moves after.
TagInv ==
  tag # NoTag => bpc \in {"close", "cleanup", "done"}

\* A session that waits for the builder has closed the pipe, it answers when it ends and
\* not before, and a run that ended well has published.
AnswerInv ==
  /\ sess = "finish" => wpipe = "eof"
  /\ sess \in {"abort", "closed"} => wpipe # "open"
  /\ sess # "closed" => reply = "none"
  /\ frame # <<>> => \E u \in Unit : frame = <<u>>
  /\ outcome = "ok" => tag # NoTag

\* The conjunction TLAPS proves inductive (StreamPipelineProofs); it implies
\* every state property of StreamPipeline that the code is meant to keep.
PipelineInv ==
  /\ TypeOK /\ SessionInv /\ BuilderInv /\ StreamInv /\ ChannelInv
  /\ EndInv /\ PendingInv /\ PushedInv /\ ChainInv /\ NamedInv /\ BudgetInv
  /\ DiskInv /\ TagInv /\ AnswerInv
  /\ PublishedIsTheStream /\ PublishedLayersPushed
=============================================================================
