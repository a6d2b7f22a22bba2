------------------------------ MODULE Queries ------------------------------
(***************************************************************************)
(* Occlusion and event queries of Direct3D 11, from the immediate context  *)
(* to the finishing thread.                                                *)
(*                                                                         *)
(* The application records draws between Begin and End of queries, on the  *)
(* immediate context or in a command list.  The encode thread gives the    *)
(* draws offsets into the visibility buffer of the chunk, notes at which   *)
(* offsets each VisibilityResultQuery begins and ends, and may merge       *)
(* render passes; the GPU writes what passed the depth test; the finishing *)
(* thread adds it up (VisibilityResultReadback), while GetData may look at *)
(* the query at any time.  An event query is answered by the shared event. *)
(*                                                                         *)
(* Draw n lets 10^(n-1) samples pass, so that every digit of a result says *)
(* how often a draw was counted.                                           *)
(***************************************************************************)
EXTENDS Integers, Sequences, SequencesExt, FiniteSetsExt

CONSTANTS
  Occlusion,            \* the application's occlusion queries
  kEventStallThreshold, \* polls of an event before GetData flushes anyway
  MaxSeq,               \* bound: chunks the application records into
  MaxDraws,             \* bound: draws
  MaxQueries            \* bound: VisibilityResultQuery objects used, and
                        \*   calls of End on the event query, together

ASSUME QueriesAssumption ==
  /\ {kEventStallThreshold, MaxSeq, MaxDraws, MaxQueries} \subseteq Nat
  /\ MaxSeq > 0

VARIABLES
  state,        \* OcclusionQuery::state_
  query,        \* OcclusionQuery::query_: an object, 0 a fresh one
  event,        \* the event query: state, should_be_signaled_at, stall_counter
  recorded,     \* the commands of CurrentChunk()
  seq,          \* CurrentSeqId()
  in_pass,      \* cmdbuf_state: a render encoder is active
  promote_flush, dirty, current_event_seq_id,
  vis,          \* the VisibilityResultQuery objects handed out
  published,    \* chunks to be encoded
  active,       \* active_visibility_query_count_
  pending_queries,
  committed,    \* chunks with the GPU
  issuing,      \* issue() calls the finishing thread is about to make
  signaled,     \* the value of the shared event
  \* history
  draws,        \* draws recorded
  executed,     \* draws executed by the GPU
  open,         \* objects between Begin and End
  want,         \* samples of the draws between Begin and End, by object
  events,       \* calls of End on the event query
  event_draws,  \* draws recorded at the last of them
  early,        \* known limit: it was in a list, and is signaled before it
  restarted,    \* known limit: objects begun twice
  bled,         \* known limit: chunks where a draw was counted by the
                \*   mode of the pass merged in front of it
  missed        \* known limit: objects that ended in a chunk without results

queryVars == <<state, query, event>>
contextVars == <<recorded, seq, in_pass, promote_flush, dirty, current_event_seq_id>>
encVars == <<published, active, pending_queries>>
gpuVars == <<committed, issuing, signaled, executed>>
askVars == <<draws, open, want, events, event_draws, early, restarted>>
limitVars == <<bled, missed>>
vars == <<queryVars, contextVars, vis, encVars, gpuVars, askVars, limitVars>>

Nowhere == -1                       \* ~0uLL as an offset
Never == MaxSeq + 2                 \* ~0uLL as a sequence number
Samples(n) == 10 ^ (n - 1)

(* VisibilityResultQuery, as constructed.                                  *)
FreshQuery == [value |-> 0, begin_seq |-> Never, begin_at |-> Nowhere,
               end_seq |-> Never, end_at |-> Nowhere, issued |-> 0]

Init ==
  /\ state = [q \in Occlusion |-> "Signaled"]
  /\ query = [q \in Occlusion |-> 0]
  /\ event = [state |-> "Undefined", at |-> 0, stall |-> 0]
  /\ recorded = <<>> /\ seq = 1 /\ in_pass = FALSE
  /\ promote_flush = FALSE /\ dirty = FALSE /\ current_event_seq_id = 0
  /\ vis = <<>>
  /\ published = <<>>
  /\ active = 0 /\ pending_queries = <<>>
  /\ committed = <<>> /\ issuing = <<>> /\ signaled = 0 /\ executed = 0
  /\ draws = 0 /\ open = {} /\ want = <<>>
  /\ events = 0 /\ event_draws = 0 /\ early = FALSE
  /\ restarted = {} /\ bled = {} /\ missed = {}

-----------------------------------------------------------------------------
(* The immediate context.                                                  *)

Cmd(op, n) == [op |-> op, n |-> n]
MayRecord == seq <= MaxSeq

(* A draw counts for every query that is open, and for those of its list.  *)
Counted(w, os) ==
  [o \in DOMAIN w |-> w[o] + IF o \in os THEN Samples(draws + 1) ELSE 0]

EndedPass == IF in_pass THEN Append(recorded, Cmd("end", 0)) ELSE recorded

(* Commit(): CommitCurrentChunk gives the chunk an event of its own; next  *)
(* is what is recorded into the following chunk at once.                   *)
Commit(commands, next) ==
  /\ seq' = seq + 1 /\ recorded' = next
  /\ published' = Append(published, [seq |-> seq, commands |-> commands,
                                     event |-> current_event_seq_id + 1])
  /\ current_event_seq_id' = current_event_seq_id + 1
  /\ promote_flush' = FALSE /\ dirty' = (next # <<>>)
  /\ UNCHANGED <<active, pending_queries>>

(* Draw(): PreDraw starts the render encoder, which commits what has been  *)
(* promoted; EmitOP marks the context.                                     *)
Draw ==
  /\ MayRecord /\ draws < MaxDraws
  /\ draws' = draws + 1
  /\ want' = Counted(want, open)
  /\ in_pass' = TRUE
  /\ LET draw == Cmd("draw", draws + 1)
         pass == <<Cmd("start", 0), draw>>
     IN  \/ ~in_pass /\ promote_flush /\ seq < MaxSeq /\ Commit(recorded, pass)
         \/ /\ in_pass \/ ~promote_flush
            /\ recorded' = recorded \o (IF in_pass THEN <<draw>> ELSE pass)
            /\ dirty' = TRUE
            /\ UNCHANGED <<seq, promote_flush, current_event_seq_id, encVars>>
  /\ UNCHANGED <<open, events, event_draws, early, restarted>>
  /\ UNCHANGED <<queryVars, vis, gpuVars, limitVars>>

(* InvalidateCurrentPass(defer_commit), by operations that need another    *)
(* encoder.  Uploads, readbacks and, when they begin, clears of unordered  *)
(* access views and of parts of a view defer the commit; clears of render  *)
(* targets and of depth, copies and dispatches do not.                     *)
InvalidateCurrentPass(defer_commit) ==
  /\ in_pass' = FALSE
  /\ \/ promote_flush /\ ~defer_commit /\ seq < MaxSeq /\ Commit(EndedPass, <<>>)
     \/ /\ defer_commit \/ ~promote_flush
        /\ recorded' = EndedPass
        /\ UNCHANGED <<seq, promote_flush, dirty, current_event_seq_id, encVars>>
  /\ UNCHANGED <<queryVars, vis, gpuVars, askVars, limitVars>>

(* PrepareFlush() and Commit() of Present1.                                *)
Present ==
  /\ seq < MaxSeq
  /\ in_pass' = FALSE /\ Commit(EndedPass, <<>>)
  /\ UNCHANGED <<queryVars, vis, gpuVars, askVars, limitVars>>

(* Mutant: what has been promoted is forgotten.                            *)
FlushDirty ==
  IF dirty
  THEN in_pass' = FALSE /\ Commit(EndedPass, <<>>)
  ELSE UNCHANGED <<contextVars, encVars>>

(* Flush1().                                                               *)
Flush ==
  IF dirty \/ promote_flush
  THEN in_pass' = FALSE /\ Commit(EndedPass, <<>>)
  ELSE UNCHANGED <<contextVars, encVars>>

-----------------------------------------------------------------------------
(* Queries on the immediate context.                                       *)

NewObject == Len(vis) + 1
MayQuery == Len(vis) + events < MaxQueries

(* Begin() of a query that is not building: an issued one is discarded for *)
(* a new object.                                                           *)
Begin(q) ==
  /\ MayRecord /\ MayQuery
  /\ state[q] # "Building"
  /\ state' = [state EXCEPT ![q] = "Building"]
  /\ query' = [query EXCEPT ![q] = NewObject]
  /\ vis' = Append(vis, FreshQuery)
  /\ recorded' = Append(recorded, Cmd("begin", NewObject))
  /\ open' = open \cup {NewObject} /\ want' = Append(want, 0)
  /\ UNCHANGED <<event, seq, in_pass, promote_flush, dirty, current_event_seq_id>>
  /\ UNCHANGED <<draws, events, event_draws, early, restarted>>
  /\ UNCHANGED <<encVars, gpuVars, limitVars>>

(* Begin() of a query that is building has no effect, although the draws   *)
(* before it no longer count.                                              *)
BeginAgain(q) ==
  /\ MayRecord /\ state[q] = "Building"
  /\ want' = [want EXCEPT ![query[q]] = 0]
  /\ restarted' = restarted \cup {query[q]}
  /\ UNCHANGED <<queryVars, contextVars, vis, encVars, gpuVars, limitVars>>
  /\ UNCHANGED <<draws, open, events, event_draws, early>>

(* End(): ignored unless the query is building, but for promote_flush.     *)
End(q) ==
  /\ MayRecord
  /\ promote_flush' = TRUE
  /\ \/ /\ state[q] = "Building"
        /\ state' = [state EXCEPT ![q] = "Issued"]
        /\ recorded' = Append(recorded, Cmd("stop", query[q]))
        /\ open' = open \ {query[q]}
     \/ state[q] # "Building" /\ UNCHANGED <<state, recorded, open>>
  /\ UNCHANGED <<query, event, seq, in_pass, dirty, current_event_seq_id>>
  /\ UNCHANGED <<draws, want, events, event_draws, early, restarted>>
  /\ UNCHANGED <<vis, encVars, gpuVars, limitVars>>

(* A new event is signaled behind what is recorded.                        *)
EventSignaled(behind) ==
  /\ current_event_seq_id' = current_event_seq_id + 1
  /\ recorded' = EndedPass \o <<Cmd("signal", current_event_seq_id')>> \o behind

(* End() of the event query: a new event, or the last one if nothing was   *)
(* recorded since.                                                         *)
EndEvent ==
  /\ MayRecord /\ MayQuery
  /\ \/ /\ dirty
        /\ EventSignaled(<<>>)
        /\ in_pass' = FALSE
        /\ promote_flush' = TRUE /\ dirty' = FALSE
     \/ ~dirty /\ UNCHANGED <<current_event_seq_id, recorded, in_pass, promote_flush, dirty>>
  /\ event' = [state |-> "Issued", at |-> current_event_seq_id', stall |-> 0]
  /\ events' = events + 1 /\ event_draws' = draws /\ early' = FALSE
  /\ UNCHANGED <<state, query, seq, draws, open, want, restarted>>
  /\ UNCHANGED <<vis, encVars, gpuVars, limitVars>>

ListDraw == <<Cmd("start", 0), Cmd("draw", draws + 1), Cmd("end", 0)>>

(* ExecuteCommandList() of a list that draws once, between Begin and End   *)
(* of q; its query gets a new object (DoDeferredQuery).  The list's        *)
(* promote_flush replaces the context's.                                   *)
ExecuteQueryList(q) ==
  /\ MayRecord /\ draws < MaxDraws /\ MayQuery
  /\ state[q] # "Building"
  /\ state' = [state EXCEPT ![q] = "Issued"]
  /\ query' = [query EXCEPT ![q] = NewObject]
  /\ vis' = Append(vis, FreshQuery)
  /\ draws' = draws + 1
  /\ want' = Counted(Append(want, 0), open \cup {NewObject})
  /\ recorded' = EndedPass \o <<Cmd("begin", NewObject), Cmd("start", 0),
       Cmd("draw", draws + 1), Cmd("stop", NewObject), Cmd("end", 0)>>
  /\ in_pass' = FALSE /\ promote_flush' = TRUE /\ dirty' = TRUE
  /\ UNCHANGED <<event, seq, current_event_seq_id, open, events, event_draws, early, restarted>>
  /\ UNCHANGED <<encVars, gpuVars, limitVars>>

(* ExecuteCommandList() of a list without queries.                         *)
ExecuteDrawList ==
  /\ MayRecord /\ draws < MaxDraws
  /\ draws' = draws + 1
  /\ want' = Counted(want, open)
  /\ recorded' = EndedPass \o ListDraw
  /\ in_pass' = FALSE /\ promote_flush' = FALSE /\ dirty' = TRUE
  /\ UNCHANGED <<seq, current_event_seq_id, open, events, event_draws, early, restarted>>
  /\ UNCHANGED <<queryVars, vis, encVars, gpuVars, limitVars>>

(* ExecuteCommandList() of a list that draws and ends the event query: End *)
(* comes before the commands of the list, whose draw the event so misses.  *)
ExecuteEventList ==
  /\ MayRecord /\ draws < MaxDraws /\ MayQuery
  /\ draws' = draws + 1
  /\ want' = Counted(want, open)
  /\ IF dirty
     THEN EventSignaled(ListDraw)
     ELSE recorded' = EndedPass \o ListDraw /\ UNCHANGED current_event_seq_id
  /\ event' = [state |-> "Issued", at |-> current_event_seq_id', stall |-> 0]
  /\ events' = events + 1 /\ event_draws' = draws + 1 /\ early' = TRUE
  /\ in_pass' = FALSE /\ promote_flush' = TRUE /\ dirty' = TRUE
  /\ UNCHANGED <<state, query, seq, open, restarted>>
  /\ UNCHANGED <<vis, encVars, gpuVars, limitVars>>

(* VisibilityResultQuery::getValue.                                        *)
HasValue(o) == vis[o].end_seq <= vis[o].issued

(* GetData() of an occlusion query; a query answered gets a fresh object,  *)
(* one that is not is flushed for.                                         *)
GetData(q) ==
  /\ state[q] = "Issued"
  /\ \/ /\ HasValue(query[q])
        /\ state' = [state EXCEPT ![q] = "Signaled"]
        /\ query' = [query EXCEPT ![q] = 0]
        /\ UNCHANGED <<contextVars, encVars>>
     \/ ~HasValue(query[q]) /\ Flush /\ UNCHANGED <<state, query>>
  /\ UNCHANGED <<event, vis, gpuVars, askVars, limitVars>>

(* GetData() of the event query, by default with DONOTFLUSH: it counts the *)
(* polls (CheckEventState), and a stalled application is flushed for all   *)
(* the same.                                                               *)
Stalled == kEventStallThreshold + 1
PollEvent ==
  /\ event.state = "Issued"
  /\ \/ /\ event.at <= signaled
        /\ event' = [event EXCEPT !.state = "Signaled", !.stall = 0]
        /\ UNCHANGED <<contextVars, encVars>>
     \/ /\ event.at > signaled /\ event.stall < kEventStallThreshold
        /\ event' = [event EXCEPT !.stall = @ + 1]
        /\ UNCHANGED <<contextVars, encVars>> \/ Flush
     \/ /\ event.at > signaled /\ event.stall >= kEventStallThreshold
        /\ event' = [event EXCEPT !.stall = Stalled]
        /\ Flush
  /\ UNCHANGED <<state, query, vis, gpuVars, askVars, limitVars>>

-----------------------------------------------------------------------------
(* The encode thread.  A chunk is encoded in one step: nobody else looks at *)
(* its passes, and what GetData and issue() read of an object changes once *)
(* per chunk as far as they can tell.                                      *)
(* e: objects, active, pending: what outlives the chunk; vro; passes: the  *)
(* render commands, pass by pass; marks: the events, each with the draws   *)
(* before it; stops: the numbers of passes before them.                    *)

FreshEncoder ==
  [objects |-> vis, active |-> active, pending |-> pending_queries,
   vro |-> [within |-> FALSE, dirty |-> FALSE, previous |-> Nowhere, next |-> 0],
   passes |-> <<>>, marks |-> <<>>, stops |-> {}]

beginEncoder(e) ==
  [e EXCEPT !.vro.within = TRUE, !.passes = Append(@, <<>>)]

endEncoder(e) ==
  [e EXCEPT !.vro = [within |-> FALSE, dirty |-> FALSE, previous |-> Nowhere,
                     next |-> IF e.vro.dirty THEN @.next + 1 ELSE @.next]]

(* Mutant: the offset of the last draw is read.                            *)
getNextReadOffsetLast(e) == e.vro.next

(* VisibilityResultOffsetBumpState::getNextReadOffset: the first offset    *)
(* that no draw so far has written, and the state after it.                *)
getNextReadOffset(e) == IF e.vro.within /\ e.vro.dirty THEN e.vro.next + 1 ELSE e.vro.next
AfterRead(e) == [e.vro EXCEPT !.next = getNextReadOffset(e), !.dirty = FALSE]

beginVisibilityResultQuery(e, s, o) ==
  [e EXCEPT !.objects[o] = [@ EXCEPT !.value = 0,
                              !.begin_seq = s, !.begin_at = getNextReadOffset(e),
                              !.end_seq = Never, !.end_at = Nowhere],
            !.vro = AfterRead(e), !.active = @ + 1, !.pending = Append(@, o)]

(* A query that ends where it began has its value at once.                 *)
EndsWhereItBegan(e, s, o) ==
  e.objects[o].begin_seq = s /\ e.objects[o].begin_at = getNextReadOffset(e)
endVisibilityResultQuery(e, s, o) ==
  [e EXCEPT !.objects[o] = [@ EXCEPT !.end_seq = s, !.end_at = getNextReadOffset(e),
                              !.issued = IF EndsWhereItBegan(e, s, o) THEN s ELSE @],
            !.vro = AfterRead(e), !.active = @ - 1]

(* bumpVisibilityResultOffset: the mode is set when it changes.            *)
WriteOffset(e) == IF e.active > 0 THEN e.vro.next ELSE Nowhere
bumpAndDraw(e, n) ==
  [e EXCEPT !.vro.dirty = @ \/ e.active > 0, !.vro.previous = WriteOffset(e),
            !.passes[Len(e.passes)] = @
               \o (IF WriteOffset(e) # e.vro.previous
                   THEN <<Cmd("mode", WriteOffset(e))>> ELSE <<>>)
               \o <<Cmd("draw", n)>>]

DrawsSoFar(e) ==
  Max({0} \cup {c.n : c \in {c \in ToSet(FlattenSeq(e.passes)) : c.op = "draw"}})
signalEvent(e, n) ==
  [e EXCEPT !.marks = Append(@, [event |-> n, draws |-> DrawsSoFar(e)]),
            !.stops = @ \cup {Len(e.passes)}]

(* CommandList::execute, of one command of the chunk.                      *)
Encoded(e, s, c) ==
  CASE c.op = "start" -> beginEncoder(e)
    [] c.op = "end" -> endEncoder(e)
    [] c.op = "begin" -> beginVisibilityResultQuery(e, s, c.n)
    [] c.op = "stop" -> endVisibilityResultQuery(e, s, c.n)
    [] c.op = "draw" -> bumpAndDraw(e, c.n)
    [] c.op = "signal" -> signalEvent(e, c.n)

EncodedChunk(chunk) ==
  FoldLeft(LAMBDA e, c : Encoded(e, chunk.seq, c), FreshEncoder, chunk.commands)

(* The commands the GPU gets when the passes in joined continue the one    *)
(* before; Metal starts a render encoder with counting disabled.           *)
Stream(passes, joined) ==
  FlattenSeq([p \in DOMAIN passes |->
    IF p \in joined THEN passes[p] ELSE <<Cmd("mode", Nowhere)>> \o passes[p]])

ModeAt(s, k) == s[Max({m \in 1 .. k : s[m].op = "mode"})].n
DrawsAt(s, at) == {s[k].n : k \in {k \in DOMAIN s : s[k].op = "draw" /\ ModeAt(s, k) = at}}
Results(s, count) ==
  [at \in 1 .. count |-> MapThenSumSet(Samples, DrawsAt(s, at - 1))]

(* checkEncoderRelation merges passes on the same render targets, whether  *)
(* or not other encoders lie between, but never over an event.             *)
Joinable(e) == {p \in 2 .. Len(e.passes) : p - 1 \notin e.stops}

(* Mutant: no query is forgotten.                                          *)
StillPendingAll(e, chunk) == e.pending

(* flushCommands makes the readback, if draws were counted, and forgets    *)
(* the queries that have ended.                                            *)
Readback(e, chunk, s) ==
  [seq |-> chunk.seq, results |-> Results(s, e.vro.next),
   queries |-> IF e.vro.next > 0 THEN e.pending ELSE <<>>]
StillPending(e, chunk) ==
  SelectSeq(e.pending, LAMBDA o : e.objects[o].end_seq # chunk.seq)

CommitChunkInternal ==
  /\ published # <<>>
  /\ LET chunk == Head(published)
     IN  \E e \in {EncodedChunk(chunk)} : \E joined \in SUBSET Joinable(e) :
         \E s \in {Stream(e.passes, joined)} :
           LET last == [event |-> chunk.event, draws |-> DrawsSoFar(e)]
           IN  /\ committed' = Append(committed, [readback |-> Readback(e, chunk, s),
                                                  marks |-> Append(e.marks, last)])
               /\ vis' = e.objects /\ active' = e.active
               /\ pending_queries' = StillPending(e, chunk)
               /\ bled' = IF \E at \in 0 .. e.vro.next - 1 :
                               DrawsAt(s, at) # DrawsAt(Stream(e.passes, {}), at)
                          THEN bled \cup {chunk.seq} ELSE bled
               /\ missed' = missed \cup {o \in ToSet(e.pending) :
                    /\ e.vro.next = 0
                    /\ e.objects[o].begin_seq < chunk.seq /\ e.objects[o].end_seq = chunk.seq}
  /\ published' = Tail(published)
  /\ UNCHANGED <<queryVars, contextVars, askVars, issuing, signaled, executed>>

-----------------------------------------------------------------------------
(* The GPU executes up to the next event of the oldest chunk.              *)
Execute ==
  /\ committed # <<>> /\ Head(committed).marks # <<>>
  /\ LET mark == Head(Head(committed).marks)
     IN  /\ signaled' = mark.event
         /\ executed' = Max({executed, mark.draws})
  /\ committed' = [committed EXCEPT ![1].marks = Tail(@)]
  /\ UNCHANGED <<queryVars, contextVars, vis, encVars, askVars, limitVars, issuing>>

(* The finishing thread: chunk.reset() destroys the readback, ...          *)
Finish ==
  /\ issuing = <<>> /\ committed # <<>> /\ Head(committed).marks = <<>>
  /\ LET r == Head(committed).readback
     IN  issuing' = [n \in DOMAIN r.queries |->
                       [query |-> r.queries[n], seq |-> r.seq, results |-> r.results]]
  /\ committed' = Tail(committed)
  /\ UNCHANGED <<queryVars, contextVars, vis, encVars, askVars, limitVars, signaled, executed>>

(* ... which adds the chunk's results to its queries, one by one.          *)
Span(o, s, count) ==
  LET first == IF s = vis[o].begin_seq THEN vis[o].begin_at ELSE 0
      end == IF s = vis[o].end_seq THEN vis[o].end_at ELSE count
  IN  first + 1 .. end

Issue ==
  /\ issuing # <<>>
  /\ LET i == Head(issuing)
     IN  vis' = [vis EXCEPT
           ![i.query].value = @ + MapThenSumSet(LAMBDA n : i.results[n],
                                    Span(i.query, i.seq, Len(i.results))),
           ![i.query].issued = i.seq]
  /\ issuing' = Tail(issuing)
  /\ UNCHANGED <<queryVars, contextVars, encVars, askVars, limitVars,
                 committed, signaled, executed>>

-----------------------------------------------------------------------------
Next ==
  \/ Draw \/ Present \/ EndEvent \/ PollEvent \/ ExecuteDrawList \/ ExecuteEventList
  \/ \E defer_commit \in BOOLEAN : InvalidateCurrentPass(defer_commit)
  \/ \E q \in Occlusion : Begin(q) \/ BeginAgain(q) \/ End(q) \/ ExecuteQueryList(q) \/ GetData(q)
  \/ CommitChunkInternal \/ Execute \/ Finish \/ Issue

(* A step of the encode thread is one that takes a chunk.                  *)
EncoderStep == published # <<>> /\ published' = Tail(published)

(* The threads and the GPU run; the application polls what it has issued,  *)
(* and owes nothing else.                                                  *)
Fairness ==
  /\ WF_published(EncoderStep)
  /\ WF_vars(Execute) /\ WF_vars(Finish) /\ WF_vars(Issue)
  /\ WF_vars(PollEvent) /\ \A q \in Occlusion : WF_vars(GetData(q))

Spec == Init /\ [][Next]_vars /\ Fairness

-----------------------------------------------------------------------------
(* Types, and the assertions of issue() for every call to come.            *)
TypesHold ==
  /\ state \in [Occlusion -> {"Building", "Issued", "Signaled"}]
  /\ query \in [Occlusion -> 0 .. MaxQueries]
  /\ event \in [state : {"Undefined", "Issued", "Signaled"}, at : Nat, stall : 0 .. Stalled]
  /\ seq \in 1 .. MaxSeq + 1 /\ draws \in 0 .. MaxDraws /\ events \in 0 .. MaxQueries
  /\ {in_pass, promote_flush, dirty, early} \subseteq BOOLEAN
  /\ ToSet(pending_queries) \cup open \subseteq DOMAIN vis

AssertionsHold ==
  /\ active >= 0
  /\ \A n \in DOMAIN issuing :
       LET i == issuing[n]
           o == vis[i.query]
       IN  /\ o.begin_seq <= i.seq /\ i.seq <= o.end_seq
           /\ i.seq = o.begin_seq => o.begin_at <= Len(i.results)
           /\ i.seq = o.end_seq => o.end_at <= Len(i.results)

(* The event query is answered only when all that was drawn before its End *)
(* has been executed; a list ends it too early.                            *)
EventCoversWork ==
  event.state # "Undefined" /\ event.at <= signaled => early \/ executed >= event_draws

(* What always holds of queries: types, the assertions of issue() on the   *)
(* finishing thread, and the promise of the event query.                   *)
QueryInv == TypesHold /\ AssertionsHold /\ EventCoversWork

(* The answer of a query counts the samples of every draw between its      *)
(* Begin and End, and of no other, once: whatever passes and chunks they   *)
(* fell into, however queries overlap.  Left out are queries begun twice   *)
(* and those of a chunk where merged passes made a draw count (bled).      *)
Answered(o) == vis[o].end_seq # Never /\ HasValue(o)
Bled(o) == \E s \in bled : vis[o].begin_seq <= s /\ s <= vis[o].end_seq
BracketCounted ==
  \A o \in DOMAIN vis :
    Answered(o) /\ o \notin restarted /\ ~Bled(o) => vis[o].value = want[o]

(* GetData in a loop answers, in the end: the chunk of the End is committed*)
(* by the poll, if by nothing else, and its results come back, unless no   *)
(* draw was counted in the last of several chunks (missed).                *)
QueriesAnswered ==
  /\ \A q \in Occlusion :
       state[q] = "Issued" ~> state[q] # "Issued" \/ query[q] \in missed
  /\ event.state = "Issued" ~> event.state # "Issued"

=============================================================================
