---------------------------- MODULE PrivacyFilter ----------------------------
(***************************************************************************)
(* The redaction sidecar (tools/privacy-filter/server.mjs): the load of    *)
(* the model into a cache that outlives the process, and the redaction of  *)
(* a text from the labels that the model gives to its tokens.              *)
(***************************************************************************)
EXTENDS Naturals, FiniteSets, Sequences

CONSTANTS
    Types,         \* the categories of the model's labels
    Chunks,        \* how many data_<i> files the model has; the code looks for six
    Clip,          \* the longest text that is read, 8000 in the code
    MaxRestarts    \* bound: restarts

VARIABLES
    cache,      \* the files of the volume
    step,       \* the file the load is at
    loadState,
    runs,       \* whether the host's provider can execute the graph
    online,     \* whether the model's site answers
    restarts,
    served,     \* history: whether the model was ever ready on this volume
    reply       \* what /redact was asked and answered, or NoReply

filterVars == <<cache, step, loadState, runs, online, restarts, served, reply>>

------------------------------------------------------------------------------
\* decodeBioes, infer and redact

Label == [tag : {"B", "I", "E", "S"}, type : Types] \cup {[tag |-> "O", type |-> "O"]}
Entity(type, s, e) == [type |-> type, s |-> s, e |-> e]
NoEntity == Entity("O", 0, 0)

Push(ents, cur) == IF cur = NoEntity THEN ents ELSE ents \cup {cur}

\* Mutant: an inside label of another category extends the entity at hand.
ReadLabelStray(acc, lab, i) ==
    LET new == Entity(lab.type, i, i)
        on == IF acc.cur # NoEntity THEN Entity(acc.cur.type, acc.cur.s, i) ELSE NoEntity
    IN  CASE lab.tag = "O" -> [ents |-> Push(acc.ents, acc.cur), cur |-> NoEntity]
          [] lab.tag = "S" -> [ents |-> Push(acc.ents, acc.cur) \cup {new}, cur |-> NoEntity]
          [] lab.tag = "B" -> [ents |-> Push(acc.ents, acc.cur), cur |-> new]
          [] lab.tag = "I" -> [ents |-> acc.ents, cur |-> on]
          [] lab.tag = "E" -> [ents |-> Push(acc.ents, on), cur |-> NoEntity]

\* What the i-th label adds to the entities so far and to the one at hand; a broken sequence is
\* tolerated.
ReadLabel(acc, lab, i) ==
    LET new == Entity(lab.type, i, i)
        same == acc.cur # NoEntity /\ acc.cur.type = lab.type
        before == IF same THEN acc.ents ELSE Push(acc.ents, acc.cur)
        on == IF same THEN Entity(lab.type, acc.cur.s, i) ELSE new
    IN  CASE lab.tag = "O" -> [ents |-> Push(acc.ents, acc.cur), cur |-> NoEntity]
          [] lab.tag = "S" -> [ents |-> Push(acc.ents, acc.cur) \cup {new}, cur |-> NoEntity]
          [] lab.tag = "B" -> [ents |-> Push(acc.ents, acc.cur), cur |-> new]
          [] lab.tag = "I" -> [ents |-> before, cur |-> on]
          [] lab.tag = "E" -> [ents |-> before \cup {on}, cur |-> NoEntity]

\* The entities of a label sequence.
DecodeBioes(labels) ==
    LET upTo[i \in 0..Len(labels)] ==
            IF i = 0 THEN [ents |-> {}, cur |-> NoEntity] ELSE ReadLabel(upTo[i - 1], labels[i], i)
        end == upTo[Len(labels)]
    IN  Push(end.ents, end.cur)

\* A text is a sequence of blanks and of letters, a letter being its own place in the text.
Blank == 0
Texts == UNION {{[i \in 1..n |-> IF i \in B THEN Blank ELSE i] : B \in SUBSET (1..n)} : n \in 1..Clip + 1}
ClipOf(text) == SubSeq(text, 1, IF Len(text) > Clip THEN Clip ELSE Len(text))
Letters(s) == {s[i] : i \in DOMAIN s} \cap (1..Clip)

\* The tokens of a text (external): the places where they end.
Tokenizations(clip) ==
    {ends \in UNION {[1..m -> DOMAIN clip] : m \in DOMAIN clip} :
        /\ ends[Len(ends)] = Len(clip)
        /\ \A i, j \in DOMAIN ends : i < j => ends[i] < ends[j]}
StartOf(ends, k) == IF k = 1 THEN 1 ELSE ends[k - 1] + 1

\* The letters of an entity, without the blanks around them; none are dropped from the answer.
Span(start, end, type) == [start |-> start, end |-> end, type |-> type]
Trimmed(clip, ends, ent) ==
    LET from == StartOf(ends, ent.s)
        letters == {i \in from..ends[ent.e] : clip[i] # Blank}
    IN  IF letters = {} THEN Span(from, from - 1, ent.type)
        ELSE Span(CHOOSE i \in letters : \A j \in letters : i <= j,
                  CHOOSE i \in letters : \A j \in letters : j <= i, ent.type)

Infer(clip, ends, labels) ==
    {e \in {Trimmed(clip, ends, ent) : ent \in DecodeBioes(labels)} : e.start <= e.end}

\* The letters under a label, with its category.
Labelled(clip, ends, labels) ==
    {l \in (DOMAIN clip) \X Types :
        /\ clip[l[1]] # Blank
        /\ \E k \in DOMAIN ends : /\ labels[k].tag # "O" /\ labels[k].type = l[2]
                                  /\ l[1] \in StartOf(ends, k)..ends[k]}

\* Replaced from the end of the text, so that the places of the others stay right; no two
\* entities start at one place.
Splice(r, e) == SubSeq(r, 1, e.start - 1) \o <<e.type>> \o SubSeq(r, e.end + 1, Len(r))
Redact(clip, ents) ==
    LET from[p \in 1..Len(clip) + 1] ==
            IF p > Len(clip) THEN clip
            ELSE IF \E e \in ents : e.start = p
                 THEN Splice(from[p + 1], CHOOSE e \in ents : e.start = p)
                 ELSE from[p + 1]
    IN  from[1]

------------------------------------------------------------------------------
\* load

\* tokenizer, config, graph, data, then data_1, data_2, ... until one is absent
Downloads == 1..4 + 6
Upstream(f) == f <= 4 + Chunks
Optional(f) == f >= 4
Session == 4 + 7

NoReply == [text |-> <<>>, labelled |-> {}, redacted |-> <<>>]

TypeOK ==
    /\ cache \in [Downloads -> {"absent", "part", "whole"}]
    /\ step \in Downloads \cup {Session}
    /\ loadState \in {"loading", "ready", "error", "cpu-unsupported"}
    /\ runs \in BOOLEAN /\ online \in BOOLEAN /\ served \in BOOLEAN
    /\ restarts \in 0..MaxRestarts

Init ==
    /\ cache = [f \in Downloads |-> "absent"] /\ step = 1 /\ loadState = "loading"
    /\ runs \in BOOLEAN /\ online \in BOOLEAN
    /\ restarts = 0 /\ served = FALSE /\ reply = NoReply

Loading(f) == loadState = "loading" /\ step = f /\ f \in Downloads

\* A file that exists, a truncated one included, is not downloaded again; the configuration is parsed.
Cached(f) ==
    /\ Loading(f) /\ cache[f] # "absent"
    /\ IF f = 2 /\ cache[f] = "part" THEN loadState' = "error" /\ step' = step
       ELSE step' = f + 1 /\ loadState' = loadState
    /\ UNCHANGED <<cache, runs, online, restarts, served, reply>>

Downloaded(f) ==
    /\ Loading(f) /\ cache[f] = "absent" /\ online /\ Upstream(f)
    /\ cache' = [cache EXCEPT ![f] = "whole"] /\ step' = f + 1
    /\ UNCHANGED <<loadState, runs, online, restarts, served, reply>>

\* Mutant: a file may be missing at the site, but the site may not.
FailsUnlessMissing(f) ==
    /\ loadState' = IF Optional(f) /\ online THEN loadState ELSE "error"
    /\ step' = IF ~Optional(f) THEN step ELSE IF f = 4 THEN 5 ELSE Session

\* A failed download ends the load, except that of the data file, and of a chunk, which ends the chain.
Fails(f) ==
    /\ loadState' = IF Optional(f) THEN loadState ELSE "error"
    /\ step' = IF ~Optional(f) THEN step ELSE IF f = 4 THEN 5 ELSE Session

Refused(f) ==
    /\ Loading(f) /\ cache[f] = "absent" /\ ~(online /\ Upstream(f))
    /\ Fails(f)
    /\ UNCHANGED <<cache, runs, online, restarts, served, reply>>

\* The body breaks off: what came of it stays; the tokenizer's cache (external) keeps whole files only.
CutOff(f) ==
    /\ Loading(f) /\ cache[f] = "absent" /\ online /\ Upstream(f)
    /\ cache' = [cache EXCEPT ![f] = IF f = 1 THEN @ ELSE "part"]
    /\ Fails(f)
    /\ UNCHANGED <<runs, online, restarts, served, reply>>

\* The runtime (external) takes a graph whose files are whole, and only operators its provider has.
CreateSession ==
    /\ loadState = "loading" /\ step = Session
    /\ loadState' = IF \E f \in Downloads : Upstream(f) /\ cache[f] # "whole" THEN "error"
                    ELSE IF runs THEN "ready" ELSE "cpu-unsupported"
    /\ served' = (served \/ loadState' = "ready")
    /\ UNCHANGED <<cache, step, runs, online, restarts, reply>>

\* POST /redact; the model (external) may label the tokens in any way.
Answer ==
    /\ loadState = "ready" /\ reply = NoReply
    /\ \E text \in Texts : \E ends \in Tokenizations(ClipOf(text)) :
         \E labels \in [DOMAIN ends -> Label] :
            reply' = [text |-> ClipOf(text),
                      labelled |-> Labelled(ClipOf(text), ends, labels),
                      redacted |-> Redact(ClipOf(text), Infer(ClipOf(text), ends, labels))]
    /\ UNCHANGED <<cache, step, loadState, runs, online, restarts, served>>

Answered ==
    /\ reply # NoReply /\ reply' = NoReply
    /\ UNCHANGED <<cache, step, loadState, runs, online, restarts, served>>

\* A failed load is not tried again until the process is restarted.
Restart ==
    /\ restarts < MaxRestarts /\ restarts' = restarts + 1 /\ reply = NoReply
    /\ loadState' = "loading" /\ step' = 1
    /\ UNCHANGED <<cache, runs, online, served, reply>>

Network ==
    /\ reply = NoReply /\ online' = ~online
    /\ UNCHANGED <<cache, step, loadState, runs, restarts, served, reply>>

Load == CreateSession \/ \E f \in Downloads : Cached(f) \/ Downloaded(f) \/ Refused(f) \/ CutOff(f)
Next == Load \/ Answer \/ Answered \/ Restart \/ Network

------------------------------------------------------------------------------
\* server.mjs:11: the weights download once, "after that it runs fully offline": on a volume that
\* was ever loaded from, no later load ends in an error, whatever the network does.
RunsOffline == served => loadState # "error"

\* infer and redact: whatever the order and the breaks of the labels, the answer holds none of the
\* letters the model labelled, and each of the others, once and in their order; in the place of a
\* letter that is gone is the category it was labelled with.
InPlace(q, i) ==
    \A j \in DOMAIN reply.redacted :
        reply.redacted[j] \in 1..Clip => (reply.redacted[j] < q <=> j < i)
RedactsWhatIsLabelled ==
    /\ Letters(reply.redacted) = Letters(reply.text) \ {l[1] : l \in reply.labelled}
    /\ \A i \in DOMAIN reply.redacted :
         reply.redacted[i] \in 1..Clip => InPlace(reply.redacted[i], i)
    /\ \A l \in reply.labelled :
         \E i \in DOMAIN reply.redacted : reply.redacted[i] = l[2] /\ InPlace(l[1], i)
==============================================================================
