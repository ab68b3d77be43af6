---------------------------- MODULE RequestProofs -----------------------------
(***************************************************************************)
(* Whatever the trees and the texts are, however they are cut and whatever *)
(* mem_alloc refuses, the blocks that are allocated between two segments   *)
(* are those that the connection holds.  Two hypotheses exclude what the   *)
(* parser does lose blocks for: Orderly, which says what the clients and   *)
(* the network do not do, and NoFault, that no block is used or given back *)
(* that is not there.                                                      *)
(*                                                                         *)
(* Inside the loop p holds the blocks, but where an error has left a       *)
(* boundary half made (Doomed); the literal boundary, whose reference is a *)
(* constant, is there only for data that have no length (RefInv).  That    *)
(* each step of the parser on p keeps this is shown operator by operator   *)
(* (Leads, Begins), then action by action.                                 *)
(***************************************************************************)
EXTENDS Request, TLAPS

\* The literal boundary, which is not in the heap.
Literal == <<CR, LF, CR, LF>>

\* What a character may not be: the arguments and the boundary begin once, the
\* boundary after the type.
Polite(q, c) ==
  Marked(q.c.blob, q.handler) =>
    /\ q.c.args => c \notin {"?", LF}
    /\ q.c.state = "content_type" /\ q.c.blob.at = Multipart => q.post.boundary = None
    /\ q.c.state = "attributes" /\ IsAttribute(q.c.blob, "boundary") =>
         q.post.boundary # None /\ q.post.boundary.buffer = None

Header == {"attributes", "content_type", "post_end", "post_args"}

\* What the requests and the network do not do.  A damaged segment does not come
\* while blocks are held; data in parts do not begin before their boundary has
\* been read; a request in parts that ends, or fails, has a length; and a doPostIn
\* that cannot be prepared is met in a segment that began in a header, after the
\* one that brought the command, with no literal boundary.  Where one of them is
\* not so the code loses blocks, or mistakes the literal boundary for one.
Orderly ==
  /\ p.damaged < request.damages => ~ p.c.post /\ ~ p.c.args
  /\ p.pc = "loop" /\ p.x < p.end => Polite(p, Text[p.x + 1])
  /\ p.pc = "data" /\ p.post.boundary # None => p.post.boundary.buffer # None
  /\ p.pc = "end" /\ (p.c.state = "end" \/ Failed(p)) /\ p.c.post /\ p.post.boundary # None
     /\ p.post.boundary.ref # Literal => p.post.length # NoLength
  /\ CannotPrepare =>
       /\ conn.post /\ conn.args = p.c.args /\ conn.state \in Header
       /\ p.post.boundary # None => p.post.boundary.ref # Literal

\* The states of a POST that has a handler.
PostStates == {"attributes", "content_type", "post_end", "post_args", "post_data",
               "init_buffer", "boundary"}

\* The fields of the records.
IsConnection(c) ==
  /\ c = [state |-> c.state, blob |-> c.blob, ready |-> c.ready, handler |-> c.handler,
          args |-> c.args, arg_ref |-> c.arg_ref, post |-> c.post, post_url |-> c.post_url]
  /\ c.blob = [tree |-> c.blob.tree, at |-> c.blob.at]
  /\ c.blob.at \in Seq(Characters) /\ c.args \in BOOLEAN /\ c.post \in BOOLEAN
IsPost(d) ==
  /\ d = [length |-> d.length, type |-> d.type, file |-> d.file, boundary |-> d.boundary,
          co |-> d.co, read |-> d.read]
  /\ d.boundary \in Boundaries \cup {None} /\ d.file \in Files \cup {None}
Is(q) ==
  /\ q = [pc |-> q.pc, x |-> q.x, end |-> q.end, c |-> q.c, handler |-> q.handler,
          sized |-> q.sized, args |-> q.args, post |-> q.post, allocated |-> q.allocated,
          got |-> q.got, stack |-> q.stack, damaged |-> q.damaged, fault |-> q.fault]
  /\ IsConnection(q.c) /\ (q.c.post => IsPost(q.post))

\* The blocks that a connection and its post data point to.
One(b) == IF b THEN 1 ELSE 0
Counts(args, data, file, boundary, ref, buffer) ==
  [args |-> args, post_data |-> data, filename |-> file, boundary |-> boundary,
   boundary_ref |-> ref, boundary_buffer |-> buffer]
Owned(c, d) ==
  Counts(One(c.args), One(c.post), One(c.post /\ d.file # None),
         One(c.post /\ d.boundary # None),
         One(c.post /\ d.boundary # None /\ d.boundary.ref # Literal),
         One(c.post /\ d.boundary # None /\ d.boundary.buffer # None))

\* mem_alloc has refused one of the two blocks of a boundary: the cleaning that
\* follows is a fault.
Doomed(q) ==
  /\ q.pc = "end" /\ Failed(q) /\ q.c.post /\ q.post.boundary # None
  /\ ~ q.post.boundary.live \/ q.post.boundary.buffer = None

\* The state and what has been found.
States(c, handler) ==
  /\ c.state \in PostStates => c.post /\ handler # None
  /\ c.state = "cmd" => ~ c.post /\ handler \in {None, Page404, Page505}

\* The boundaries that are read do not begin as the literal one does, which is
\* there only in data that have no length.
RefInv(q) ==
  q.c.post /\ q.post.boundary # None =>
    LET b == q.post.boundary IN
    /\ b.ref # << >> /\ b.ref # Literal => b.ref[1] # CR
    /\ b.ref = << >> => b.buffer = None
    /\ b.ref = Literal =>
         /\ q.post.length = NoLength /\ q.handler # None
         /\ \/ q.c.state \in {"post_data", "init_buffer"}
            \/ q.pc = "end" /\ (Failed(q) \/ q.c.state = "end")

\* Where the parser stands; the buffer is there where it is used.
StateInv(q) ==
  /\ States(q.c, q.handler)
  /\ q.pc \in {"data", "in"} => q.c.state = "post_data"
  /\ q.pc = "in" /\ q.post.boundary # None => q.post.boundary.buffer # None
  /\ q.c.state \in {"init_buffer", "boundary"} =>
       q.post.boundary # None /\ q.post.boundary.buffer # None

\* The blocks that are allocated are those that tmp_connection holds.
Good(q) ==
  /\ Is(q)
  /\ StateInv(q) /\ RefInv(q)
  /\ q.allocated = Owned(q.c, q.post) \/ Doomed(q)

\* conn, between the segments.
Resumed == [p EXCEPT !.c = conn, !.handler = conn.handler, !.pc = "loop"]
ConnInv ==
  /\ IsConnection(conn)
  /\ States(conn, conn.handler)
  /\ conn.state = "out" /\ conn.handler = None => ~ conn.args /\ ~ conn.post
  /\ p.damaged < request.damages => ~ conn.args /\ ~ conn.post

\* The text and the places in it.
WhereInv ==
  /\ request \in Requests /\ sent \in Nat
  /\ p.pc # "idle" => p.x \in Nat /\ p.end \in 0 .. Len(Text)

\* Between the segments the blocks are those of conn, in the loop those of p.
HeapInv ==
  /\ WhereInv
  /\ ConnInv
  /\ p.pc = "idle" => Good(Resumed)
  /\ p.pc # "idle" =>
       /\ Good(p) /\ p.c.state # "out" /\ p.pc \in {"loop", "data", "in", "end"}
       /\ p.c.handler # None => p.handler # None
----------------------------------------------------------------------------
\* What most steps keep.
Frame(q, t) ==
  /\ t.x = q.x /\ t.end = q.end /\ t.damaged = q.damaged /\ (t.fault = None => q.fault = None)
  /\ t.c.handler = q.c.handler /\ (q.handler # None => t.handler # None)

\* A step that changes no block.
Quiet(q, t) ==
  /\ Is(t) /\ Frame(q, t)
  /\ t.allocated = q.allocated /\ t.post = q.post
  /\ t.c.args = q.c.args /\ t.c.post = q.c.post
  /\ \/ t.handler = q.handler /\ t.pc = q.pc
     \/ t.handler = q.handler /\ t.pc = "end" /\ t.c.state = "end"
     \/ t.handler = Page404 /\ t.pc = "end"
  /\ \/ t.c.state = q.c.state
     \/ t.c.state \in Header /\ q.c.state \in Header
     \/ t.c.state = "end" /\ t.pc = "end"

\* None is none of the values it is compared with.
LEMMA Nones ==
  /\ None \notin Seq(Characters) /\ None \notin Boundaries /\ None \notin Files
  /\ None \notin Faults /\ None \notin Mimes /\ Page404 # None /\ Page505 # None
<1>1. None \notin Seq(Characters) \cup Boundaries \cup Files \cup Faults \cup Mimes \cup {Page404, Page505}
  BY RequestAssumption, Zenon
<1> QED
  BY <1>1

\* Attributes are compared in capitals.
LEMMA UpperCharacters ==
  ASSUME NEW c \in Characters
  PROVE  ToUpper(c) \in Characters
<1>1. CASE \E i \in 1 .. 26 : Lower[i] = c
  <2>1. PICK i : i = CHOOSE j \in 1 .. 26 : Lower[j] = c
    OBVIOUS
  <2>2. i \in 1 .. 26
    BY <1>1, <2>1
  <2>3. ToUpper(c) = Upper[i]
    BY <1>1, <2>1 DEF ToUpper
  <2>4. DOMAIN Upper = 1 .. 26
    BY DEF Upper
  <2> QED
    BY <2>2, <2>3, <2>4, Zenon DEF Characters, Range
<1>2. CASE ~ \E i \in 1 .. 26 : Lower[i] = c
  BY <1>2 DEF ToUpper
<1> QED
  BY <1>1, <1>2

\* A step of the walk of a tree changes no block, or ends in the 404 page.
LEMMA WalkQuiet ==
  ASSUME NEW q, Is(q), NEW c \in Characters
  PROVE  Quiet(q, Walk(q, c))
<1> DEFINE d == IF q.c.state = "attributes" THEN ToUpper(c) ELSE c
           at == Append(q.c.blob.at, d)
<1>1. PICK e : e = d
  OBVIOUS
<1>2. e \in Characters
  BY <1>1, UpperCharacters
<1>3. PICK at1 : at1 = Append(q.c.blob.at, e)
  OBVIOUS
<1>4. at1 \in Seq(Characters)
  <2>1. q.c.blob.at \in Seq(Characters)
    BY DEF Is, IsConnection
  <2> QED
    BY <1>2, <1>3, <2>1
<1>5. ASSUME NEW t, t = [q EXCEPT !.c.blob.at = at1] PROVE Quiet(q, t)
  BY <1>4, <1>5 DEF Quiet, Is, IsConnection, Frame
<1>6. ASSUME NEW t, t = [q EXCEPT !.c.blob = At("content")] PROVE Quiet(q, t)
  <2>1. PICK b : b = At("content")
    OBVIOUS
  <2>2. b = [tree |-> b.tree, at |-> b.at] /\ b.at \in Seq(Characters)
    BY <2>1 DEF At
  <2>3. t = [q EXCEPT !.c.blob = b]
    BY <1>6, <2>1
  <2> QED
    BY <2>2, <2>3 DEF Quiet, Is, IsConnection, Frame
<1>7. ASSUME NEW t, t = Error(q, Page404) PROVE Quiet(q, t)
  BY <1>7, Nones DEF Quiet, Is, IsConnection, Frame, Error
<1>8. \/ Walk(q, c) = [q EXCEPT !.c.blob.at = at1]
      \/ Walk(q, c) = [q EXCEPT !.c.blob = At("content")]
      \/ Walk(q, c) = Error(q, Page404)
  BY <1>1, <1>3, Zenon DEF Walk
<1> QED
  BY <1>5, <1>6, <1>7, <1>8

\* A character of the value of an argument is written in the block that is there.
LEMMA ArgValueQuiet ==
  ASSUME NEW q, Is(q), NEW c
  PROVE  Quiet(q, ArgValue(q, c))
<1>1. ASSUME NEW t, NEW v, t = [q EXCEPT !.args = v] PROVE Quiet(q, t)
  BY <1>1 DEF Quiet, Is, IsConnection, Frame
<1>2. Quiet(q, q)
  BY DEF Quiet, Frame
<1> DEFINE arg == q.c.arg_ref
           type == Resources[q.handler].args[arg]
<1>3. PICK t : t = [q EXCEPT !.args[arg].text[type.size - q.args[arg].left] = c,
                             !.args[arg].left = @ - 1]
  OBVIOUS
<1>4. Quiet(q, t)
  <2>1. t = [q EXCEPT !.args = t.args]
    BY <1>3 DEF Is
  <2> QED
    BY <1>1, <2>1
<1>5. ASSUME NEW u, NEW v, u = [q EXCEPT !.args[arg] = v] PROVE Quiet(q, u)
  <2>1. u = [q EXCEPT !.args = u.args]
    BY <1>5 DEF Is
  <2> QED
    BY <1>1, <2>1
<1>6. \A w : Quiet(q, [q EXCEPT !.args[arg] = w])
  BY <1>5
<1>7. PICK w : w = (q.args[arg] * 10 + Value(c)) % (IF type.kind = "ui8" THEN 256 ELSE 65536)
  OBVIOUS
<1>8. ArgValue(q, c) \in {q, t, [q EXCEPT !.args[arg] = w]}
  <2>1. CASE type.kind # "str"
    BY <1>7, <2>1 DEF ArgValue
  <2>2. CASE type.kind = "str" /\ q.args[arg].left = 0
    BY <2>2 DEF ArgValue
  <2>3. CASE type.kind = "str" /\ q.args[arg].left # 0
    BY <1>3, <2>3 DEF ArgValue
  <2> QED
    BY <2>1, <2>2, <2>3
<1> QED
  BY <1>2, <1>4, <1>6, <1>8

\* Two steps that change no block change none.
LEMMA QuietTwice ==
  ASSUME NEW q, NEW t, NEW u, Quiet(q, t), t.pc # "end" \/ q.pc = "end", Quiet(t, u)
  PROVE  Quiet(q, u)
BY DEF Quiet, Frame, Header

\* What follows the search for a resource changes no block.
LEMMA RestQuiet ==
  ASSUME NEW q, Is(q), q.pc = "loop", NEW c \in Characters, NEW curr
  PROVE  Quiet(q, Rest(q, c, curr))
<1> DEFINE state == IF q.c.state = "attributes" /\ c = CR THEN "post_end"
                    ELSE IF q.c.state = "post_end" /\ c # Expected(curr) THEN "attributes"
                    ELSE q.c.state
           blob == CASE state = q.c.state  -> q.c.blob
                     [] state = "post_end"   -> At("end")
                     [] state = "attributes" -> At("content")
           t == [q EXCEPT !.c.state = state, !.c.blob = blob]
<1>1. /\ state = q.c.state \/ (state \in Header /\ q.c.state \in Header)
      /\ state # q.c.state => state \in {"post_end", "attributes"}
  BY DEF Header
<1>2. blob = [tree |-> blob.tree, at |-> blob.at] /\ blob.at \in Seq(Characters)
  <2>1. state = q.c.state \/ state = "post_end" \/ state = "attributes"
    BY <1>1
  <2>2. \A n : At(n) = [tree |-> At(n).tree, at |-> At(n).at] /\ At(n).at \in Seq(Characters)
    BY DEF At
  <2> HIDE DEF state
  <2> QED
    BY <2>1, <2>2 DEF Is, IsConnection
<1>3. PICK u : u = t
  OBVIOUS
<1>4. Quiet(q, u) /\ u.pc = "loop"
  <2> HIDE DEF state, blob
  <2> QED
    BY <1>1, <1>2, <1>3 DEF Quiet, Is, IsConnection, Frame
<1>5. u.c.state = state
  <2> HIDE DEF state, blob
  <2> QED
    BY <1>3 DEF Is, IsConnection
<1>6. Is(u)
  BY <1>4 DEF Quiet
<1>7. ASSUME NEW v, v = [u EXCEPT !.c.arg_ref = None, !.c.blob = At("args")] PROVE Quiet(u, v)
  <2>1. PICK b : b = At("args")
    OBVIOUS
  <2>2. b = [tree |-> b.tree, at |-> b.at] /\ b.at \in Seq(Characters)
    BY <2>1 DEF At
  <2>3. v = [u EXCEPT !.c.arg_ref = None, !.c.blob = b]
    BY <1>7, <2>1
  <2> QED
    BY <1>6, <2>2, <2>3 DEF Quiet, Is, IsConnection, Frame
<1>8. ASSUME NEW v, v = [u EXCEPT !.c.ready = TRUE, !.c.state = "end", !.pc = "end"]
      PROVE  Quiet(u, v)
  BY <1>6, <1>8 DEF Quiet, Is, IsConnection, Frame
<1>9. Quiet(u, ArgValue(u, c)) /\ Quiet(u, Walk(u, c)) /\ Quiet(u, u)
  BY <1>6, ArgValueQuiet, WalkQuiet DEF Quiet, Frame
<1>10. ASSUME NEW v, v = [u EXCEPT !.c.blob.at = Append(@, c)] PROVE Quiet(u, v)
  <2>1. PICK a : a = Append(u.c.blob.at, c)
    OBVIOUS
  <2>2. a \in Seq(Characters)
    <3>1. u.c.blob.at \in Seq(Characters)
      BY <1>6 DEF Is, IsConnection
    <3> QED
      BY <2>1, <3>1
  <2>3. v = [u EXCEPT !.c.blob.at = a]
    BY <1>10, <2>1
  <2> QED
    BY <1>6, <2>2, <2>3 DEF Quiet, Is, IsConnection, Frame
<1>11. \/ Rest(q, c, curr) \in {ArgValue(u, c), Walk(u, c), u}
       \/ Rest(q, c, curr) = [u EXCEPT !.c.arg_ref = None, !.c.blob = At("args")]
       \/ Rest(q, c, curr) = [u EXCEPT !.c.ready = TRUE, !.c.state = "end", !.pc = "end"]
       \/ Rest(q, c, curr) = [u EXCEPT !.c.blob.at = Append(@, c)]
  <2>1. PICK w : w = t
    OBVIOUS
  <2> QED
    BY <1>3 DEF Rest
<1>12. Quiet(u, Rest(q, c, curr))
  BY <1>7, <1>8, <1>9, <1>10, <1>11
<1> QED
  BY <1>4, <1>12, QuietTwice

----------------------------------------------------------------------------
Body == {"post_data", "init_buffer", "boundary"}

\* A step of the loop, in a header.
Leads(q, t) ==
  /\ Good(t)
  /\ Frame(q, t)
  /\ t.c.state # "out" /\ t.pc \in {"loop", "end"}
  /\ t.pc = "loop" => t.c.state \notin Body

\* Where a step of the loop begins.
Reading(q) == Good(q) /\ q.pc = "loop" /\ q.c.state \notin Body \cup {"out"}

\* A boundary that is read from a header.
Named(q) ==
  q.c.post /\ q.post.boundary # None =>
    LET b == q.post.boundary IN
    /\ b.ref # Literal
    /\ b.ref # << >> => b.ref[1] # CR
    /\ b.ref = << >> => b.buffer = None

\* The literal boundary is not there while a header is read, and the blocks are
\* those that are held.
LEMMA ReadingHolds ==
  ASSUME NEW q, Reading(q)
  PROVE  Is(q) /\ States(q.c, q.handler) /\ q.allocated = Owned(q.c, q.post) /\ Named(q)
BY DEF Reading, Good, Doomed, RefInv, StateInv, Body, Named

\* A step of the loop in a header, after which the blocks are those that are held.
LEMMA BlocksHeld ==
  ASSUME NEW q, NEW t, Is(t), Frame(q, t),
         t.allocated = Owned(t.c, t.post), Named(t),
         States(t.c, t.handler), t.c.state \notin {"init_buffer", "boundary", "out"},
         \/ t.pc = "loop" /\ t.c.state # "post_data"
         \/ t.pc = "end"
  PROVE  Leads(q, t)
<1>1. RefInv(t)
  BY DEF RefInv, Named
<1>2. StateInv(t)
  BY DEF StateInv
<1> QED
  BY <1>1, <1>2 DEF Leads, Good, Frame, Body

\* The data begin.
Begins(q, t) ==
  Good(t) /\ Frame(q, t) /\ t.pc = "data" /\ t.c.state = "post_data"

\* The same where the data begin.
LEMMA BlocksHeldInData ==
  ASSUME NEW q, NEW t, Is(t), Frame(q, t),
         t.allocated = Owned(t.c, t.post), Named(t) \/ RefInv(t),
         States(t.c, t.handler), t.c.state = "post_data", t.pc = "data"
  PROVE  Begins(q, t)
<1>1. RefInv(t)
  BY DEF RefInv, Named
<1>2. StateInv(t)
  BY DEF StateInv
<1> QED
  BY <1>1, <1>2 DEF Begins, Good, Frame

\* A step of the loop in a header that allocates nothing and gives nothing back.
LEMMA BlocksKept ==
  ASSUME NEW q, Reading(q), NEW t, Is(t), Frame(q, t),
         t.allocated = q.allocated, t.post = q.post, t.c.args = q.c.args, t.c.post = q.c.post,
         States(t.c, t.handler), t.c.state \notin {"init_buffer", "boundary", "out"},
         \/ t.pc = "loop" /\ t.c.state # "post_data"
         \/ t.pc = "end"
  PROVE  Leads(q, t)
<1>1. t.allocated = Owned(t.c, t.post) /\ Named(t)
  BY ReadingHolds DEF Named, Owned
<1> QED
  BY <1>1, BlocksHeld

\* A step that changes no block is one.
LEMMA QuietLeads ==
  ASSUME NEW q, Reading(q), NEW t, Quiet(q, t)
  PROVE  Leads(q, t)
<1>1. States(t.c, t.handler)
  BY ReadingHolds, Nones DEF Quiet, States, PostStates, Header
<1> QED
  BY <1>1, BlocksKept DEF Quiet, Reading, Body, Header

\* What follows the end of a word in the same character.
LEMMA LeadsRest ==
  ASSUME NEW q, NEW t, Leads(q, t), t.pc = "loop", NEW c \in Characters, NEW curr
  PROVE  Leads(q, Rest(t, c, curr))
<1>1. Reading(t) /\ Is(t)
  BY DEF Leads, Reading, Good
<1>2. Leads(t, Rest(t, c, curr))
  BY <1>1, RestQuiet, QuietLeads DEF Reading
<1> QED
  BY <1>2 DEF Leads, Frame

\* An error ends the loop; the blocks are given back after it.
LEMMA ErrorLeads ==
  ASSUME NEW q, Reading(q), NEW handler \in {Page404, Page505}
  PROVE  Leads(q, Error(q, handler))
<1>1. PICK t : t = Error(q, handler)
  OBVIOUS
<1>2. /\ Is(t) /\ Frame(q, t) /\ t.allocated = q.allocated /\ t.post = q.post /\ t.c = q.c
      /\ t.handler = handler /\ t.pc = "end"
  <2>1. Is(q)
    BY ReadingHolds
  <2>2. t = [q EXCEPT !.handler = handler, !.pc = "end"]
    BY <1>1 DEF Error
  <2> QED
    BY <2>1, <2>2, Nones DEF Is, Frame
<1>3. States(t.c, t.handler) /\ t.c.state \notin {"init_buffer", "boundary", "out"}
  BY <1>2, ReadingHolds, Nones DEF States, Reading, Body
<1> QED
  BY <1>1, <1>2, <1>3, BlocksKept

\* A handler that was found is kept.
LEMMA FoundHandler ==
  ASSUME NEW q, Is(q), NEW t, t = Found(q, q.c.blob.at)
  PROVE  /\ t = [q EXCEPT !.handler = t.handler]
         /\ t.handler # None
         /\ q.handler # None => t.handler = q.handler
<1>1. q.c.blob.at # None
  BY Nones DEF Is, IsConnection
<1>2. t = [q EXCEPT !.handler = t.handler] /\ t.handler = IF q.handler = None THEN q.c.blob.at ELSE q.handler
  BY DEF Found, Is
<1> QED
  BY <1>1, <1>2

\* The name of an argument ends.
LEMMA EqualLeads ==
  ASSUME NEW q, Reading(q)
  PROVE  Leads(q, Equal(q))
<1> DEFINE arg == q.c.blob.at
           type == Resources[q.handler].args[arg]
<1>1. PICK t : t = [q EXCEPT !.c.arg_ref = arg]
  OBVIOUS
<1>2. /\ Is(t) /\ Frame(q, t) /\ t.allocated = q.allocated /\ t.post = q.post
      /\ t.c.args = q.c.args /\ t.c.post = q.c.post /\ t.c.state = q.c.state
      /\ t.handler = q.handler /\ t.pc = q.pc
  <2>1. Is(q)
    BY ReadingHolds
  <2> QED
    BY <1>1, <2>1 DEF Is, IsConnection, Frame
<1>3. PICK u : u = [t EXCEPT !.args[arg].left = type.size - 1]
  OBVIOUS
<1>4. /\ Is(u) /\ Frame(q, u) /\ u.allocated = q.allocated /\ u.post = q.post
      /\ u.c = t.c /\ u.handler = q.handler /\ u.pc = q.pc
  <2>1. u = [t EXCEPT !.args = u.args]
    BY <1>2, <1>3 DEF Is
  <2> QED
    BY <1>2, <2>1 DEF Is, Frame
<1>5. Quiet(q, t) /\ Quiet(q, u)
  BY <1>2, <1>4 DEF Quiet
<1>6. Equal(q) \in {t, u}
  BY <1>1, <1>3 DEF Equal
<1> QED
  BY <1>5, <1>6, QuietLeads

\* The URL of a GET ends the request; that of a POST begins its header.
LEMMA EndUrlLeads ==
  ASSUME NEW q, Reading(q), q.c.state # "cmd", NEW c \in Characters
  PROVE  Leads(q, EndUrl(q, c))
<1>1. PICK t : t = Found(q, q.c.blob.at)
  OBVIOUS
<1>2. Is(q) /\ States(q.c, q.handler)
  BY ReadingHolds
<1>3. t = [q EXCEPT !.handler = t.handler] /\ t.handler # None
  BY <1>1, <1>2, FoundHandler
<1>7. /\ Is(t) /\ Frame(q, t) /\ t.allocated = q.allocated /\ t.post = q.post
      /\ t.c = q.c /\ t.pc = q.pc
  BY <1>2, <1>3 DEF Is, Frame
<1>4. CASE q.c.post /\ ~ q.c.post_url
  BY <1>4, ErrorLeads DEF EndUrl
<1>5. CASE q.c.post /\ q.c.post_url
  <2>1. PICK b : b = At("content")
    OBVIOUS
  <2>2. b = [tree |-> b.tree, at |-> b.at] /\ b.at \in Seq(Characters)
    BY <2>1 DEF At
  <2>3. PICK u : u = [t EXCEPT !.c.state = "attributes", !.c.blob = b, !.c.ready = FALSE]
    OBVIOUS
  <2>4. /\ Is(u) /\ Frame(q, u) /\ u.allocated = q.allocated /\ u.post = q.post
        /\ u.c.args = q.c.args /\ u.c.post = q.c.post /\ u.c.state = "attributes"
        /\ u.handler = t.handler /\ u.pc = q.pc
    BY <1>7, <2>2, <2>3 DEF Is, IsConnection, Frame
  <2>5. States(u.c, u.handler)
    BY <1>3, <1>5, <2>4 DEF States
  <2>6. Leads(q, u) /\ u.pc = "loop"
    BY <2>4, <2>5, BlocksKept DEF Reading
  <2>7. EndUrl(q, c) = Rest(u, c, b)
    BY <1>1, <1>5, <2>1, <2>3 DEF EndUrl
  <2> QED
    BY <2>6, <2>7, LeadsRest
<1>6. CASE ~ q.c.post
  <2>1. PICK u : u = [t EXCEPT !.c.state = "end", !.pc = "end"]
    OBVIOUS
  <2>2. /\ Is(u) /\ Frame(q, u) /\ u.allocated = q.allocated /\ u.post = q.post
        /\ u.c.args = q.c.args /\ u.c.post = q.c.post /\ u.c.state = "end" /\ u.pc = "end"
    BY <1>7, <2>1 DEF Is, IsConnection, Frame
  <2>3. Leads(q, u)
    BY <2>2, BlocksKept DEF States, PostStates
  <2> QED
    BY <1>1, <1>6, <2>1, <2>3 DEF EndUrl
<1> QED
  BY <1>4, <1>5, <1>6

\* A block more, or less, where one is held that was not, or the contrary.
LEMMA OwnedChange ==
  ASSUME NEW c, NEW d, NEW e, NEW g, NEW kind \in Kinds, NEW n \in {1, -1},
         \A k \in Kinds : Owned(e, g)[k] = Owned(c, d)[k] + (IF k = kind THEN n ELSE 0)
  PROVE  /\ [Owned(c, d) EXCEPT ![kind] = @ + n] = Owned(e, g)
         /\ n = -1 => [Owned(c, d) EXCEPT ![kind] = @ - 1] = Owned(e, g)
<1>1. PICK a : a = Owned(c, d)
  OBVIOUS
<1>2. PICK z : z = Owned(e, g)
  OBVIOUS
<1>3. /\ a = [k \in Kinds |-> a[k]] /\ z = [k \in Kinds |-> z[k]]
      /\ \A k \in Kinds : a[k] \in Int /\ z[k] \in Int
  BY <1>1, <1>2 DEF Owned, Counts, Kinds, One
<1>4. \A k \in Kinds : z[k] = IF k = kind THEN a[k] + n ELSE a[k]
  BY <1>1, <1>2, <1>3
<1>5. [a EXCEPT ![kind] = @ + n] = z
  BY <1>3, <1>4
<1>6. n = -1 => [a EXCEPT ![kind] = @ - 1] = z
  BY <1>3, <1>4
<1> QED
  BY <1>1, <1>2, <1>5, <1>6

\* The blocks that are held, kind by kind.
LEMMA OwnedKinds ==
  ASSUME NEW c, NEW d
  PROVE  /\ Owned(c, d)["args"] = One(c.args)
         /\ Owned(c, d)["post_data"] = One(c.post)
         /\ Owned(c, d)["filename"] = One(c.post /\ d.file # None)
         /\ Owned(c, d)["boundary"] = One(c.post /\ d.boundary # None)
         /\ Owned(c, d)["boundary_ref"] = One(c.post /\ d.boundary # None /\ d.boundary.ref # Literal)
         /\ Owned(c, d)["boundary_buffer"] = One(c.post /\ d.boundary # None /\ d.boundary.buffer # None)
BY DEF Owned, Counts

\* The block of the arguments is allocated once, or refused.
LEMMA QuestionLeads ==
  ASSUME NEW q, Reading(q), q.c.state # "cmd", ~ q.c.args, NEW c \in Characters, NEW refused
  PROVE  Leads(q, Question(q, c, refused))
<1>1. PICK f : f = Found(q, q.c.blob.at)
  OBVIOUS
<1>2. Is(q) /\ States(q.c, q.handler) /\ q.allocated = Owned(q.c, q.post) /\ Named(q)
  BY ReadingHolds
<1>3. f = [q EXCEPT !.handler = f.handler] /\ f.handler # None
  BY <1>1, <1>2, FoundHandler
<1>4. /\ Is(f) /\ Frame(q, f) /\ f.allocated = q.allocated /\ f.post = q.post
      /\ f.c = q.c /\ f.pc = q.pc
  BY <1>2, <1>3 DEF Is, Frame
<1>5. PICK t : t = [f EXCEPT !.c.ready = FALSE]
  OBVIOUS
<1>6. /\ Is(t) /\ Frame(q, t) /\ t.allocated = q.allocated /\ t.post = q.post
      /\ t.c.args = q.c.args /\ t.c.post = q.c.post /\ t.c.state = q.c.state
      /\ t.handler = f.handler /\ t.pc = q.pc
  BY <1>4, <1>5 DEF Is, IsConnection, Frame
<1>7. States(t.c, t.handler)
  BY <1>2, <1>3, <1>6 DEF States
<1>8. Leads(q, t) /\ Reading(t)
  <2>1. Leads(q, t)
    BY <1>6, <1>7, BlocksKept DEF Reading, Body
  <2> QED
    BY <1>6, <2>1 DEF Leads, Reading
<1> DEFINE types == Resources[t.handler].args
<1>9. CASE DOMAIN types = {}
  <2>1. Question(q, c, refused) = Rest(t, c, t.c.blob)
    BY <1>1, <1>5, <1>9 DEF Question
  <2> QED
    BY <1>6, <1>8, <2>1, LeadsRest DEF Reading
<1>10. CASE DOMAIN types # {} /\ refused = "args"
  <2>1. PICK u : u = [t EXCEPT !.sized = TRUE, !.c.args = FALSE, !.handler = Page404, !.pc = "end"]
    OBVIOUS
  <2>2. /\ Is(u) /\ Frame(q, u) /\ u.allocated = q.allocated /\ u.post = q.post
        /\ u.c.args = q.c.args /\ u.c.post = q.c.post /\ u.c.state = q.c.state
        /\ u.handler = Page404 /\ u.pc = "end"
    <3>1. q.c.args = FALSE
      BY <1>2 DEF Is, IsConnection
    <3> QED
      BY <1>6, <2>1, <3>1, Nones DEF Is, IsConnection, Frame
  <2>3. States(u.c, u.handler)
    BY <1>2, <2>2, Nones DEF States
  <2>4. Leads(q, u)
    BY <2>2, <2>3, BlocksKept DEF Reading, Body
  <2>5. Question(q, c, refused) = u
    <3>1. PICK v : v = [t EXCEPT !.sized = TRUE, !.c.args = FALSE]
      OBVIOUS
    <3>2. Question(q, c, refused) = Error(v, Page404)
      BY <1>1, <1>5, <1>10, <3>1 DEF Question
    <3> QED
      BY <1>6, <2>1, <3>1, <3>2 DEF Error, Is, IsConnection
  <2> QED
    BY <2>4, <2>5
<1>11. CASE DOMAIN types # {} /\ refused # "args"
  <2>1. PICK args : args = [a \in DOMAIN types |->
                         IF types[a].kind = "str"
                         THEN [text |-> [i \in 1 .. types[a].size - 1 |-> ""], left |-> 0]
                         ELSE 0]
    OBVIOUS
  <2>2. PICK v : v = [t EXCEPT !.c.blob = At("args"), !.c.args = TRUE, !.sized = TRUE, !.args = args]
    OBVIOUS
  <2>3. /\ Is(v) /\ Frame(q, v) /\ v.allocated = q.allocated /\ v.post = q.post
        /\ v.c.args = TRUE /\ v.c.post = q.c.post /\ v.c.state = q.c.state
        /\ v.handler = t.handler /\ v.pc = q.pc
    <3>1. PICK b : b = At("args")
      OBVIOUS
    <3>2. b = [tree |-> b.tree, at |-> b.at] /\ b.at \in Seq(Characters)
      BY <3>1 DEF At
    <3>3. v = [t EXCEPT !.c.blob = b, !.c.args = TRUE, !.sized = TRUE, !.args = args]
      BY <2>2, <3>1
    <3> QED
      BY <1>6, <3>2, <3>3 DEF Is, IsConnection, Frame
  <2>4. Question(q, c, refused) = Took(v, "args")
    BY <1>1, <1>5, <1>11, <2>1, <2>2 DEF Question
  <2>5. PICK u : u = [v EXCEPT !.allocated = [v.allocated EXCEPT !["args"] = @ + 1]]
    OBVIOUS
  <2>6. u = Took(v, "args")
    BY <2>3, <2>5 DEF Took, Is
  <2>7. /\ Is(u) /\ Frame(q, u) /\ u.post = q.post /\ u.c = v.c /\ u.handler = t.handler
        /\ u.pc = q.pc /\ u.allocated = [q.allocated EXCEPT !["args"] = @ + 1]
    BY <2>3, <2>5 DEF Is, Frame
  <2>8. u.allocated = Owned(u.c, u.post)
    <3>1. \A k \in Kinds : Owned(u.c, u.post)[k] =
             Owned(q.c, q.post)[k] + (IF k = "args" THEN 1 ELSE 0)
      BY <2>3, <2>7, OwnedKinds DEF Kinds, One
    <3> QED
      BY <1>2, <2>7, <3>1, OwnedChange DEF Kinds
  <2>9. States(u.c, u.handler)
    BY <1>6, <1>7, <2>3, <2>7 DEF States
  <2>10. Named(u)
    BY <1>2, <2>3, <2>7 DEF Named
  <2>11. Leads(q, u)
    BY <2>3, <2>7, <2>8, <2>9, <2>10, BlocksHeld DEF Reading, Body
  <2> QED
    BY <2>4, <2>6, <2>11
<1> QED
  BY <1>9, <1>10, <1>11

\* A place at the root of a tree.
LEMMA AtIs ==
  ASSUME NEW tree, NEW b, b = At(tree)
  PROVE  b = [tree |-> b.tree, at |-> b.at] /\ b.at \in Seq(Characters)
BY DEF At

\* A step that changes only where the walk is.
LEMMA PlaceQuiet ==
  ASSUME NEW q, Is(q), NEW b, b = [tree |-> b.tree, at |-> b.at], b.at \in Seq(Characters),
         NEW t, t = [q EXCEPT !.c.blob = b]
  PROVE  Quiet(q, t) /\ t.pc = q.pc
<1>1. /\ Is(t) /\ Frame(q, t) /\ t.allocated = q.allocated /\ t.post = q.post
      /\ t.c.args = q.c.args /\ t.c.post = q.c.post /\ t.c.state = q.c.state
      /\ t.handler = q.handler /\ t.pc = q.pc
  BY DEF Is, IsConnection, Frame
<1> QED
  BY <1>1 DEF Quiet

\* The walk goes to another tree.
LEMMA PlaceLeads ==
  ASSUME NEW q, Reading(q), NEW tree
  PROVE  /\ Leads(q, [q EXCEPT !.c.blob = At(tree)])
         /\ [q EXCEPT !.c.blob = At(tree)].pc = "loop"
<1>1. PICK b : b = At(tree)
  OBVIOUS
<1>2. b = [tree |-> b.tree, at |-> b.at] /\ b.at \in Seq(Characters)
  BY <1>1, AtIs
<1>3. Is(q)
  BY ReadingHolds
<1>4. PICK t : t = [q EXCEPT !.c.blob = b]
  OBVIOUS
<1>5. Quiet(q, t) /\ t.pc = q.pc
  BY <1>2, <1>3, <1>4, PlaceQuiet
<1> QED
  BY <1>1, <1>4, <1>5, QuietLeads DEF Reading

\* The end of a URL or of a word of its arguments.
LEMMA UrlLeads ==
  ASSUME NEW q, Reading(q), q.c.state # "cmd", NEW c \in Characters, NEW refused,
         q.c.args => c \notin {"?", LF}
  PROVE  Leads(q, Url(q, c, refused))
<1> DEFINE ofPost == q.c.blob.tree = "urls" /\ Resources[q.c.blob.at].post
<1>1. Is(q)
  BY ReadingHolds
<1>2. PICK t : t = IF ofPost /\ q.c.state = "url" THEN [q EXCEPT !.c.post_url = TRUE] ELSE q
  OBVIOUS
<1>3. /\ Is(t) /\ Frame(q, t) /\ t.allocated = q.allocated /\ t.post = q.post
      /\ t.c.args = q.c.args /\ t.c.post = q.c.post /\ t.c.state = q.c.state
      /\ t.handler = q.handler /\ t.pc = q.pc
  <2>1. PICK u : u = [q EXCEPT !.c.post_url = TRUE]
    OBVIOUS
  <2>2. /\ Is(u) /\ Frame(q, u) /\ u.allocated = q.allocated /\ u.post = q.post
        /\ u.c.args = q.c.args /\ u.c.post = q.c.post /\ u.c.state = q.c.state
        /\ u.handler = q.handler /\ u.pc = q.pc
    BY <1>1, <2>1 DEF Is, IsConnection, Frame
  <2>3. t \in {q, u}
    BY <1>2, <2>1
  <2> QED
    BY <1>1, <2>2, <2>3 DEF Frame
<1>4. Leads(q, t) /\ Reading(t) /\ t.pc = "loop"
  <2>1. Quiet(q, t)
    BY <1>3 DEF Quiet
  <2>2. Leads(q, t)
    BY <2>1, QuietLeads
  <2> QED
    BY <1>3, <2>2 DEF Leads, Reading
<1>5. ASSUME NEW u, Leads(t, u) PROVE Leads(q, u)
  BY <1>4, <1>5 DEF Leads, Frame
<1>6. Leads(t, EndUrl(t, c)) /\ Leads(t, Equal(t))
  BY <1>3, <1>4, EndUrlLeads, EqualLeads
<1>7. c \in {"?", LF} => Leads(t, Question(t, c, refused))
  BY <1>3, <1>4, QuestionLeads
<1>8. Leads(q, Error(q, Page404))
  BY ErrorLeads
<1>9. Leads(t, Fault(t, "handler"))
  <2>1. PICK u : u = Fault(t, "handler")
    OBVIOUS
  <2>2. /\ Is(u) /\ Frame(t, u) /\ u.allocated = t.allocated /\ u.post = t.post
        /\ u.c = t.c /\ u.handler = t.handler /\ u.pc = "end"
    <3>1. "handler" # None
      BY Nones DEF Faults
    <3>2. u = [t EXCEPT !.fault = "handler", !.pc = "end"]
      BY <2>1 DEF Fault
    <3> QED
      BY <1>3, <3>1, <3>2 DEF Is, Frame
  <2>3. States(u.c, u.handler)
    BY <1>4, <2>2, ReadingHolds
  <2> QED
    BY <1>4, <2>1, <2>2, <2>3, BlocksKept DEF Reading, Body
<1>10. \A tree : Leads(t, Rest([t EXCEPT !.c.blob = At(tree)], c, At(tree)))
  <2> SUFFICES ASSUME NEW tree
               PROVE  Leads(t, Rest([t EXCEPT !.c.blob = At(tree)], c, At(tree)))
    OBVIOUS
  <2>1. PICK u : u = [t EXCEPT !.c.blob = At(tree)]
    OBVIOUS
  <2>2. Leads(t, u) /\ u.pc = "loop"
    BY <1>4, <2>1, PlaceLeads
  <2> QED
    BY <2>1, <2>2, LeadsRest
<1>11. \A curr : Leads(t, Rest(t, c, curr))
  BY <1>3, <1>4, RestQuiet, QuietLeads
<1>12. \A curr : Leads(t, Rest([t EXCEPT !.c.blob = At("value")], c, curr))
  <2>1. PICK u : u = [t EXCEPT !.c.blob = At("value")]
    OBVIOUS
  <2>2. Leads(t, u) /\ u.pc = "loop"
    BY <1>4, <2>1, PlaceLeads
  <2> QED
    BY <2>1, <2>2, LeadsRest
<1>13. \/ Url(q, c, refused) = Error(q, Page404)
       \/ Url(q, c, refused) \in {EndUrl(t, c), Equal(t), Fault(t, "handler"), Rest(t, c, At("value"))}
       \/ c \in {"?", LF} /\ Url(q, c, refused) = Question(t, c, refused)
       \/ Url(q, c, refused) = Rest([t EXCEPT !.c.blob = At("args")], c, At("args"))
       \/ Url(q, c, refused) = Rest([t EXCEPT !.c.blob = At("value")], c, At("value"))
  <2>1. CASE ofPost /\ q.c.state = "url" /\ ~ q.c.post
    BY <2>1 DEF Url
  <2>2. CASE ~ (ofPost /\ q.c.state = "url" /\ ~ q.c.post)
    <3>1. Url(q, c, refused) = InUrl(t, c, refused)
      BY <1>2, <2>2, Zenon DEF Url
    <3>2. CASE c = " "
      <4>1. Url(q, c, refused) = EndUrl(t, c)
        BY <3>1, <3>2 DEF InUrl, LF
      <4> QED
        BY <4>1
    <3>3. CASE c = "?" \/ (c = LF /\ t.c.state = "post_args")
      <4>1. Url(q, c, refused) = Question(t, c, refused)
        BY <3>1, <3>3 DEF InUrl, LF
      <4> QED
        BY <3>3, <4>1
    <3>4. CASE c = "=" /\ t.c.args
      <4>1. Url(q, c, refused) = Equal(t)
        BY <3>1, <3>4 DEF InUrl, LF
      <4> QED
        BY <4>1
    <3>5. CASE c = "&"
      <4>1. Url(q, c, refused) = IF t.handler = None THEN Fault(t, "handler")
              ELSE Rest([t EXCEPT !.c.blob = At("args")], c, At("args"))
        BY <3>1, <3>5 DEF InUrl, LF
      <4> QED
        BY <4>1
    <3>6. CASE /\ c # " " /\ c # "?" /\ c # "&"
               /\ ~ (c = LF /\ t.c.state = "post_args") /\ ~ (c = "=" /\ t.c.args)
      <4>1. Url(q, c, refused) =
              Rest(IF t.c.arg_ref = None THEN t ELSE [t EXCEPT !.c.blob = At("value")], c, At("value"))
        BY <3>1, <3>6 DEF InUrl
      <4> QED
        BY <4>1
    <3> QED
      BY <3>2, <3>3, <3>4, <3>5, <3>6
  <2> QED
    BY <2>1, <2>2
<1> QED
  BY <1>5, <1>6, <1>7, <1>8, <1>9, <1>10, <1>11, <1>12, <1>13

\* The post data are allocated for a POST, or refused.
LEMMA CommandLeads ==
  ASSUME NEW q, Reading(q), q.c.state = "cmd", NEW refused
  PROVE  Leads(q, Command(q, refused))
<1>1. Is(q) /\ States(q.c, q.handler) /\ q.allocated = Owned(q.c, q.post)
  BY ReadingHolds
<1>2. q.c.post = FALSE
  BY <1>1 DEF States, Is, IsConnection
<1>3. PICK b : b = At("urls")
  OBVIOUS
<1>4. b = [tree |-> b.tree, at |-> b.at] /\ b.at \in Seq(Characters)
  BY <1>3, AtIs
<1>5. PICK t : t = [q EXCEPT !.c.state = "url", !.c.blob = b]
  OBVIOUS
<1>6. /\ Is(t) /\ Frame(q, t) /\ t.allocated = q.allocated /\ t.post = q.post
      /\ t.c.args = q.c.args /\ t.c.post = q.c.post /\ t.c.state = "url"
      /\ t.handler = q.handler /\ t.pc = "loop"
  BY <1>1, <1>4, <1>5 DEF Is, IsConnection, Frame, Reading
<1>7. Leads(q, t)
  <2>1. States(t.c, t.handler)
    BY <1>6 DEF States, PostStates
  <2> QED
    BY <1>6, <2>1, BlocksKept
<1>8. Leads(q, Error(q, Page404))
  BY ErrorLeads
<1>9. PICK d : d = [length |-> NoLength, type |-> None, file |-> None, boundary |-> None,
                    co |-> "terminated", read |-> 0]
  OBVIOUS
<1>10. PICK v : v = [t EXCEPT !.c.post = TRUE, !.post = d]
  OBVIOUS
<1>11. PICK u : u = Took(v, "post_data")
  OBVIOUS
<1>12. Leads(q, u)
  <2>1. IsPost(d) /\ d.file = None /\ d.boundary = None
    BY <1>9 DEF IsPost
  <2>2. /\ Is(v) /\ Frame(q, v) /\ v.allocated = q.allocated /\ v.post = d
        /\ v.c.args = q.c.args /\ v.c.post = TRUE /\ v.c.state = "url"
        /\ v.pc = "loop"
    BY <1>6, <1>10, <2>1 DEF Is, IsConnection, Frame
  <2>3. /\ Is(u) /\ Frame(q, u) /\ u.allocated = [q.allocated EXCEPT !["post_data"] = @ + 1]
        /\ u.post = d /\ u.c = v.c /\ u.pc = "loop"
    <3>1. u = [v EXCEPT !.allocated = [q.allocated EXCEPT !["post_data"] = @ + 1]]
      BY <1>11, <2>2 DEF Took, Is
    <3> QED
      BY <2>2, <3>1 DEF Is, Frame
  <2>4. \A k \in Kinds : Owned(u.c, u.post)[k] =
          Owned(q.c, q.post)[k] + (IF k = "post_data" THEN 1 ELSE 0)
    BY <1>2, <2>1, <2>2, <2>3, OwnedKinds DEF Kinds, One
  <2>5. u.allocated = Owned(u.c, u.post)
    BY <1>1, <2>3, <2>4, OwnedChange DEF Kinds
  <2>6. Named(u) /\ States(u.c, u.handler)
    BY <2>1, <2>2, <2>3 DEF Named, States, PostStates
  <2> QED
    BY <2>2, <2>3, <2>5, <2>6, BlocksHeld
<1>13. Command(q, refused) \in {t, Error(q, Page404), u}
  BY <1>3, <1>5, <1>9, <1>10, <1>11 DEF Command
<1> QED
  BY <1>7, <1>8, <1>12, <1>13

\* A change of the fields of struct post_data.
LEMMA PostIs ==
  ASSUME NEW q, Is(q), q.c.post, NEW d, IsPost(d), NEW t, t = [q EXCEPT !.post = d]
  PROVE  /\ Is(t) /\ Frame(q, t) /\ t.allocated = q.allocated /\ t.post = d /\ t.c = q.c
         /\ t.handler = q.handler /\ t.pc = q.pc
BY DEF Is, Frame

\* A digit of the length of the content.
LEMMA ContentLengthLeads ==
  ASSUME NEW q, Reading(q), q.c.post, NEW c
  PROVE  Leads(q, ContentLength(q, c)) /\ ContentLength(q, c).pc = "loop"
<1>1. Is(q) /\ States(q.c, q.handler) /\ q.allocated = Owned(q.c, q.post) /\ Named(q)
  BY ReadingHolds
<1>2. IsPost(q.post)
  BY <1>1 DEF Is
<1>3. q.pc = "loop"
  BY DEF Reading
<1>4. PICK n : n = LET length == IF q.post.length = 255 THEN 0 ELSE q.post.length IN
                   IF c \in Blanks THEN length ELSE (length * 10 + Value(c)) % 65536
  OBVIOUS
<1>5. PICK d : d = [q.post EXCEPT !.length = n]
  OBVIOUS
<1>6. IsPost(d) /\ d.file = q.post.file /\ d.boundary = q.post.boundary
  BY <1>2, <1>5 DEF IsPost
<1>7. PICK t : t = [q EXCEPT !.post = d]
  OBVIOUS
<1>8. /\ Is(t) /\ Frame(q, t) /\ t.allocated = q.allocated /\ t.post = d /\ t.c = q.c
      /\ t.handler = q.handler /\ t.pc = q.pc
  BY <1>1, <1>6, <1>7, PostIs
<1>9. t.allocated = Owned(t.c, t.post) /\ Named(t)
  BY <1>1, <1>6, <1>8 DEF Owned, Named
<1>10. Leads(q, t)
  BY <1>1, <1>8, <1>9, BlocksHeld DEF Reading, Body
<1>11. t = [q EXCEPT !.post.length = n]
  BY <1>5, <1>7
<1>12. ContentLength(q, c) = t
  BY <1>4, <1>11 DEF ContentLength
<1> QED
  BY <1>3, <1>8, <1>10, <1>12

\* The name of a file is replaced by another value.
FileOk(q, f, t) ==
  /\ Is(t) /\ Frame(q, t) /\ t.allocated = q.allocated /\ t.c = q.c
  /\ t.handler = q.handler /\ t.pc = "loop" /\ Named(t) /\ States(t.c, t.handler)
  /\ t.post.file = f /\ t.post.boundary = q.post.boundary

\* The block of the name of the file may have another content.
LEMMA FileIs ==
  ASSUME NEW q, Reading(q), q.c.post, NEW f \in Files \cup {None}
  PROVE  FileOk(q, f, [q EXCEPT !.post.file = f])
<1>1. Is(q) /\ States(q.c, q.handler) /\ Named(q)
  BY ReadingHolds
<1>2. IsPost(q.post)
  BY <1>1 DEF Is
<1>3. PICK d : d = [q.post EXCEPT !.file = f]
  OBVIOUS
<1>4. IsPost(d) /\ d.file = f /\ d.boundary = q.post.boundary
  BY <1>2, <1>3 DEF IsPost
<1>5. PICK t : t = [q EXCEPT !.post = d]
  OBVIOUS
<1>6. /\ Is(t) /\ Frame(q, t) /\ t.allocated = q.allocated /\ t.post = d /\ t.c = q.c
      /\ t.handler = q.handler /\ t.pc = q.pc
  BY <1>1, <1>4, <1>5, PostIs
<1>7. FileOk(q, f, t)
  BY <1>1, <1>2, <1>4, <1>6 DEF FileOk, Named, Reading
<1>8. t = [q EXCEPT !.post.file = f]
  BY <1>3, <1>5
<1> QED
  BY <1>7, <1>8

\* The name of the file grows, or ends, in its block.
LEMMA FileKept ==
  ASSUME NEW q, Reading(q), q.c.post, q.post.file # None, NEW f \in Files
  PROVE  /\ Leads(q, [q EXCEPT !.post.file = f]) /\ Reading([q EXCEPT !.post.file = f])
         /\ [q EXCEPT !.post.file = f].pc = "loop"
<1>1. PICK t : t = [q EXCEPT !.post.file = f]
  OBVIOUS
<1>2. /\ Is(t) /\ Frame(q, t) /\ t.allocated = q.allocated /\ t.c = q.c
      /\ t.handler = q.handler /\ t.pc = "loop" /\ Named(t) /\ States(t.c, t.handler)
      /\ t.post.file = f /\ t.post.boundary = q.post.boundary
  <2>1. FileOk(q, f, t)
    BY <1>1, FileIs
  <2> QED
    BY <2>1 DEF FileOk
<1>3. q.allocated = Owned(q.c, q.post) /\ f # None
  BY ReadingHolds, Nones
<1>4. t.allocated = Owned(t.c, t.post)
  BY <1>2, <1>3 DEF Owned
<1>5. Leads(q, t)
  BY <1>2, <1>4, BlocksHeld DEF Reading, Body
<1>6. Reading(t)
  BY <1>2, <1>5 DEF Leads, Reading
<1> QED
  BY <1>1, <1>2, <1>5, <1>6

\* A character of the name of a file: its block is allocated, grows or is given back
\* when it cannot grow.
LEMMA FilenameLeads ==
  ASSUME NEW q, Reading(q), q.c.post, NEW c \in Characters, NEW refused
  PROVE  Leads(q, Filename(q, c, refused))
<1>1. Is(q) /\ q.allocated = Owned(q.c, q.post)
  BY ReadingHolds
<1>2. Leads(q, Error(q, Page404))
  BY ErrorLeads
<1>3. PICK file : file = q.post.file
  OBVIOUS
<1>4. file \in Files \cup {None}
  BY <1>1, <1>3 DEF Is, IsPost
<1>5. CASE file = None
  <2>1. PICK f : f = [name |-> << >>, size |-> 2, capacity |-> CHUNK, closed |-> FALSE]
    OBVIOUS
  <2>2. f \in Files
    BY <2>1, RequestAssumption DEF Files
  <2>3. PICK v : v = [q EXCEPT !.post.file = f]
    OBVIOUS
  <2>4. /\ Is(v) /\ Frame(q, v) /\ v.allocated = q.allocated /\ v.c = q.c
        /\ v.handler = q.handler /\ v.pc = "loop" /\ Named(v) /\ States(v.c, v.handler)
        /\ v.post.file = f /\ v.post.boundary = q.post.boundary
    <3>1. FileOk(q, f, v)
      BY <2>2, <2>3, FileIs
    <3> QED
      BY <3>1 DEF FileOk
  <2>5. PICK t : t = Took(v, "filename")
    OBVIOUS
  <2>6. /\ Is(t) /\ Frame(q, t) /\ t.allocated = [q.allocated EXCEPT !["filename"] = @ + 1]
        /\ t.post = v.post /\ t.c = q.c /\ t.handler = q.handler /\ t.pc = "loop"
    <3>1. t = [v EXCEPT !.allocated = [q.allocated EXCEPT !["filename"] = @ + 1]]
      BY <2>4, <2>5 DEF Took, Is
    <3> QED
      BY <2>4, <3>1 DEF Is, Frame
  <2>7. \A k \in Kinds : Owned(t.c, t.post)[k] =
          Owned(q.c, q.post)[k] + (IF k = "filename" THEN 1 ELSE 0)
    <3>1. t.post.file # None /\ q.post.file = None /\ t.post.boundary = q.post.boundary
      BY <1>3, <1>5, <2>2, <2>4, <2>6, Nones
    <3>2. q.c.post = TRUE /\ t.c = q.c
      BY <1>1, <2>6 DEF Is, IsConnection
    <3> QED
      BY <3>1, <3>2, OwnedKinds DEF Kinds, One
  <2>8. t.allocated = Owned(t.c, t.post)
    BY <1>1, <2>6, <2>7, OwnedChange DEF Kinds
  <2>9. Named(t)
    BY <2>4, <2>6 DEF Named
  <2>10. Leads(q, t)
    BY <2>4, <2>6, <2>8, <2>9, BlocksHeld DEF Reading, Body
  <2>11. Filename(q, c, refused) \in {Error(q, Page404), t}
    BY <1>3, <1>5, <2>1, <2>3, <2>5 DEF Filename
  <2> QED
    BY <1>2, <2>10, <2>11
<1>6. CASE file # None /\ c = QUOTE
  <2>1. PICK f : f = [file EXCEPT !.closed = TRUE]
    OBVIOUS
  <2>2. f \in Files
    BY <1>4, <1>6, <2>1 DEF Files
  <2>3. PICK v : v = [q EXCEPT !.post.file = f]
    OBVIOUS
  <2>4. Leads(q, v) /\ Reading(v)
    BY <1>3, <1>6, <2>2, <2>3, FileKept
  <2>5. PICK t : t = [v EXCEPT !.c.blob = At("content")]
    OBVIOUS
  <2>6. Leads(v, t)
    BY <2>4, <2>5, PlaceLeads
  <2>7. Leads(q, t)
    BY <2>4, <2>6 DEF Leads, Frame
  <2>8. t = [q EXCEPT !.post.file.closed = TRUE, !.c.blob = At("content")]
    BY <1>1, <1>3, <2>1, <2>3, <2>5
  <2>9. Filename(q, c, refused) \in {Error(q, Page404), t}
    BY <1>3, <1>6, <2>8 DEF Filename
  <2> QED
    BY <1>2, <2>7, <2>9
<1>7. CASE file # None /\ c # QUOTE /\ file.size = file.capacity /\ refused = "filename"
  <2>1. PICK v : v = [q EXCEPT !.post.file = None]
    OBVIOUS
  <2>2. /\ Is(v) /\ Frame(q, v) /\ v.allocated = q.allocated /\ v.c = q.c
        /\ v.handler = q.handler /\ v.pc = "loop" /\ Named(v) /\ States(v.c, v.handler)
        /\ v.post.file = None /\ v.post.boundary = q.post.boundary
    <3>1. FileOk(q, None, v)
      BY <2>1, FileIs
    <3> QED
      BY <3>1 DEF FileOk
  <2>3. PICK t : t = Error(Gave(v, "filename"), Page404)
    OBVIOUS
  <2>4. /\ Is(t) /\ Frame(q, t) /\ t.allocated = [q.allocated EXCEPT !["filename"] = @ - 1]
        /\ t.post = v.post /\ t.c = q.c /\ t.handler = Page404 /\ t.pc = "end"
    <3>1. PICK g : g = Gave(v, "filename")
      OBVIOUS
    <3>2. g = [v EXCEPT !.allocated = [q.allocated EXCEPT !["filename"] = @ - 1]]
      BY <2>2, <3>1 DEF Gave, Is
    <3>3. t = [g EXCEPT !.handler = Page404, !.pc = "end"]
      BY <2>3, <3>1 DEF Error
    <3>4. /\ Is(g) /\ Frame(q, g) /\ g.allocated = [q.allocated EXCEPT !["filename"] = @ - 1]
          /\ g.post = v.post /\ g.c = q.c
      BY <2>2, <3>2 DEF Is, Frame
    <3> QED
      BY <3>3, <3>4, Nones DEF Is, Frame
  <2>5. \A k \in Kinds : Owned(t.c, t.post)[k] =
          Owned(q.c, q.post)[k] + (IF k = "filename" THEN -1 ELSE 0)
    <3>1. t.post.file = None /\ q.post.file # None /\ t.post.boundary = q.post.boundary
      BY <1>3, <1>7, <2>2, <2>4
    <3>2. q.c.post = TRUE /\ t.c = q.c
      BY <1>1, <2>4 DEF Is, IsConnection
    <3> QED
      BY <3>1, <3>2, OwnedKinds DEF Kinds, One
  <2>6. t.allocated = Owned(t.c, t.post)
    BY <1>1, <2>4, <2>5, OwnedChange DEF Kinds
  <2>7. Named(t) /\ States(t.c, t.handler)
    BY <2>2, <2>4, Nones DEF Named, States
  <2>8. Leads(q, t)
    BY <2>2, <2>4, <2>6, <2>7, BlocksHeld DEF Reading, Body
  <2>9. Filename(q, c, refused) = t
    BY <1>3, <1>7, <2>1, <2>3 DEF Filename
  <2> QED
    BY <2>8, <2>9
<1>8. CASE file # None /\ c # QUOTE /\ ~ (file.size = file.capacity /\ refused = "filename")
  <2>1. PICK f : f = [file EXCEPT !.name = Append(@, c), !.size = @ + 1,
                                  !.capacity = IF file.size = file.capacity THEN @ + CHUNK ELSE @]
    OBVIOUS
  <2>2. f \in Files
    <3>1. /\ file = [name |-> file.name, size |-> file.size, capacity |-> file.capacity, closed |-> file.closed]
          /\ file.name \in Seq(Characters) /\ file.size \in Nat /\ file.capacity \in Nat
          /\ file.closed \in BOOLEAN
      BY <1>4, <1>8 DEF Files
    <3>2. Append(file.name, c) \in Seq(Characters) /\ file.size + 1 \in Nat
          /\ file.capacity + CHUNK \in Nat
      BY <3>1, RequestAssumption
    <3>3. f = [name |-> Append(file.name, c), size |-> file.size + 1,
               capacity |-> IF file.size = file.capacity THEN file.capacity + CHUNK ELSE file.capacity,
               closed |-> file.closed]
      BY <2>1, <3>1
    <3> QED
      BY <3>1, <3>2, <3>3 DEF Files
  <2>3. PICK t : t = [q EXCEPT !.post.file = f]
    OBVIOUS
  <2>4. Leads(q, t)
    BY <1>3, <1>8, <2>2, <2>3, FileKept
  <2>5. t = [q EXCEPT !.post.file.name = Append(@, c), !.post.file.size = @ + 1,
                      !.post.file.capacity = IF file.size = file.capacity THEN @ + CHUNK ELSE @]
    BY <1>1, <1>3, <2>1, <2>3
  <2>6. Filename(q, c, refused) = t
    BY <1>3, <1>8, <2>5 DEF Filename
  <2> QED
    BY <2>4, <2>6
<1> QED
  BY <1>5, <1>6, <1>7, <1>8

\* The empty text.
LEMMA EmptyText == << >> \in Seq(Characters) /\ << >> # None
<1>1. \A S : << >> \in Seq(S)
  OBVIOUS
<1> QED
  BY <1>1, Nones

\* A block of a kind is allocated.
TookOk(q, kind, t) ==
  /\ Is(t) /\ Frame(q, t) /\ t.allocated = [q.allocated EXCEPT ![kind] = @ + 1]
  /\ t.post = q.post /\ t.c = q.c /\ t.handler = q.handler /\ t.pc = q.pc
  /\ t.fault = q.fault

\* One block more of the kind, and nothing else.
LEMMA TookIs ==
  ASSUME NEW q, Is(q), NEW kind
  PROVE  TookOk(q, kind, Took(q, kind))
<1>1. PICK t : t = [q EXCEPT !.allocated = [q.allocated EXCEPT ![kind] = @ + 1]]
  OBVIOUS
<1>2. t = Took(q, kind)
  BY <1>1 DEF Took, Is
<1>3. TookOk(q, kind, t)
  BY <1>1 DEF Is, Frame, TookOk
<1> QED
  BY <1>2, <1>3

\* A block of a kind is given back.
GaveOk(q, kind, t) ==
  /\ Is(t) /\ Frame(q, t) /\ t.allocated = [q.allocated EXCEPT ![kind] = @ - 1]
  /\ t.post = q.post /\ t.c = q.c /\ t.handler = q.handler /\ t.pc = q.pc
  /\ t.fault = q.fault

\* One block less of the kind, and nothing else.
LEMMA GaveIs ==
  ASSUME NEW q, Is(q), NEW kind
  PROVE  GaveOk(q, kind, Gave(q, kind))
<1>1. PICK t : t = [q EXCEPT !.allocated = [q.allocated EXCEPT ![kind] = @ - 1]]
  OBVIOUS
<1>2. t = Gave(q, kind)
  BY <1>1 DEF Gave, Is
<1>3. GaveOk(q, kind, t)
  BY <1>1 DEF Is, Frame, GaveOk
<1> QED
  BY <1>2, <1>3

\* An error changes only the handler and where the parser stands.
LEMMA ErrorIs ==
  ASSUME NEW q, Is(q), NEW handler \in {Page404, Page505}, NEW t, t = Error(q, handler)
  PROVE  /\ Is(t) /\ Frame(q, t) /\ t.allocated = q.allocated
         /\ t.post = q.post /\ t.c = q.c /\ t.handler = handler /\ t.pc = "end"
         /\ t.fault = q.fault
<1>1. t = [q EXCEPT !.handler = handler, !.pc = "end"]
  BY DEF Error
<1> QED
  BY <1>1, Nones DEF Is, Frame

\* struct boundary is replaced by another value.
BoundaryOk(q, b, t) ==
  /\ Is(t) /\ Frame(q, t) /\ t.allocated = q.allocated /\ t.c = q.c
  /\ t.handler = q.handler /\ t.pc = q.pc /\ t.fault = q.fault
  /\ t.post.file = q.post.file /\ t.post.boundary = b /\ t.post.length = q.post.length

\* Another boundary, with the blocks there were.
LEMMA BoundaryIs ==
  ASSUME NEW q, Is(q), q.c.post, NEW b \in Boundaries \cup {None}
  PROVE  BoundaryOk(q, b, [q EXCEPT !.post.boundary = b])
<1>1. IsPost(q.post)
  BY DEF Is
<1>2. PICK d : d = [q.post EXCEPT !.boundary = b]
  OBVIOUS
<1>3. IsPost(d) /\ d.boundary = b /\ d.file = q.post.file /\ d.length = q.post.length
  BY <1>1, <1>2 DEF IsPost
<1>4. PICK t : t = [q EXCEPT !.post = d]
  OBVIOUS
<1>5. /\ Is(t) /\ Frame(q, t) /\ t.allocated = q.allocated /\ t.post = d /\ t.c = q.c
      /\ t.handler = q.handler /\ t.pc = q.pc
  BY <1>3, <1>4, PostIs
<1>6. t.fault = q.fault
  BY <1>4 DEF Is
<1>7. BoundaryOk(q, b, t)
  BY <1>3, <1>5, <1>6 DEF BoundaryOk
<1>8. t = [q EXCEPT !.post.boundary = b]
  BY <1>2, <1>4
<1> QED
  BY <1>7, <1>8

\* An error the cleaning of which finds a boundary half made.
LEMMA DoomedLeads ==
  ASSUME NEW q, NEW t, Is(t), Frame(q, t), Doomed(t), Named(t) \/ RefInv(t),
         States(t.c, t.handler), t.c.state \notin {"init_buffer", "boundary", "out"}
  PROVE  Leads(q, t)
<1>1. t.pc = "end"
  BY DEF Doomed
<1>2. RefInv(t)
  BY DEF RefInv, Named
<1>3. StateInv(t)
  BY <1>1 DEF StateInv
<1> QED
  BY <1>1, <1>2, <1>3 DEF Leads, Good, Frame, Body

\* A character of the boundary: boundary_ref grows or is given back when it cannot, and
\* its end allocates boundary_buffer, which may leave the boundary half made.
LEMMA BoundaryLeads ==
  ASSUME NEW q, Reading(q), q.c.state = "attributes", q.post.boundary # None,
         q.post.boundary.buffer = None, NEW c \in Characters, NEW refused
  PROVE  Leads(q, Boundary(q, c, refused))
<1>1. Is(q) /\ States(q.c, q.handler) /\ q.allocated = Owned(q.c, q.post) /\ Named(q)
  BY ReadingHolds
<1>2. q.c.post = TRUE /\ IsPost(q.post) /\ q.handler # None
  BY <1>1 DEF States, PostStates, Is, IsConnection
<1>3. PICK b : b = q.post.boundary
  OBVIOUS
<1>4. b \in Boundaries
  BY <1>2, <1>3 DEF IsPost
<1>5. /\ b = [ref |-> b.ref, size |-> b.size, index |-> b.index, part |-> b.part,
              buffer |-> b.buffer, counting |-> b.counting, live |-> b.live]
      /\ b.ref \in Seq(Characters) /\ b.size \in Nat /\ b.index \in Nat /\ b.part \in Nat
      /\ b.buffer = None /\ b.counting \in BOOLEAN /\ b.live \in BOOLEAN
  BY <1>3, <1>4 DEF Boundaries
<1>6. b.ref # Literal /\ (b.ref # << >> => b.ref[1] # CR)
  BY <1>1, <1>2, <1>3 DEF Named
<1>7. Leads(q, Error(q, Page404))
  BY ErrorLeads
<1>8. CASE c # CR /\ b.index = b.size /\ refused = "boundary_ref"
  <2>1. PICK e : e = [b EXCEPT !.ref = << >>]
    OBVIOUS
  <2>2. e \in Boundaries /\ e.ref = << >> /\ e.buffer = None
    <3>1. e.ref = << >> /\ e.buffer = None
      BY <1>5, <2>1
    <3>2. e = [ref |-> << >>, size |-> b.size, index |-> b.index, part |-> b.part,
               buffer |-> b.buffer, counting |-> b.counting, live |-> b.live]
      BY <1>5, <2>1
    <3> QED
      BY <1>5, <3>1, <3>2, EmptyText DEF Boundaries
  <2>3. PICK t : t = [q EXCEPT !.post.boundary = e]
    OBVIOUS
  <2>4. BoundaryOk(q, e, t)
    BY <1>1, <1>2, <2>2, <2>3, BoundaryIs
  <2>5. PICK g : g = Gave(t, "boundary_ref")
    OBVIOUS
  <2>6. Is(g) /\ Frame(t, g) /\ g.post = t.post /\ g.c = t.c
    <3>1. Is(t)
      BY <2>4 DEF BoundaryOk
    <3>2. GaveOk(t, "boundary_ref", g)
      BY <2>5, <3>1, GaveIs
    <3> QED
      BY <3>2 DEF GaveOk
  <2>7. PICK u : u = Error(g, Page404)
    OBVIOUS
  <2>8. Is(u) /\ Frame(g, u) /\ u.post = g.post /\ u.c = g.c /\ u.handler = Page404 /\ u.pc = "end"
    BY <2>6, <2>7, ErrorIs
  <2>9. Frame(q, u)
    BY <2>4, <2>6, <2>8 DEF Frame, BoundaryOk
  <2>10. u.c = q.c /\ u.post.boundary = e
    BY <2>4, <2>6, <2>8 DEF BoundaryOk
  <2>11. Doomed(u) /\ Named(u) /\ States(u.c, u.handler)
    BY <1>1, <1>2, <2>2, <2>8, <2>10, Nones DEF Doomed, Named, States, Failed, Literal
  <2>12. Leads(q, u)
    BY <2>8, <2>9, <2>10, <2>11, DoomedLeads DEF Reading, Body
  <2>13. t = [q EXCEPT !.post.boundary.ref = << >>]
    BY <1>1, <1>3, <2>1, <2>3
  <2>14. Boundary(q, c, refused) = u
    BY <1>3, <1>8, <2>5, <2>7, <2>13 DEF Boundary
  <2> QED
    BY <2>12, <2>14
<1>9. CASE c # CR /\ ~ (b.index = b.size /\ refused = "boundary_ref")
  <2>1. PICK e : e = [b EXCEPT !.ref = Append(@, c), !.index = @ + 1,
                               !.size = IF b.index = b.size THEN @ + CHUNK ELSE @]
    OBVIOUS
  <2>2. e.ref = Append(b.ref, c) /\ e.buffer = None
    BY <1>5, <2>1
  <2>3. e \in Boundaries
    <3>1. Append(b.ref, c) \in Seq(Characters) /\ b.index + 1 \in Nat /\ b.size + CHUNK \in Nat
      BY <1>5, RequestAssumption
    <3>2. e = [ref |-> Append(b.ref, c), index |-> b.index + 1, part |-> b.part,
               size |-> IF b.index = b.size THEN b.size + CHUNK ELSE b.size,
               buffer |-> b.buffer, counting |-> b.counting, live |-> b.live]
      BY <1>5, <2>1
    <3> QED
      BY <1>5, <3>1, <3>2 DEF Boundaries
  <2>4. e.ref # << >> /\ e.ref[1] # CR /\ e.ref # Literal
    <3>1. Len(e.ref) = Len(b.ref) + 1 /\ e.ref[1] = IF b.ref = << >> THEN c ELSE b.ref[1]
      BY <1>5, <2>2
    <3>2. e.ref[1] # CR
      BY <1>6, <1>9, <3>1
    <3>3. Literal[1] = CR
      BY DEF Literal
    <3> QED
      BY <1>5, <3>1, <3>2, <3>3
  <2>5. PICK t : t = [q EXCEPT !.post.boundary = e]
    OBVIOUS
  <2>6. BoundaryOk(q, e, t)
    BY <1>1, <1>2, <2>3, <2>5, BoundaryIs
  <2>7. t.allocated = Owned(t.c, t.post)
    BY <1>1, <1>3, <1>4, <1>5, <1>6, <2>2, <2>3, <2>4, <2>6, Nones DEF Owned, BoundaryOk
  <2>8. Named(t)
    BY <2>4, <2>6 DEF Named, BoundaryOk
  <2>9. Leads(q, t)
    <3>1. /\ Is(t) /\ Frame(q, t) /\ t.c = q.c /\ t.handler = q.handler /\ t.pc = q.pc
      BY <2>6 DEF BoundaryOk
    <3> QED
      BY <1>1, <2>7, <2>8, <3>1, BlocksHeld DEF Reading, Body
  <2>10. t = [q EXCEPT !.post.boundary.ref = Append(@, c), !.post.boundary.index = @ + 1,
                       !.post.boundary.size = IF b.index = b.size THEN @ + CHUNK ELSE @]
    BY <1>1, <1>3, <2>1, <2>5
  <2>11. Boundary(q, c, refused) = t
    BY <1>3, <1>9, <2>10 DEF Boundary
  <2> QED
    BY <2>9, <2>11
<1>10. CASE c = CR
  <2>1. PICK r : r = <<LF, CR, LF, "-", "-">> \o b.ref
    OBVIOUS
  <2>2. r \in Seq(Characters) /\ r # << >> /\ r[1] = LF
    <3>1. LF \in Characters /\ CR \in Characters /\ "-" \in Characters
      BY DEF Characters
    <3>2. \A S : \A x, y, z \in S : <<x, y, x, z, z>> \in Seq(S)
      OBVIOUS
    <3>3. <<LF, CR, LF, "-", "-">> \in Seq(Characters)
      BY <3>1, <3>2
    <3>4. PICK w : w = <<LF, CR, LF, "-", "-">>
      OBVIOUS
    <3>5. w \in Seq(Characters) /\ Len(w) = 5 /\ w[1] = LF
      BY <3>3, <3>4
    <3> QED
      BY <1>5, <2>1, <3>4, <3>5
  <2>3. r[1] # CR /\ r # Literal
    <3>1. LF # CR
      BY DEF LF, CR
    <3>2. Literal[1] = CR
      BY DEF Literal
    <3> QED
      BY <2>2, <3>1, <3>2
  <2>4. PICK e : e = [b EXCEPT !.ref = r, !.size = b.index + 5, !.index = NoIndex]
    OBVIOUS
  <2>5. e.ref = r /\ e.buffer = None /\ e \in Boundaries
    <3>1. e = [ref |-> r, size |-> b.index + 5, index |-> NoIndex, part |-> b.part,
               buffer |-> b.buffer, counting |-> b.counting, live |-> b.live]
      BY <1>5, <2>4
    <3>2. b.index + 5 \in Nat /\ NoIndex \in Nat
      BY <1>5 DEF NoIndex
    <3>3. e.ref = r /\ e.buffer = None
      BY <1>5, <3>1
    <3> QED
      BY <1>5, <2>2, <3>1, <3>2, <3>3 DEF Boundaries
  <2>6. PICK f : f = [e EXCEPT !.live = FALSE]
    OBVIOUS
  <2>7. f.ref = r /\ f.buffer = None /\ f \in Boundaries /\ f.live = FALSE
    BY <2>5, <2>6 DEF Boundaries
  <2>8. PICK g : g = [e EXCEPT !.buffer = << >>]
    OBVIOUS
  <2>9. g.ref = r /\ g.buffer = << >> /\ g \in Boundaries
    <3>1. e = [ref |-> e.ref, size |-> e.size, index |-> e.index, part |-> e.part,
               buffer |-> e.buffer, counting |-> e.counting, live |-> e.live]
      BY <2>5 DEF Boundaries
    <3>2. g = [ref |-> r, size |-> e.size, index |-> e.index, part |-> e.part,
               buffer |-> << >>, counting |-> e.counting, live |-> e.live]
      BY <2>5, <2>8, <3>1
    <3>3. g.ref = r /\ g.buffer = << >>
      BY <3>2
    <3> QED
      BY <2>5, <3>2, <3>3, EmptyText DEF Boundaries
  <2>10. PICK t : t = [q EXCEPT !.post.boundary.ref = <<LF, CR, LF, "-", "-">> \o @,
                     !.post.boundary.size = b.index + 5, !.post.boundary.index = NoIndex]
    OBVIOUS
  <2>11. t = [q EXCEPT !.post.boundary = e]
    <3>1. t = [q EXCEPT !.post.boundary = [b EXCEPT !.ref = r, !.size = b.index + 5, !.index = NoIndex]]
      BY <1>1, <1>3, <2>1, <2>10
    <3> QED
      BY <2>4, <3>1
  <2>12. PICK u : u = [q EXCEPT !.post.boundary = f]
    OBVIOUS
  <2>13. u = [t EXCEPT !.post.boundary.live = FALSE]
    BY <1>1, <1>2, <2>6, <2>11, <2>12 DEF Is, IsPost
  <2>14. PICK v : v = [q EXCEPT !.post.boundary = g]
    OBVIOUS
  <2>15. v = [t EXCEPT !.post.boundary.buffer = << >>]
    BY <1>1, <1>2, <2>8, <2>11, <2>14 DEF Is, IsPost
  <2>16. BoundaryOk(q, f, u) /\ BoundaryOk(q, g, v)
    BY <1>1, <1>2, <2>7, <2>9, <2>12, <2>14, BoundaryIs
  <2>17. Leads(q, Error(u, Page404))
    <3>1. PICK w : w = Error(u, Page404)
      OBVIOUS
    <3>2. Is(w) /\ Frame(u, w) /\ w.post = u.post /\ w.c = u.c /\ w.handler = Page404 /\ w.pc = "end"
      BY <2>16, <3>1, ErrorIs DEF BoundaryOk
    <3>3. Frame(q, w)
      BY <2>16, <3>2 DEF Frame, BoundaryOk
    <3>4. w.c = q.c /\ w.post.boundary = f
      BY <2>16, <3>2 DEF BoundaryOk
    <3>5. Doomed(w) /\ Named(w) /\ States(w.c, w.handler)
      BY <1>1, <1>2, <2>2, <2>3, <2>7, <3>2, <3>4, Nones DEF Doomed, Named, States, Failed
    <3> QED
      BY <3>1, <3>2, <3>3, <3>4, <3>5, DoomedLeads DEF Reading, Body
  <2>18. PICK w : w = Took(v, "boundary_buffer")
    OBVIOUS
  <2>19. Leads(q, w)
    <3>1. /\ Is(w) /\ Frame(v, w) /\ w.allocated = [v.allocated EXCEPT !["boundary_buffer"] = @ + 1]
          /\ w.post = v.post /\ w.c = v.c /\ w.handler = v.handler /\ w.pc = v.pc
      <4>1. Is(v)
        BY <2>16 DEF BoundaryOk
      <4>2. TookOk(v, "boundary_buffer", w)
        BY <2>18, <4>1, TookIs
      <4> QED
        BY <4>2 DEF TookOk
    <3>2. /\ v.allocated = q.allocated /\ v.c = q.c /\ v.handler = q.handler /\ v.pc = q.pc
          /\ v.post.file = q.post.file /\ v.post.boundary = g /\ Frame(q, v)
      BY <2>16 DEF BoundaryOk
    <3>3. Frame(q, w)
      BY <3>1, <3>2 DEF Frame
    <3>4. g # None /\ g.buffer # None /\ b # None
      BY <1>4, <2>9, Nones, EmptyText
    <3>5. \A k \in Kinds : Owned(w.c, w.post)[k] =
            Owned(q.c, q.post)[k] + (IF k = "boundary_buffer" THEN 1 ELSE 0)
      BY <1>2, <1>3, <1>5, <1>6, <2>3, <2>9, <3>1, <3>2, <3>4, OwnedKinds DEF Kinds, One
    <3>6. w.allocated = Owned(w.c, w.post)
      BY <1>1, <3>1, <3>2, <3>5, OwnedChange DEF Kinds
    <3>7. Named(w)
      BY <2>2, <2>3, <2>9, <3>1, <3>2 DEF Named
    <3> QED
      BY <1>1, <3>1, <3>2, <3>3, <3>6, <3>7, BlocksHeld DEF Reading, Body
  <2>20. Boundary(q, c, refused) \in {Error(q, Page404), Error(u, Page404), w}
    BY <1>3, <1>10, <2>10, <2>13, <2>15, <2>18 DEF Boundary
  <2> QED
    BY <1>7, <2>17, <2>19, <2>20
<1> QED
  BY <1>8, <1>9, <1>10

\* A step of the loop after another.
LEMMA LeadsTwice ==
  ASSUME NEW q, NEW t, NEW u, Leads(q, t), t.pc = "loop"
  PROVE  Reading(t) /\ (Leads(t, u) => Leads(q, u))
BY DEF Leads, Frame, Reading

\* A header goes on with another attribute or with its end.
StateOk(q, state, t) ==
  /\ Leads(q, t) /\ Reading(t) /\ t.c.state = state /\ t.c.post = q.c.post /\ t.c.args = q.c.args
  /\ t.post = q.post /\ t.handler = q.handler

\* The state of a header is changed with the tree that is walked.
LEMMA StateLeads ==
  ASSUME NEW q, Reading(q), q.c.post, q.handler # None, NEW state \in Header, NEW tree
  PROVE  /\ StateOk(q, state, [q EXCEPT !.c.state = state, !.c.blob = At(tree)])
         /\ StateOk(q, state, [q EXCEPT !.c.state = state])
<1>1. PICK b : b = At(tree)
  OBVIOUS
<1>2. b = [tree |-> b.tree, at |-> b.at] /\ b.at \in Seq(Characters)
  BY <1>1, AtIs
<1>3. Is(q) /\ q.c.post = TRUE
  BY ReadingHolds DEF Is, IsConnection
<1>4. PICK u : u = [q EXCEPT !.c.state = state]
  OBVIOUS
<1>5. /\ Is(u) /\ Frame(q, u) /\ u.allocated = q.allocated /\ u.post = q.post
      /\ u.c.args = q.c.args /\ u.c.post = q.c.post /\ u.c.state = state
      /\ u.handler = q.handler /\ u.pc = q.pc
  BY <1>3, <1>4 DEF Is, IsConnection, Frame
<1>6. state \notin {"init_buffer", "boundary", "out", "post_data", "cmd"}
  BY DEF Header
<1>7. States(u.c, u.handler)
  BY <1>3, <1>5, <1>6 DEF States
<1>8. StateOk(q, state, u)
  <2>1. Leads(q, u) /\ u.pc = "loop"
    BY <1>5, <1>6, <1>7, BlocksKept DEF Reading
  <2> QED
    BY <1>5, <2>1, LeadsTwice DEF StateOk
<1>9. PICK t : t = [u EXCEPT !.c.blob = b]
  OBVIOUS
<1>10. /\ Is(t) /\ Frame(q, t) /\ t.allocated = q.allocated /\ t.post = q.post
       /\ t.c.args = q.c.args /\ t.c.post = q.c.post /\ t.c.state = state
       /\ t.handler = q.handler /\ t.pc = q.pc
  BY <1>2, <1>5, <1>9 DEF Is, IsConnection, Frame
<1>11. States(t.c, t.handler)
  BY <1>3, <1>6, <1>10 DEF States
<1>12. StateOk(q, state, t)
  <2>1. Leads(q, t) /\ t.pc = "loop"
    BY <1>6, <1>10, <1>11, BlocksKept DEF Reading
  <2> QED
    BY <1>10, <2>1, LeadsTwice DEF StateOk
<1>13. t = [q EXCEPT !.c.state = state, !.c.blob = At(tree)]
  BY <1>1, <1>3, <1>4, <1>9 DEF Is, IsConnection
<1> QED
  BY <1>4, <1>8, <1>12, <1>13

\* The type of the content is set.
TypeOk(q, t) ==
  /\ Leads(q, t) /\ Reading(t) /\ t.c = q.c /\ t.handler = q.handler
  /\ t.post.file = q.post.file /\ t.post.boundary = q.post.boundary

\* The type of the content is no block.
LEMMA TypeLeads ==
  ASSUME NEW q, Reading(q), q.c.post, NEW type
  PROVE  TypeOk(q, [q EXCEPT !.post.type = type])
<1>1. Is(q) /\ States(q.c, q.handler) /\ q.allocated = Owned(q.c, q.post) /\ Named(q)
  BY ReadingHolds
<1>2. IsPost(q.post)
  BY <1>1 DEF Is
<1>3. PICK d : d = [q.post EXCEPT !.type = type]
  OBVIOUS
<1>4. IsPost(d) /\ d.file = q.post.file /\ d.boundary = q.post.boundary
  BY <1>2, <1>3 DEF IsPost
<1>5. PICK t : t = [q EXCEPT !.post = d]
  OBVIOUS
<1>6. /\ Is(t) /\ Frame(q, t) /\ t.allocated = q.allocated /\ t.post = d /\ t.c = q.c
      /\ t.handler = q.handler /\ t.pc = q.pc
  BY <1>1, <1>4, <1>5, PostIs
<1>7. t.allocated = Owned(t.c, t.post) /\ Named(t)
  BY <1>1, <1>4, <1>6 DEF Owned, Named
<1>8. Leads(q, t)
  BY <1>1, <1>6, <1>7, BlocksHeld DEF Reading, Body
<1>9. Reading(t)
  BY <1>6, <1>8, LeadsTwice DEF Reading
<1>10. TypeOk(q, t)
  BY <1>4, <1>6, <1>8, <1>9 DEF TypeOk
<1>11. t = [q EXCEPT !.post.type = type]
  BY <1>3, <1>5
<1> QED
  BY <1>10, <1>11

\* Two blocks more.
LEMMA OwnedTwice ==
  ASSUME NEW c, NEW d, NEW e, NEW g, NEW kind \in Kinds, NEW other \in Kinds, kind # other,
         \A k \in Kinds : Owned(e, g)[k] = Owned(c, d)[k] + (IF k \in {kind, other} THEN 1 ELSE 0)
  PROVE  [[Owned(c, d) EXCEPT ![kind] = @ + 1] EXCEPT ![other] = @ + 1] = Owned(e, g)
<1>1. PICK a : a = Owned(c, d)
  OBVIOUS
<1>2. PICK z : z = Owned(e, g)
  OBVIOUS
<1>3. /\ a = [k \in Kinds |-> a[k]] /\ z = [k \in Kinds |-> z[k]]
      /\ \A k \in Kinds : a[k] \in Int /\ z[k] \in Int
  BY <1>1, <1>2 DEF Owned, Counts, Kinds, One
<1>4. \A k \in Kinds : z[k] = IF k \in {kind, other} THEN a[k] + 1 ELSE a[k]
  BY <1>1, <1>2, <1>3
<1>5. [[a EXCEPT ![kind] = @ + 1] EXCEPT ![other] = @ + 1] = z
  BY <1>3, <1>4
<1> QED
  BY <1>1, <1>2, <1>5

\* The end of a text that has neither a boundary nor a length.
LEMMA LiteralIs ==
  /\ Literal \in Seq(Characters) /\ Literal # << >> /\ Literal[1] = CR
<1>1. LF \in Characters /\ CR \in Characters
  BY DEF Characters
<1>2. \A S : \A x, y \in S : <<x, y, x, y>> \in Seq(S)
  OBVIOUS
<1> QED
  BY <1>1, <1>2 DEF Literal

\* A boundary is made, and two blocks with it.
MadeOk(q, b, t) ==
  /\ Is(t) /\ Frame(q, t) /\ t.allocated = Owned(t.c, t.post) /\ t.post.boundary = b
  /\ t.post.length = q.post.length /\ t.c = q.c /\ t.handler = q.handler /\ t.pc = q.pc

\* The two blocks of a boundary.
LEMMA BoundaryMade ==
  ASSUME NEW q, Is(q), q.c.post = TRUE, q.allocated = Owned(q.c, q.post), q.post.boundary = None,
         NEW b \in Boundaries, (b.ref # Literal) = (b.buffer = None),
         NEW kind, kind = IF b.buffer = None THEN "boundary_ref" ELSE "boundary_buffer",
         NEW v, v = [q EXCEPT !.post.boundary = b]
  PROVE  MadeOk(q, b, Took(Took(v, "boundary"), kind))
<1> PICK t : t = Took(Took(v, "boundary"), kind)
  OBVIOUS
<1>1. BoundaryOk(q, b, v)
  BY BoundaryIs
<1>2. /\ v.post.length = q.post.length
      /\ Is(v) /\ Frame(q, v) /\ v.allocated = q.allocated /\ v.c = q.c
      /\ v.handler = q.handler /\ v.pc = q.pc /\ v.post.file = q.post.file /\ v.post.boundary = b
  BY <1>1 DEF BoundaryOk
<1>3. PICK u : u = Took(v, "boundary")
  OBVIOUS
<1>4. TookOk(v, "boundary", u)
  BY <1>2, <1>3, TookIs
<1>5. /\ Is(u) /\ Frame(v, u) /\ u.allocated = [v.allocated EXCEPT !["boundary"] = @ + 1]
      /\ u.post = v.post /\ u.c = v.c /\ u.handler = v.handler /\ u.pc = v.pc
  BY <1>4 DEF TookOk
<1>6. TookOk(u, kind, t)
  BY <1>3, <1>5, TookIs
<1>7. /\ Is(t) /\ Frame(u, t) /\ t.allocated = [u.allocated EXCEPT ![kind] = @ + 1]
      /\ t.post = u.post /\ t.c = u.c /\ t.handler = u.handler /\ t.pc = u.pc
  BY <1>6 DEF TookOk
<1>8. b # None
  BY Nones
<1>9. \A k \in Kinds : Owned(q.c, v.post)[k] =
        Owned(q.c, q.post)[k] + (IF k \in {"boundary", kind} THEN 1 ELSE 0)
  BY <1>2, <1>8, OwnedKinds DEF Kinds, One
<1>10. [[Owned(q.c, q.post) EXCEPT !["boundary"] = @ + 1] EXCEPT ![kind] = @ + 1] = Owned(q.c, v.post)
  BY <1>9, OwnedTwice DEF Kinds
<1>11. t.allocated = Owned(t.c, t.post)
  BY <1>2, <1>5, <1>7, <1>10
<1>12. Frame(q, t)
  BY <1>2, <1>5, <1>7 DEF Frame
<1> QED
  BY <1>2, <1>5, <1>7, <1>11, <1>12 DEF MadeOk

\* The type of the content: that of multipart data allocates the boundary and
\* boundary_ref, and may leave the boundary half made.
LEMMA ContentTypeLeads ==
  ASSUME NEW q, Reading(q), q.c.state = "content_type",
         q.c.blob.at = Multipart => q.post.boundary = None, NEW refused
  PROVE  Leads(q, ContentType(q, refused))
<1>1. Is(q) /\ States(q.c, q.handler) /\ q.allocated = Owned(q.c, q.post) /\ Named(q)
  BY ReadingHolds
<1>2. q.c.post = TRUE /\ IsPost(q.post) /\ q.handler # None
  BY <1>1 DEF States, PostStates, Is, IsConnection
<1>3. PICK type : type = q.c.blob.at
  OBVIOUS
<1>4. PICK y : y = [q EXCEPT !.post.type = type]
  OBVIOUS
<1>5. Leads(q, y) /\ Reading(y) /\ y.c = q.c /\ y.handler = q.handler
      /\ y.post.boundary = q.post.boundary
  <2>1. TypeOk(q, y)
    BY <1>2, <1>4, TypeLeads
  <2> QED
    BY <2>1 DEF TypeOk
<1>6. PICK t : t = [y EXCEPT !.c.state = "attributes", !.c.blob = At("content")]
  OBVIOUS
<1>7. /\ Leads(y, t) /\ Reading(t) /\ t.pc = "loop"
      /\ t.c.state = "attributes" /\ t.c.post = y.c.post /\ t.post = y.post /\ t.handler = y.handler
  <2>1. "attributes" \in Header
    BY DEF Header
  <2>2. y.c.post /\ y.handler # None
    BY <1>2, <1>5
  <2>3. StateOk(y, "attributes", t)
    BY <1>5, <1>6, <2>1, <2>2, StateLeads
  <2> QED
    BY <2>3 DEF StateOk, Reading
<1>8. Leads(q, t) /\ Reading(t)
  BY <1>5, <1>7, LeadsTwice DEF Reading
<1>9. t = [q EXCEPT !.post.type = type, !.c.state = "attributes", !.c.blob = At("content")]
  BY <1>1, <1>2, <1>4, <1>6 DEF Is, IsConnection
<1>10. t.c.state = "attributes" /\ t.c.post = TRUE /\ t.post = y.post /\ t.handler = q.handler
  BY <1>2, <1>5, <1>7
<1>11. CASE type = Multipart
  <2>1. q.post.boundary = None
    BY <1>3, <1>11
  <2>2. Leads(q, Error([q EXCEPT !.post.boundary = None], Page404))
    <3>1. PICK u : u = [q EXCEPT !.post.boundary = None]
      OBVIOUS
    <3>2. u = q
      BY <1>1, <1>2, <2>1, <3>1 DEF Is, IsPost
    <3> QED
      BY <3>1, <3>2, ErrorLeads
  <2>3. PICK e : e = [ref |-> << >>, size |-> CHUNK, index |-> 0, part |-> 0,
                      buffer |-> None, counting |-> FALSE, live |-> FALSE]
    OBVIOUS
  <2>4. e \in Boundaries /\ e.ref = << >> /\ e.buffer = None /\ e.live = FALSE
    BY <2>3, EmptyText, RequestAssumption DEF Boundaries
  <2>5. Leads(q, Error([q EXCEPT !.post.boundary = e], Page404))
    <3>1. PICK u : u = [q EXCEPT !.post.boundary = e]
      OBVIOUS
    <3>2. BoundaryOk(q, e, u)
      BY <1>1, <1>2, <2>4, <3>1, BoundaryIs
    <3>3. /\ Is(u) /\ Frame(q, u) /\ u.c = q.c /\ u.post.boundary = e
      BY <3>2 DEF BoundaryOk
    <3>4. PICK w : w = Error(u, Page404)
      OBVIOUS
    <3>5. Is(w) /\ Frame(u, w) /\ w.post = u.post /\ w.c = u.c /\ w.handler = Page404 /\ w.pc = "end"
      BY <3>3, <3>4, ErrorIs
    <3>6. Frame(q, w)
      BY <3>3, <3>5 DEF Frame
    <3>7. Doomed(w) /\ Named(w) /\ States(w.c, w.handler)
      BY <1>1, <1>2, <2>4, <3>3, <3>5, Nones, LiteralIs DEF Doomed, Named, States, Failed
    <3> QED
      BY <3>1, <3>3, <3>4, <3>5, <3>6, <3>7, DoomedLeads DEF Reading, Body
  <2>6. PICK g : g = [ref |-> << >>, size |-> CHUNK, index |-> 0, part |-> 0,
                      buffer |-> None, counting |-> FALSE, live |-> TRUE]
    OBVIOUS
  <2>7. g \in Boundaries /\ g.ref = << >> /\ g.buffer = None
    BY <2>6, EmptyText, RequestAssumption DEF Boundaries
  <2>8. PICK v : v = [t EXCEPT !.post.boundary = g]
    OBVIOUS
  <2>9. PICK u : u = Took(Took(v, "boundary"), "boundary_ref")
    OBVIOUS
  <2>10. Is(t) /\ t.allocated = Owned(t.c, t.post) /\ States(t.c, t.handler) /\ t.post.boundary = None
    BY <1>5, <1>8, <1>10, <2>1, ReadingHolds
  <2>11. MadeOk(t, g, u)
    <3>1. PICK kind : kind = IF g.buffer = None THEN "boundary_ref" ELSE "boundary_buffer"
      OBVIOUS
    <3>2. u = Took(Took(v, "boundary"), kind)
      BY <2>7, <2>9, <3>1
    <3>3. g.ref # Literal
      BY <2>7, LiteralIs
    <3>4. (g.ref # Literal) = (g.buffer = None)
      BY <2>7, <3>3
    <3> QED
      BY <1>10, <2>7, <2>8, <2>10, <3>1, <3>2, <3>4, BoundaryMade
  <2>12. /\ Is(u) /\ Frame(t, u) /\ u.allocated = Owned(u.c, u.post)
         /\ u.c = t.c /\ u.handler = t.handler /\ u.pc = t.pc /\ Named(u)
    BY <2>7, <2>11, LiteralIs DEF Named, MadeOk
  <2>13. Leads(t, u)
    BY <1>7, <1>10, <2>10, <2>12, BlocksHeld
  <2>14. Leads(q, u)
    BY <1>7, <1>8, <2>13, LeadsTwice
  <2>15. ContentType(q, refused) \in {Error([q EXCEPT !.post.boundary = None], Page404),
                  Error([q EXCEPT !.post.boundary = e], Page404), u}
    <3>1. CASE refused = "boundary"
      BY <1>3, <1>11, <3>1 DEF ContentType
    <3>2. CASE refused = "boundary_ref"
      BY <1>3, <1>11, <2>3, <3>2 DEF ContentType
    <3>3. CASE refused \notin {"boundary", "boundary_ref"}
      BY <1>3, <1>9, <1>11, <2>6, <2>8, <2>9, <3>3 DEF ContentType
    <3> QED
      BY <3>1, <3>2, <3>3
  <2> QED
    BY <2>2, <2>5, <2>14, <2>15
<1>12. CASE type # Multipart
  <2>1. Leads(q, Error([q EXCEPT !.post.type = None], Page404))
    <3>1. PICK u : u = [q EXCEPT !.post.type = None]
      OBVIOUS
    <3>2. Leads(q, u) /\ Reading(u)
      <4>1. TypeOk(q, u)
        BY <1>2, <3>1, TypeLeads
      <4> QED
        BY <4>1 DEF TypeOk
    <3>3. Leads(u, Error(u, Page404))
      BY <3>2, ErrorLeads
    <3> QED
      BY <3>1, <3>2, <3>3, LeadsTwice DEF Reading
  <2>2. ContentType(q, refused) \in {t, Error([q EXCEPT !.post.type = None], Page404)}
    BY <1>3, <1>9, <1>12 DEF ContentType
  <2> QED
    BY <1>8, <2>1, <2>2
<1> QED
  BY <1>11, <1>12

\* The header of the request or of a part ends.
EndsHeader(q, t) == Leads(q, t) \/ Begins(q, t)

\* The data begin at once.
LEMMA DataBegin ==
  ASSUME NEW q, Reading(q), q.c.post, q.handler # None
  PROVE  Begins(q, [q EXCEPT !.c.state = "post_data", !.pc = "data"])
<1>1. Is(q) /\ States(q.c, q.handler) /\ q.allocated = Owned(q.c, q.post) /\ Named(q)
  BY ReadingHolds
<1>2. PICK t : t = [q EXCEPT !.c.state = "post_data", !.pc = "data"]
  OBVIOUS
<1>3. /\ Is(t) /\ Frame(q, t) /\ t.allocated = q.allocated /\ t.post = q.post
      /\ t.c.args = q.c.args /\ t.c.post = q.c.post /\ t.c.state = "post_data"
      /\ t.handler = q.handler /\ t.pc = "data"
  BY <1>1, <1>2 DEF Is, IsConnection, Frame
<1>4. t.allocated = Owned(t.c, t.post) /\ Named(t) /\ States(t.c, t.handler)
  BY <1>1, <1>3 DEF Owned, Named, States
<1>5. Begins(q, t)
  BY <1>3, <1>4, BlocksHeldInData
<1> QED
  BY <1>2, <1>5

\* The content of each part is counted from here.
CountingOk(q, t) == Leads(q, t) /\ Reading(t) /\ t.c = q.c /\ t.handler = q.handler

\* Only a field of the boundary changes.
LEMMA CountingLeads ==
  ASSUME NEW q, Reading(q), q.c.post, q.post.boundary # None
  PROVE  CountingOk(q, [q EXCEPT !.post.boundary.counting = TRUE])
<1>1. Is(q) /\ States(q.c, q.handler) /\ q.allocated = Owned(q.c, q.post) /\ Named(q)
  BY ReadingHolds
<1>2. q.c.post = TRUE /\ IsPost(q.post)
  BY <1>1 DEF Is, IsConnection
<1>3. PICK b : b = q.post.boundary
  OBVIOUS
<1>4. b \in Boundaries
  BY <1>2, <1>3 DEF IsPost
<1>5. PICK e : e = [b EXCEPT !.counting = TRUE]
  OBVIOUS
<1>6. e \in Boundaries /\ e.ref = b.ref /\ e.buffer = b.buffer
  BY <1>4, <1>5 DEF Boundaries
<1>7. PICK t : t = [q EXCEPT !.post.boundary = e]
  OBVIOUS
<1>8. BoundaryOk(q, e, t)
  BY <1>1, <1>2, <1>6, <1>7, BoundaryIs
<1>9. /\ Is(t) /\ Frame(q, t) /\ t.allocated = q.allocated /\ t.c = q.c
      /\ t.handler = q.handler /\ t.pc = q.pc
      /\ t.post.file = q.post.file /\ t.post.boundary = e
  BY <1>8 DEF BoundaryOk
<1>10. e # None
  BY <1>6, Nones
<1>11. t.allocated = Owned(t.c, t.post)
  BY <1>1, <1>3, <1>6, <1>9, <1>10 DEF Owned
<1>12. Named(t)
  BY <1>1, <1>2, <1>3, <1>6, <1>9 DEF Named
<1>13. Leads(q, t)
  BY <1>1, <1>9, <1>11, <1>12, BlocksHeld DEF Reading, Body
<1>14. CountingOk(q, t)
  BY <1>9, <1>13, LeadsTwice DEF Reading, CountingOk
<1>15. t = [q EXCEPT !.post.boundary.counting = TRUE]
  BY <1>1, <1>3, <1>5, <1>7
<1> QED
  BY <1>14, <1>15

\* The literal boundary: data without a length end with a void line.
LEMMA LiteralBegins ==
  ASSUME NEW q, Reading(q), q.c.post, q.handler # None, q.post.boundary = None,
         q.post.length = NoLength, NEW b \in Boundaries, b.ref = Literal, b.buffer # None
  PROVE  /\ Begins(q, Took(Took([q EXCEPT !.c.state = "post_data", !.pc = "data",
                                          !.post.boundary = b], "boundary"), "boundary_buffer"))
         /\ ~ b.live => Leads(q, Error([q EXCEPT !.post.boundary = b], Page404))
<1>1. Is(q) /\ States(q.c, q.handler) /\ q.allocated = Owned(q.c, q.post)
  BY ReadingHolds
<1>2. q.c.post = TRUE /\ IsPost(q.post)
  BY <1>1 DEF Is, IsConnection
<1>3. PICK d : d = [q EXCEPT !.c.state = "post_data", !.pc = "data"]
  OBVIOUS
<1>4. /\ Is(d) /\ Frame(q, d) /\ d.allocated = q.allocated /\ d.post = q.post
      /\ d.c.args = q.c.args /\ d.c.post = TRUE /\ d.c.state = "post_data"
      /\ d.handler = q.handler /\ d.pc = "data"
  BY <1>1, <1>2, <1>3 DEF Is, IsConnection, Frame
<1>5. d.allocated = Owned(d.c, d.post)
  BY <1>1, <1>2, <1>4 DEF Owned
<1>6. PICK v : v = [d EXCEPT !.post.boundary = b]
  OBVIOUS
<1>7. v = [q EXCEPT !.c.state = "post_data", !.pc = "data", !.post.boundary = b]
  BY <1>1, <1>2, <1>3, <1>6 DEF Is, IsConnection
<1>8. PICK kind : kind = IF b.buffer = None THEN "boundary_ref" ELSE "boundary_buffer"
  OBVIOUS
<1>9. kind = "boundary_buffer" /\ (b.ref # Literal) = (b.buffer = None)
  BY <1>8
<1>10. PICK t : t = Took(Took(v, "boundary"), kind)
  OBVIOUS
<1>11. MadeOk(d, b, t)
  BY <1>4, <1>5, <1>6, <1>8, <1>9, <1>10, BoundaryMade
<1>12. /\ Is(t) /\ Frame(d, t) /\ t.allocated = Owned(t.c, t.post) /\ t.post.boundary = b
       /\ t.post.length = NoLength /\ t.c = d.c /\ t.handler = q.handler /\ t.pc = "data"
  BY <1>4, <1>11 DEF MadeOk
<1>13. RefInv(t) /\ States(t.c, t.handler) /\ Frame(q, t)
  BY <1>4, <1>12, LiteralIs DEF RefInv, States, Frame
<1>14. Begins(q, t)
  BY <1>4, <1>12, <1>13, BlocksHeldInData
<1>15. Begins(q, Took(Took([q EXCEPT !.c.state = "post_data", !.pc = "data",
                                     !.post.boundary = b], "boundary"), "boundary_buffer"))
  BY <1>7, <1>9, <1>10, <1>14
<1>16. ASSUME ~ b.live PROVE Leads(q, Error([q EXCEPT !.post.boundary = b], Page404))
  <2>1. PICK u : u = [q EXCEPT !.post.boundary = b]
    OBVIOUS
  <2>2. BoundaryOk(q, b, u)
    BY <1>1, <1>2, <2>1, BoundaryIs
  <2>3. /\ Is(u) /\ Frame(q, u) /\ u.c = q.c /\ u.post.boundary = b /\ u.post.length = NoLength
    BY <2>2 DEF BoundaryOk
  <2>4. PICK w : w = Error(u, Page404)
    OBVIOUS
  <2>5. Is(w) /\ Frame(u, w) /\ w.post = u.post /\ w.c = u.c /\ w.handler = Page404 /\ w.pc = "end"
    BY <2>3, <2>4, ErrorIs
  <2>6. Frame(q, w)
    BY <2>3, <2>5 DEF Frame
  <2>7. b # None
    BY Nones
  <2>8. Doomed(w) /\ States(w.c, w.handler)
    BY <1>1, <1>2, <1>16, <2>3, <2>5, <2>7, Nones DEF Doomed, States, Failed
  <2>9. RefInv(w)
    BY <2>3, <2>5, LiteralIs, Nones DEF RefInv, Failed
  <2> QED
    BY <2>1, <2>3, <2>4, <2>5, <2>6, <2>8, <2>9, DoomedLeads DEF Reading, Body
<1> QED
  BY <1>15, <1>16

\* The end of a header: the data, their arguments or the literal boundary begin.
LEMMA EndHeaderLeads ==
  ASSUME NEW q, Reading(q), q.c.state = "post_end", NEW c \in Characters, NEW refused,
         q.c.args => c \notin {"?", LF}
  PROVE  EndsHeader(q, EndHeader(q, c, refused))
<1>1. Is(q) /\ States(q.c, q.handler)
  BY ReadingHolds
<1>2. q.c.post = TRUE /\ q.handler # None /\ IsPost(q.post)
  BY <1>1 DEF States, PostStates, Is, IsConnection
<1>3. \A handler \in {Page404, Page505} : Leads(q, Error(q, handler))
  BY ErrorLeads
<1>4. CASE q.post.type = None
  <2>1. EndHeader(q, c, refused) = Error(q, Page505)
    <3>1. Form # None
      BY RequestAssumption, Nones
    <3> QED
      BY <1>4, <3>1 DEF EndHeader
  <2> QED
    BY <1>3, <2>1 DEF EndsHeader
<1>5. CASE q.post.type # None /\ q.post.boundary # None
  <2>1. PICK t : t = [q EXCEPT !.post.boundary.counting = TRUE]
    OBVIOUS
  <2>2. Leads(q, t) /\ Reading(t) /\ t.c = q.c /\ t.handler = q.handler
    <3>1. CountingOk(q, t)
      BY <1>2, <1>5, <2>1, CountingLeads
    <3> QED
      BY <3>1 DEF CountingOk
  <2>3. PICK u : u = [t EXCEPT !.c.state = "attributes", !.c.blob = At("content")]
    OBVIOUS
  <2>4. Leads(t, u)
    <3>1. "attributes" \in Header
      BY DEF Header
    <3>2. StateOk(t, "attributes", u)
      BY <1>2, <2>2, <2>3, <3>1, StateLeads
    <3> QED
      BY <3>2 DEF StateOk
  <2>5. PICK v : v = [t EXCEPT !.c.state = "post_data", !.pc = "data"]
    OBVIOUS
  <2>6. Begins(t, v)
    BY <1>2, <2>2, <2>5, DataBegin
  <2>7. Leads(q, u) /\ Begins(q, v)
    BY <2>2, <2>4, <2>6 DEF Leads, Begins, Frame
  <2>8. EndHeader(q, c, refused) \in {u, v}
    BY <1>5, <2>1, <2>3, <2>5 DEF EndHeader
  <2> QED
    BY <2>7, <2>8 DEF EndsHeader
<1>6. CASE q.post.type # None /\ q.post.type = Form /\ q.post.boundary = None
  <2>1. PICK t : t = [q EXCEPT !.c.state = "post_args"]
    OBVIOUS
  <2>2. "post_args" \in Header
    BY DEF Header
  <2>3. StateOk(q, "post_args", t)
    BY <1>2, <2>1, <2>2, StateLeads
  <2>4. Leads(q, t) /\ Reading(t) /\ t.c.state = "post_args" /\ t.c.args = q.c.args
    BY <2>3 DEF StateOk
  <2>5. Leads(t, Url(t, c, refused))
    BY <2>4, UrlLeads
  <2>6. Leads(q, Url(t, c, refused))
    BY <2>4, <2>5, LeadsTwice DEF Reading
  <2>7. EndHeader(q, c, refused) = Url(t, c, refused)
    BY <1>6, <2>1 DEF EndHeader
  <2> QED
    BY <2>6, <2>7 DEF EndsHeader
<1>7. CASE q.post.type \notin {None, Form} /\ q.post.boundary = None /\ q.post.length # NoLength
  <2>1. PICK t : t = [q EXCEPT !.c.state = "post_data", !.pc = "data"]
    OBVIOUS
  <2>2. Begins(q, t)
    BY <1>2, <2>1, DataBegin
  <2>3. EndHeader(q, c, refused) = t
    BY <1>7, <2>1 DEF EndHeader
  <2> QED
    BY <2>2, <2>3 DEF EndsHeader
<1>8. CASE q.post.type \notin {None, Form} /\ q.post.boundary = None /\ q.post.length = NoLength
  <2>1. PICK literal : literal = [ref |-> <<CR, LF, CR, LF>>, size |-> 4, index |-> NoIndex,
                  part |-> 0, buffer |-> << >>, counting |-> FALSE, live |-> TRUE]
    OBVIOUS
  <2>2. /\ literal \in Boundaries /\ literal.ref = Literal /\ literal.buffer # None
    <3>1. <<CR, LF, CR, LF>> = Literal
      BY DEF Literal
    <3>2. 4 \in Nat /\ NoIndex \in Nat /\ 0 \in Nat
      BY DEF NoIndex
    <3> QED
      BY <2>1, <3>1, <3>2, LiteralIs, EmptyText DEF Boundaries
  <2>3. PICK b : b = [literal EXCEPT !.live = FALSE]
    OBVIOUS
  <2>4. b \in Boundaries /\ b.ref = Literal /\ b.buffer # None /\ ~ b.live
    BY <2>2, <2>3 DEF Boundaries
  <2>5. PICK u : u = Error([q EXCEPT !.post.boundary = b], Page404)
    OBVIOUS
  <2>6. Leads(q, u)
    BY <1>2, <1>8, <2>4, <2>5, LiteralBegins
  <2>7. PICK v : v = Took(Took([q EXCEPT !.c.state = "post_data", !.pc = "data",
                                        !.post.boundary = literal], "boundary"), "boundary_buffer")
    OBVIOUS
  <2>8. Begins(q, v)
    BY <1>2, <1>8, <2>2, <2>7, LiteralBegins
  <2>9. EndHeader(q, c, refused) \in {Error(q, Page404), u, v}
    <3>1. CASE refused = "boundary"
      BY <1>8, <3>1 DEF EndHeader
    <3>2. CASE refused = "boundary_buffer"
      BY <1>8, <2>1, <2>3, <2>5, <3>2 DEF EndHeader
    <3>3. CASE refused \notin {"boundary", "boundary_buffer"}
      BY <1>8, <2>1, <2>7, <3>3 DEF EndHeader
    <3> QED
      BY <3>1, <3>2, <3>3
  <2> QED
    BY <1>3, <2>6, <2>8, <2>9 DEF EndsHeader
<1> QED
  BY <1>4, <1>5, <1>6, <1>7, <1>8

\* A character in the value of an attribute.
LEMMA AttributeLeads ==
  ASSUME NEW q, Reading(q), q.c.state = "attributes", NEW c \in Characters, NEW refused,
         IsAttribute(q.c.blob, "boundary") => q.post.boundary # None /\ q.post.boundary.buffer = None
  PROVE  Leads(q, Attribute(q, c, refused))
<1>1. Is(q) /\ States(q.c, q.handler)
  BY ReadingHolds
<1>2. q.c.post = TRUE /\ q.handler # None
  BY <1>1 DEF States, PostStates, Is, IsConnection
<1>3. PICK t : t = [q EXCEPT !.c.state = "content_type", !.c.blob = At("mimes")]
  OBVIOUS
<1>4. Leads(q, t)
  <2>1. "content_type" \in Header
    BY DEF Header
  <2>2. StateOk(q, "content_type", t)
    BY <1>2, <1>3, <2>1, StateLeads
  <2> QED
    BY <2>2 DEF StateOk
<1>5. Leads(q, ContentLength(q, c)) /\ Leads(q, Filename(q, c, refused)) /\ Leads(q, q)
  BY <1>1, <1>2, ContentLengthLeads, FilenameLeads, QuietLeads DEF Quiet, Frame
<1>6. IsAttribute(q.c.blob, "boundary") => Leads(q, Boundary(q, c, refused))
  BY BoundaryLeads
<1>7. \/ Attribute(q, c, refused) \in {t, ContentLength(q, c), Filename(q, c, refused), q}
      \/ IsAttribute(q.c.blob, "boundary") /\ Attribute(q, c, refused) = Boundary(q, c, refused)
  BY <1>3 DEF Attribute
<1> QED
  BY <1>4, <1>5, <1>6, <1>7

\* A character in any state but those of multipart data.
LEMMA CharacterLeads ==
  ASSUME NEW q, Reading(q), NEW c \in Characters, NEW refused, Polite(q, c)
  PROVE  EndsHeader(q, Character(q, c, refused))
<1>1. Is(q) /\ States(q.c, q.handler)
  BY ReadingHolds
<1>2. ASSUME NEW t, Leads(q, t)
      PROVE  Leads(q, IF t.pc = "end" THEN t ELSE Rest(t, c, t.c.blob))
  <2>1. CASE t.pc = "end"
    BY <1>2, <2>1
  <2>2. CASE t.pc # "end"
    <3>1. t.pc = "loop"
      BY <1>2, <2>2 DEF Leads
    <3>2. Leads(q, Rest(t, c, t.c.blob))
      BY <1>2, <3>1, LeadsRest
    <3> QED
      BY <2>2, <3>2
  <2> QED
    BY <2>1, <2>2
<1>3. CASE ~ Marked(q.c.blob, q.handler)
  <2>1. Leads(q, Rest(q, c, q.c.blob))
    BY <1>1, RestQuiet, QuietLeads DEF Reading
  <2>2. Character(q, c, refused) = Rest(q, c, q.c.blob)
    BY <1>3 DEF Character
  <2> QED
    BY <2>1, <2>2 DEF EndsHeader
<1>4. CASE Marked(q.c.blob, q.handler)
  <2>1. q.c.args => c \notin {"?", LF}
    BY <1>4 DEF Polite
  <2>2. CASE q.c.state = "post_end"
    <3>1. Character(q, c, refused) = EndHeader(q, c, refused)
      BY <1>4, <2>2 DEF Character
    <3> QED
      BY <2>1, <2>2, <3>1, EndHeaderLeads
  <2>3. CASE q.c.state = "attributes"
    <3>1. PICK t : t = Attribute(q, c, refused)
      OBVIOUS
    <3>2. Leads(q, t)
      <4>1. IsAttribute(q.c.blob, "boundary") => q.post.boundary # None /\ q.post.boundary.buffer = None
        BY <1>4, <2>3 DEF Polite
      <4> QED
        BY <2>3, <3>1, <4>1, AttributeLeads
    <3>3. Character(q, c, refused) = IF t.pc = "end" THEN t ELSE Rest(t, c, t.c.blob)
      BY <1>4, <2>3, <3>1 DEF Character
    <3> QED
      BY <1>2, <3>2, <3>3 DEF EndsHeader
  <2>4. CASE q.c.state = "content_type"
    <3>1. PICK t : t = ContentType(q, refused)
      OBVIOUS
    <3>2. Leads(q, t)
      <4>1. q.c.blob.at = Multipart => q.post.boundary = None
        BY <1>4, <2>4 DEF Polite
      <4> QED
        BY <2>4, <3>1, <4>1, ContentTypeLeads
    <3>3. Character(q, c, refused) = IF t.pc = "end" THEN t ELSE Rest(t, c, t.c.blob)
      BY <1>4, <2>4, <3>1 DEF Character
    <3> QED
      BY <1>2, <3>2, <3>3 DEF EndsHeader
  <2>5. CASE q.c.state = "cmd"
    <3>1. PICK t : t = Command(q, refused)
      OBVIOUS
    <3>2. Leads(q, t)
      BY <2>5, <3>1, CommandLeads
    <3>3. Character(q, c, refused) = IF t.pc = "end" THEN t ELSE Rest(t, c, t.c.blob)
      BY <1>4, <2>5, <3>1 DEF Character
    <3> QED
      BY <1>2, <3>2, <3>3 DEF EndsHeader
  <2>6. CASE q.c.state \notin {"post_end", "attributes", "content_type", "cmd"}
    <3>1. Character(q, c, refused) = Url(q, c, refused)
      BY <1>4, <2>6 DEF Character
    <3>2. Leads(q, Url(q, c, refused))
      BY <2>1, <2>6, UrlLeads
    <3> QED
      BY <3>1, <3>2 DEF EndsHeader
  <2> QED
    BY <2>2, <2>3, <2>4, <2>5, <2>6
<1> QED
  BY <1>3, <1>4

----------------------------------------------------------------------------
\* The steps of the loop.

\* A step of the loop keeps the blocks exact.
Going(q, t) ==
  /\ Good(t) /\ t.c.state # "out" /\ t.pc \in {"loop", "data", "in", "end"}
  /\ t.x \in Nat /\ t.end = q.end /\ t.damaged = q.damaged
  /\ t.c.handler = q.c.handler /\ (q.handler # None => t.handler # None)

\* conn is not changed before the end of the segment.
LEMMA LoopKeeps ==
  ASSUME HeapInv, p.pc # "idle", UNCHANGED <<request, sent, conn>>, Going(p, p')
  PROVE  HeapInv'
<1>1. WhereInv /\ ConnInv /\ (p.c.handler # None => p.handler # None)
  BY DEF HeapInv
<1>2. p'.pc \in {"loop", "data", "in", "end"} /\ Good(p') /\ p'.c.state # "out"
      /\ (p'.c.handler # None => p'.handler # None)
  BY <1>1 DEF Going
<1>3. WhereInv'
  BY <1>1 DEF WhereInv, HeapInv, Going, Text
<1>4. ConnInv'
  BY <1>1 DEF ConnInv, Going
<1> QED
  BY <1>2, <1>3, <1>4 DEF HeapInv

\* What is known of p in the loop.
LEMMA LoopHolds ==
  ASSUME HeapInv, p.pc # "idle"
  PROVE  /\ Is(p) /\ Good(p) /\ StateInv(p) /\ RefInv(p) /\ States(p.c, p.handler)
         /\ p.c.state # "out" /\ p.pc \in {"loop", "data", "in", "end"}
         /\ p.x \in Nat /\ p.end \in 0 .. Len(Text)
         /\ p.c.handler # None => p.handler # None
         /\ p.pc # "end" => p.allocated = Owned(p.c, p.post)
<1>1. Good(p) /\ p.c.state # "out" /\ p.pc \in {"loop", "data", "in", "end"}
      /\ (p.c.handler # None => p.handler # None)
  BY DEF HeapInv
<1>2. p.x \in Nat /\ p.end \in 0 .. Len(Text)
  BY DEF HeapInv, WhereInv
<1>3. Is(p) /\ StateInv(p) /\ RefInv(p) /\ States(p.c, p.handler)
  BY <1>1 DEF Good, StateInv
<1>4. p.pc # "end" => p.allocated = Owned(p.c, p.post)
  BY <1>1 DEF Good, Doomed
<1> QED
  BY <1>1, <1>2, <1>3, <1>4

\* The text is made of characters.
LEMMA NextCharacter ==
  ASSUME HeapInv, p.pc # "idle", p.x < p.end
  PROVE  Text[p.x + 1] \in Characters
<1>1. request \in Requests /\ p.x \in Nat /\ p.end \in 0 .. Len(Text)
  BY DEF HeapInv, WhereInv
<1>2. Text \in Seq(Characters)
  BY <1>1, RequestAssumption DEF Text
<1>3. p.x + 1 \in 1 .. Len(Text)
  BY <1>1, <1>2
<1> QED
  BY <1>2, <1>3

\* The blocks are exact after a step that leaves the same ones.
LEMMA GoingExact ==
  ASSUME NEW q, NEW t, Is(t), StateInv(t), RefInv(t), t.allocated = Owned(t.c, t.post),
         t.c.state # "out", t.pc \in {"loop", "data", "in", "end"},
         t.x \in Nat, t.end = q.end, t.damaged = q.damaged,
         t.c.handler = q.c.handler, q.handler # None => t.handler # None
  PROVE  Going(q, t)
BY DEF Going, Good

\* The multipart data end before their length.
LEMMA EndPartsStep ==
  ASSUME HeapInv, EndParts
  PROVE  HeapInv'
<1>1. p.pc = "loop" /\ UNCHANGED <<request, sent, conn>>
  BY DEF EndParts, More
<1>2. /\ Is(p) /\ RefInv(p) /\ p.allocated = Owned(p.c, p.post) /\ p.x \in Nat
      /\ States(p.c, p.handler)
  BY <1>1, LoopHolds
<1>3. PICK t : t = [p EXCEPT !.c.ready = TRUE, !.c.state = "end", !.pc = "end"]
  OBVIOUS
<1>4. /\ Is(t) /\ t.c.state = "end" /\ t.pc = "end" /\ t.c.args = p.c.args /\ t.c.post = p.c.post
      /\ t.post = p.post /\ t.allocated = p.allocated /\ t.handler = p.handler
      /\ t.c.handler = p.c.handler /\ t.x = p.x /\ t.end = p.end /\ t.damaged = p.damaged
  BY <1>2, <1>3 DEF Is, IsConnection
<1>5. StateInv(t)
  BY <1>4 DEF StateInv, States, PostStates
<1>6. RefInv(t)
  BY <1>2, <1>4 DEF RefInv
<1>7. t.allocated = Owned(t.c, t.post)
  BY <1>2, <1>4 DEF Owned
<1>8. Going(p, t)
  BY <1>2, <1>4, <1>5, <1>6, <1>7, GoingExact
<1>9. p' = t
  BY <1>3 DEF EndParts
<1> QED
  BY <1>1, <1>8, <1>9, LoopKeeps

\* The segment ends in the loop.
LEMMA EndLoopStep ==
  ASSUME HeapInv, EndLoop
  PROVE  HeapInv'
<1>1. p.pc = "loop" /\ UNCHANGED <<request, sent, conn>>
  BY DEF EndLoop
<1>2. /\ Is(p) /\ RefInv(p) /\ p.allocated = Owned(p.c, p.post) /\ p.x \in Nat
      /\ States(p.c, p.handler) /\ StateInv(p) /\ p.c.state # "out"
  BY <1>1, LoopHolds
<1>3. PICK t : t = [p EXCEPT !.pc = "end"]
  OBVIOUS
<1>4. /\ Is(t) /\ t.c = p.c /\ t.pc = "end"
      /\ t.post = p.post /\ t.allocated = p.allocated /\ t.handler = p.handler
      /\ t.x = p.x /\ t.end = p.end /\ t.damaged = p.damaged
  BY <1>2, <1>3 DEF Is
<1>5. StateInv(t)
  BY <1>2, <1>4 DEF StateInv
<1>6. RefInv(t)
  BY <1>1, <1>2, <1>4 DEF RefInv
<1>8. Going(p, t)
  BY <1>2, <1>4, <1>5, <1>6, GoingExact
<1>9. p' = t
  BY <1>3 DEF EndLoop
<1> QED
  BY <1>1, <1>8, <1>9, LoopKeeps

\* The segment ends in doPostIn.
LEMMA InYieldsStep ==
  ASSUME HeapInv, InYields
  PROVE  HeapInv'
<1>1. p.pc = "in" /\ UNCHANGED <<request, sent, conn>>
  BY DEF InYields
<1>2. /\ Is(p) /\ RefInv(p) /\ p.allocated = Owned(p.c, p.post) /\ p.x \in Nat
      /\ States(p.c, p.handler) /\ StateInv(p) /\ p.c.state # "out"
  BY <1>1, LoopHolds
<1>3. PICK t : t = [p EXCEPT !.pc = "end"]
  OBVIOUS
<1>4. /\ Is(t) /\ t.c = p.c /\ t.pc = "end"
      /\ t.post = p.post /\ t.allocated = p.allocated /\ t.handler = p.handler
      /\ t.x = p.x /\ t.end = p.end /\ t.damaged = p.damaged
  BY <1>2, <1>3 DEF Is
<1>5. StateInv(t)
  BY <1>2, <1>4 DEF StateInv
<1>6. RefInv(t)
  BY <1>1, <1>2, <1>4 DEF RefInv
<1>8. Going(p, t)
  BY <1>2, <1>4, <1>5, <1>6, GoingExact
<1>9. p' = t
  BY <1>3 DEF InYields
<1> QED
  BY <1>1, <1>8, <1>9, LoopKeeps

\* A segment goes on in the post data.
LEMMA ResumeDataStep ==
  ASSUME HeapInv, ResumeData
  PROVE  HeapInv'
<1>1. p.pc = "loop" /\ p.c.state = "post_data" /\ UNCHANGED <<request, sent, conn>>
  BY DEF ResumeData, More
<1>2. /\ Is(p) /\ RefInv(p) /\ p.allocated = Owned(p.c, p.post) /\ p.x \in Nat
      /\ States(p.c, p.handler) /\ StateInv(p) /\ p.c.state # "out"
  BY <1>1, LoopHolds
<1>3. PICK t : t = [p EXCEPT !.pc = "data"]
  OBVIOUS
<1>4. /\ Is(t) /\ t.c = p.c /\ t.pc = "data"
      /\ t.post = p.post /\ t.allocated = p.allocated /\ t.handler = p.handler
      /\ t.x = p.x /\ t.end = p.end /\ t.damaged = p.damaged
  BY <1>2, <1>3 DEF Is
<1>5. StateInv(t)
  BY <1>1, <1>2, <1>4 DEF StateInv
<1>6. RefInv(t)
  BY <1>1, <1>2, <1>4 DEF RefInv
<1>8. Going(p, t)
  BY <1>2, <1>4, <1>5, <1>6, GoingExact
<1>9. p' = t
  BY <1>3 DEF ResumeData
<1> QED
  BY <1>1, <1>8, <1>9, LoopKeeps

\* One more character: only the length of the post data changes.
Next1Ok(t) ==
  /\ Is(t)
  /\ Reading(p) => Reading(t)
  /\ t.c = p.c /\ t.handler = p.handler /\ t.pc = p.pc /\ t.allocated = p.allocated
  /\ t.x = p.x + 1 /\ t.end = p.end /\ t.damaged = p.damaged /\ t.fault = p.fault
  /\ p.c.post => t.post.file = p.post.file /\ t.post.boundary = p.post.boundary
  /\ StateInv(t) /\ RefInv(t) /\ t.allocated = Owned(t.c, t.post)

\* DEV_GETC.
LEMMA Next1Is ==
  ASSUME HeapInv, p.pc = "loop"
  PROVE  Next1Ok(Next1)
<1>1. /\ Is(p) /\ RefInv(p) /\ p.allocated = Owned(p.c, p.post) /\ p.x \in Nat
      /\ States(p.c, p.handler) /\ StateInv(p) /\ p.c.state # "out"
  BY LoopHolds
<1>2. PICK n : n = Counted(p.post.length)
  OBVIOUS
<1>3. p.post.length = NoLength => n = NoLength
  BY <1>2 DEF Counted
<1>4. PICK d : d = IF p.c.state \in {"init_buffer", "post_args"} \/ Counting
                   THEN [p.post EXCEPT !.length = n] ELSE p.post
  OBVIOUS
<1>5. p.c.post => /\ IsPost(d) /\ d.file = p.post.file /\ d.boundary = p.post.boundary
                  /\ d.length = p.post.length \/ d.length = n
  BY <1>1, <1>4 DEF Is, IsPost
<1>6. PICK t : t = [p EXCEPT !.x = p.x + 1, !.post = d]
  OBVIOUS
<1>7. /\ Is(t) /\ t.c = p.c /\ t.handler = p.handler /\ t.pc = p.pc /\ t.allocated = p.allocated
      /\ t.x = p.x + 1 /\ t.end = p.end /\ t.damaged = p.damaged /\ t.fault = p.fault
      /\ t.post = d
  BY <1>1, <1>5, <1>6 DEF Is
<1>8. StateInv(t)
  <2>1. p.c.state \in {"init_buffer", "boundary"} => p.c.post
    BY <1>1 DEF States, PostStates
  <2> QED
    BY <1>1, <1>5, <1>7, <2>1 DEF StateInv
<1>9. RefInv(t)
  BY <1>1, <1>3, <1>5, <1>7 DEF RefInv, Failed
<1>10. t.allocated = Owned(t.c, t.post)
  BY <1>1, <1>5, <1>7 DEF Owned
<1>11. Reading(p) => Reading(t)
  BY <1>7, <1>8, <1>9, <1>10 DEF Reading, Good
<1>12. Next1Ok(t)
  BY <1>5, <1>7, <1>8, <1>9, <1>10, <1>11 DEF Next1Ok
<1>13. t = Next1
  BY <1>1, <1>2, <1>4, <1>6 DEF Next1, Is
<1> QED
  BY <1>12, <1>13

\* A character is read in a header.
LEMMA ReadCharacterStep ==
  ASSUME HeapInv, Orderly, ReadCharacter
  PROVE  HeapInv'
<1>1. /\ p.pc = "loop" /\ p.x < p.end /\ UNCHANGED <<request, sent, conn>>
      /\ p.c.state \notin Body
  BY DEF ReadCharacter, More, Body
<1>2. /\ Good(p) /\ p.c.state # "out" /\ p.x \in Nat /\ States(p.c, p.handler)
  BY <1>1, LoopHolds
<1>3. Reading(p)
  BY <1>1, <1>2 DEF Reading, Body
<1>4. PICK q : q = Next1
  OBVIOUS
<1>5. Next1Ok(q)
  BY <1>1, <1>4, Next1Is
<1>6. /\ Reading(q) /\ q.c = p.c /\ q.handler = p.handler /\ q.x = p.x + 1 /\ q.end = p.end
      /\ q.damaged = p.damaged /\ (p.c.post => q.post.boundary = p.post.boundary)
  BY <1>3, <1>5 DEF Next1Ok
<1>7. PICK c : c = Text[p.x + 1]
  OBVIOUS
<1>8. c \in Characters
  BY <1>1, <1>7, NextCharacter
<1>9. Polite(p, c)
  BY <1>1, <1>7 DEF Orderly
<1>10. Polite(q, c)
  <2>1. p.c.state \in {"content_type", "attributes"} => p.c.post
    BY <1>2 DEF States, PostStates
  <2> QED
    BY <1>6, <1>9, <2>1 DEF Polite
<1>11. PICK refused : p' = Character(q, c, refused)
  BY <1>4, <1>7 DEF ReadCharacter
<1>12. EndsHeader(q, p')
  BY <1>6, <1>8, <1>10, <1>11, CharacterLeads
<1>13. Good(p') /\ Frame(q, p') /\ p'.c.state # "out" /\ p'.pc \in {"loop", "data", "in", "end"}
  BY <1>12 DEF EndsHeader, Leads, Begins
<1>14. Going(p, p')
  BY <1>2, <1>6, <1>13 DEF Going, Frame
<1> QED
  BY <1>1, <1>14, LoopKeeps

\* A character of the buffer is replaced.
LEMMA ReplacedIn ==
  ASSUME NEW S, NEW seq \in Seq(S), NEW i, NEW e \in S
  PROVE  [seq EXCEPT ![i] = e] \in Seq(S)
<1>1. CASE i \in 1 .. Len(seq)
  BY <1>1
<1>2. CASE i \notin 1 .. Len(seq)
  <2>1. DOMAIN seq = 1 .. Len(seq)
    OBVIOUS
  <2>2. [seq EXCEPT ![i] = e] = [j \in 1 .. Len(seq) |-> seq[j]]
    BY <1>2, <2>1
  <2>3. seq = [j \in 1 .. Len(seq) |-> seq[j]]
    OBVIOUS
  <2> QED
    BY <2>2, <2>3
<1> QED
  BY <1>1, <1>2

\* Steps on a buffer that is there.
Alike(b, e) == e \in Boundaries /\ e.ref = b.ref /\ e.buffer # None

BoundaryRecord(b) ==
  /\ b = [ref |-> b.ref, size |-> b.size, index |-> b.index, part |-> b.part,
          buffer |-> b.buffer, counting |-> b.counting, live |-> b.live]
  /\ b.ref \in Seq(Characters) /\ b.size \in Nat /\ b.index \in Nat /\ b.part \in Nat
  /\ b.buffer \in Seq(Characters) \cup {None} /\ b.counting \in BOOLEAN /\ b.live \in BOOLEAN

\* The fields of a boundary.
LEMMA BoundariesAre ==
  ASSUME NEW b
  PROVE  b \in Boundaries <=> BoundaryRecord(b)
BY DEF Boundaries, BoundaryRecord

\* Only the index of the buffer changes.
LEMMA IndexAlike ==
  ASSUME NEW b \in Boundaries, b.buffer # None, NEW n \in Nat
  PROVE  Alike(b, [b EXCEPT !.index = n])
<1>1. PICK e : e = [b EXCEPT !.index = n]
  OBVIOUS
<1>2. BoundaryRecord(b)
  BY BoundariesAre
<1>3. BoundaryRecord(e) /\ e.ref = b.ref /\ e.buffer = b.buffer
  BY <1>1, <1>2 DEF BoundaryRecord
<1> QED
  BY <1>1, <1>3, BoundariesAre DEF Alike

\* The buffer and its index change.
LEMMA BufferAlike ==
  ASSUME NEW b \in Boundaries, NEW s \in Seq(Characters), NEW n \in Nat
  PROVE  Alike(b, [b EXCEPT !.buffer = s, !.index = n])
<1>1. PICK e : e = [b EXCEPT !.buffer = s, !.index = n]
  OBVIOUS
<1>2. BoundaryRecord(b) /\ s # None
  BY BoundariesAre, Nones
<1>3. BoundaryRecord(e) /\ e.ref = b.ref /\ e.buffer = s
  BY <1>1, <1>2 DEF BoundaryRecord
<1> QED
  BY <1>1, <1>2, <1>3, BoundariesAre DEF Alike

\* A character is stored.
LEMMA StoreAlike ==
  ASSUME NEW b \in Boundaries, b.buffer # None, NEW c \in Characters
  PROVE  Alike(b, Store(b, c))
<1>1. BoundaryRecord(b)
  BY BoundariesAre
<1>2. b.buffer \in Seq(Characters) /\ b.index + 1 \in Nat
  BY <1>1 DEF BoundaryRecord
<1>3. PICK s : s = IF Len(b.buffer) = b.index THEN Append(b.buffer, c)
                   ELSE [b.buffer EXCEPT ![b.index + 1] = c]
  OBVIOUS
<1>4. s \in Seq(Characters)
  <2>1. Append(b.buffer, c) \in Seq(Characters)
    BY <1>2
  <2>2. [b.buffer EXCEPT ![b.index + 1] = c] \in Seq(Characters)
    BY <1>2, ReplacedIn
  <2> QED
    BY <1>3, <2>1, <2>2
<1>5. PICK n : n = b.index + 1
  OBVIOUS
<1>6. Alike(b, [b EXCEPT !.buffer = s, !.index = n])
  BY <1>2, <1>4, <1>5, BufferAlike
<1>7. Store(b, c) = [b EXCEPT !.buffer = s, !.index = n]
  BY <1>1, <1>3, <1>5 DEF Store, BoundaryRecord
<1> QED
  BY <1>6, <1>7

\* The index goes back to 0.
LEMMA WrappedAlike ==
  ASSUME NEW b \in Boundaries, b.buffer # None
  PROVE  Alike(b, Wrapped(b))
<1>1. Alike(b, b) /\ Alike(b, [b EXCEPT !.index = 0])
  BY IndexAlike DEF Alike
<1> QED
  BY <1>1 DEF Wrapped

\* in() gives the oldest character for the new one.
LEMMA InBoundaryAlike ==
  ASSUME NEW b \in Boundaries, b.buffer # None, NEW c \in Characters
  PROVE  Alike(b, InBoundary(b, c))
<1>1. BoundaryRecord(b)
  BY BoundariesAre
<1>2. b.buffer \in Seq(Characters) /\ b.index + 1 \in Nat
  BY <1>1 DEF BoundaryRecord
<1>3. PICK s : s = [b.buffer EXCEPT ![b.index + 1] = c]
  OBVIOUS
<1>4. s \in Seq(Characters)
  BY <1>2, <1>3, ReplacedIn
<1>5. PICK n : n = b.index + 1
  OBVIOUS
<1>6. PICK e : e = [b EXCEPT !.buffer = s, !.index = n]
  OBVIOUS
<1>7. Alike(b, e)
  BY <1>2, <1>4, <1>5, <1>6, BufferAlike
<1>8. e = [b EXCEPT !.buffer[b.index + 1] = c, !.index = @ + 1]
  BY <1>1, <1>3, <1>5, <1>6 DEF BoundaryRecord
<1>9. PICK w : w = Wrapped(e)
  OBVIOUS
<1>10. Alike(b, w)
  BY <1>7, <1>9, WrappedAlike DEF Alike
<1>11. Alike(b, [w EXCEPT !.index = NoIndex])
  <2>1. NoIndex \in Nat
    BY DEF NoIndex
  <2> QED
    BY <1>10, <2>1, IndexAlike DEF Alike
<1>12. InBoundary(b, c) \in {w, [w EXCEPT !.index = NoIndex]}
  BY <1>8, <1>9 DEF InBoundary
<1> QED
  BY <1>10, <1>11, <1>12

\* The boundary is replaced by one that holds the same blocks.
KeptOk(q, b, t) ==
  /\ Is(t) /\ Frame(q, t) /\ t.c = q.c /\ t.handler = q.handler /\ t.pc = q.pc
  /\ t.post.boundary = b /\ t.post.length = q.post.length /\ t.post.file = q.post.file
  /\ t.allocated = Owned(t.c, t.post) /\ t.fault = q.fault

\* The blocks do not depend on what the buffer holds.
LEMMA BoundaryKept ==
  ASSUME NEW q, Is(q), q.c.post, q.post.boundary # None, q.post.boundary.buffer # None,
         q.allocated = Owned(q.c, q.post), NEW b, Alike(q.post.boundary, b)
  PROVE  KeptOk(q, b, [q EXCEPT !.post.boundary = b])
<1>1. PICK t : t = [q EXCEPT !.post.boundary = b]
  OBVIOUS
<1>2. b \in Boundaries /\ b.ref = q.post.boundary.ref /\ b.buffer # None
  BY DEF Alike
<1>3. BoundaryOk(q, b, t)
  BY <1>1, <1>2, BoundaryIs
<1>4. /\ Is(t) /\ Frame(q, t) /\ t.allocated = q.allocated /\ t.c = q.c
      /\ t.handler = q.handler /\ t.pc = q.pc /\ t.fault = q.fault
      /\ t.post.file = q.post.file /\ t.post.boundary = b /\ t.post.length = q.post.length
  BY <1>3 DEF BoundaryOk
<1>5. b # None
  BY <1>2, Nones
<1>6. t.allocated = Owned(t.c, t.post)
  BY <1>2, <1>4, <1>5 DEF Owned
<1> QED
  BY <1>1, <1>4, <1>6 DEF KeptOk

\* The buffer is filled.  It is compared beyond its end where the boundary comes at once,
\* which NoFault excludes.
LEMMA ReadInBufferStep ==
  ASSUME HeapInv, NoFault', ReadInBuffer
  PROVE  HeapInv'
<1>1. /\ p.pc = "loop" /\ p.x < p.end /\ UNCHANGED <<request, sent, conn>>
      /\ p.c.state = "init_buffer"
  BY DEF ReadInBuffer, More
<1>2. StateInv(p) /\ States(p.c, p.handler) /\ p.x \in Nat
  BY <1>1, LoopHolds
<1>3. PICK q : q = Next1
  OBVIOUS
<1>4. Next1Ok(q)
  BY <1>1, <1>3, Next1Is
<1>5. /\ Is(q) /\ StateInv(q) /\ RefInv(q) /\ q.allocated = Owned(q.c, q.post)
      /\ q.c = p.c /\ q.handler = p.handler /\ q.pc = "loop" /\ q.x = p.x + 1 /\ q.end = p.end
      /\ q.damaged = p.damaged
  BY <1>1, <1>4 DEF Next1Ok
<1>6. q.c.post /\ q.post.boundary # None /\ q.post.boundary.buffer # None /\ q.handler # None
  BY <1>1, <1>2, <1>5 DEF StateInv, States, PostStates
<1>7. PICK c : c = Text[p.x + 1]
  OBVIOUS
<1>8. c \in Characters
  BY <1>1, <1>7, NextCharacter
<1>9. PICK b : b = Store(q.post.boundary, c)
  OBVIOUS
<1>10. Alike(q.post.boundary, b)
  <2>1. q.post.boundary \in Boundaries
    BY <1>5, <1>6 DEF Is, IsPost
  <2> QED
    BY <1>6, <1>8, <1>9, <2>1, StoreAlike
<1>11. PICK t : t = [q EXCEPT !.post.boundary = b]
  OBVIOUS
<1>12. KeptOk(q, b, t)
  BY <1>5, <1>6, <1>10, <1>11, BoundaryKept
<1>13. /\ Is(t) /\ Frame(q, t) /\ t.c = q.c /\ t.handler = q.handler /\ t.pc = q.pc
       /\ t.post.boundary = b /\ t.post.length = q.post.length
       /\ t.allocated = Owned(t.c, t.post)
  BY <1>12 DEF KeptOk
<1>14. b.ref = q.post.boundary.ref /\ b.buffer # None
  BY <1>10 DEF Alike
<1>15. StateInv(t) /\ RefInv(t)
  <2>1. StateInv(t)
    <3>1. b # None
      BY <1>10, Nones DEF Alike
    <3> QED
      BY <1>5, <1>13, <1>14, <3>1 DEF StateInv
  <2>2. RefInv(t)
    BY <1>5, <1>6, <1>13, <1>14 DEF RefInv
  <2> QED
    BY <2>1, <2>2
<1>16. Going(p, t)
  BY <1>1, <1>2, <1>5, <1>13, <1>15, GoingExact DEF Frame
<1>17. PICK u : u = [t EXCEPT !.c.state = "post_data", !.pc = "data"]
  OBVIOUS
<1>18. Going(p, u)
  <2>1. /\ Is(u) /\ u.c.state = "post_data" /\ u.pc = "data" /\ u.c.args = t.c.args
        /\ u.c.post = t.c.post /\ u.post = t.post /\ u.allocated = t.allocated
        /\ u.handler = t.handler /\ u.c.handler = t.c.handler /\ u.x = t.x /\ u.end = t.end
        /\ u.damaged = t.damaged
    BY <1>13, <1>17 DEF Is, IsConnection
  <2>2. StateInv(u)
    BY <1>5, <1>6, <1>13, <2>1 DEF StateInv, States
  <2>3. RefInv(u)
    BY <1>5, <1>13, <1>15, <2>1 DEF RefInv
  <2>4. u.allocated = Owned(u.c, u.post)
    BY <1>13, <2>1 DEF Owned
  <2> QED
    BY <1>2, <1>5, <1>13, <2>1, <2>2, <2>3, <2>4, GoingExact DEF Frame
<1>19. p' \in {t, u}
  <2>1. p' = InitBuffer(q, c)
    BY <1>3, <1>7 DEF ReadInBuffer
  <2>2. InitBuffer(q, c) \in {t, u, Fault(t, "buffer")}
    <3>1. CASE b.index # b.size
      BY <1>9, <1>11, <3>1 DEF InitBuffer
    <3>2. CASE b.index = b.size /\ LastIs(b, b.size - 1)
      BY <1>9, <1>11, <3>2 DEF InitBuffer
    <3>3. CASE b.index = b.size /\ ~ LastIs(b, b.size - 1)
      BY <1>9, <1>11, <1>17, <3>3 DEF InitBuffer
    <3> QED
      BY <3>1, <3>2, <3>3
  <2>3. Fault(t, "buffer").fault # None
    <3>1. PICK f : f = Fault(t, "buffer")
      OBVIOUS
    <3>2. f = [t EXCEPT !.fault = "buffer", !.pc = "end"]
      BY <3>1 DEF Fault
    <3>3. "buffer" # None
      BY Nones DEF Faults
    <3> QED
      BY <1>13, <3>1, <3>2, <3>3 DEF Is
  <2> QED
    BY <2>1, <2>2, <2>3 DEF NoFault
<1> QED
  BY <1>1, <1>16, <1>18, <1>19, LoopKeeps

\* The boundary is looked for after doPostIn has returned.
LEMMA ReadToBoundaryStep ==
  ASSUME HeapInv, ReadToBoundary
  PROVE  HeapInv'
<1>1. /\ p.pc = "loop" /\ p.x < p.end /\ UNCHANGED <<request, sent, conn>>
      /\ p.c.state = "boundary"
  BY DEF ReadToBoundary, More
<1>2. StateInv(p) /\ States(p.c, p.handler) /\ p.x \in Nat
  BY <1>1, LoopHolds
<1>3. PICK q : q = Next1
  OBVIOUS
<1>4. Next1Ok(q)
  BY <1>1, <1>3, Next1Is
<1>5. /\ Is(q) /\ StateInv(q) /\ RefInv(q) /\ q.allocated = Owned(q.c, q.post)
      /\ q.c = p.c /\ q.handler = p.handler /\ q.pc = "loop" /\ q.x = p.x + 1 /\ q.end = p.end
      /\ q.damaged = p.damaged
  BY <1>1, <1>4 DEF Next1Ok
<1>6. q.c.post /\ q.post.boundary # None /\ q.post.boundary.buffer # None /\ q.handler # None
  BY <1>1, <1>2, <1>5 DEF StateInv, States, PostStates
<1>7. PICK c : c = Text[p.x + 1]
  OBVIOUS
<1>8. c \in Characters
  BY <1>1, <1>7, NextCharacter
<1>9. PICK b : b = Wrapped(q.post.boundary)
  OBVIOUS
<1>10. q.post.boundary \in Boundaries /\ Alike(q.post.boundary, b) /\ b \in Boundaries
  <2>1. q.post.boundary \in Boundaries
    BY <1>5, <1>6 DEF Is, IsPost
  <2>2. Alike(q.post.boundary, b)
    BY <1>6, <1>9, <2>1, WrappedAlike
  <2> QED
    BY <2>1, <2>2 DEF Alike
<1>11. ASSUME NEW e, Alike(b, e), NEW t, t = [q EXCEPT !.post.boundary = e]
       PROVE  KeptOk(q, e, t) /\ RefInv(t) /\ Going(p, t)
  <2>1. Alike(q.post.boundary, e)
    BY <1>10, <1>11 DEF Alike
  <2>2. KeptOk(q, e, t)
    BY <1>5, <1>6, <1>11, <2>1, BoundaryKept
  <2>3. /\ Is(t) /\ Frame(q, t) /\ t.c = q.c /\ t.handler = q.handler /\ t.pc = q.pc
        /\ t.post.boundary = e /\ t.post.length = q.post.length
        /\ t.allocated = Owned(t.c, t.post)
    BY <2>2 DEF KeptOk
  <2>4. e.ref = q.post.boundary.ref /\ e.buffer # None
    BY <2>1 DEF Alike
  <2>5. e # None
    BY <2>1, Nones DEF Alike
  <2>6. StateInv(t)
    BY <1>5, <2>3, <2>4, <2>5 DEF StateInv
  <2>7. RefInv(t)
    BY <1>5, <1>6, <2>3, <2>4 DEF RefInv
  <2>8. Going(p, t)
    BY <1>1, <1>2, <1>5, <2>3, <2>6, <2>7, GoingExact DEF Frame
  <2> QED
    BY <2>2, <2>7, <2>8
<1>12. PICK e : e = Store(b, c)
  OBVIOUS
<1>13. PICK t : t = [q EXCEPT !.post.boundary = e]
  OBVIOUS
<1>14. Going(p, t)
  <2>1. Alike(b, e)
    BY <1>8, <1>10, <1>12, StoreAlike DEF Alike
  <2> QED
    BY <1>11, <1>13, <2>1
<1>15. PICK f : f = [b EXCEPT !.index = NoIndex]
  OBVIOUS
<1>16. PICK v : v = [q EXCEPT !.post.boundary = f]
  OBVIOUS
<1>17. /\ Is(v) /\ Frame(q, v) /\ v.c = q.c /\ v.handler = q.handler /\ v.pc = q.pc
       /\ v.post.boundary = f /\ v.post.length = q.post.length
       /\ v.allocated = Owned(v.c, v.post) /\ RefInv(v)
  <2>1. NoIndex \in Nat
    BY DEF NoIndex
  <2>2. Alike(b, f)
    BY <1>10, <1>15, <2>1, IndexAlike DEF Alike
  <2>3. KeptOk(q, f, v) /\ RefInv(v)
    BY <1>11, <1>16, <2>2
  <2> QED
    BY <2>3 DEF KeptOk
<1>18. PICK u : u = [v EXCEPT !.c.state = "attributes", !.c.blob = At("content")]
  OBVIOUS
<1>19. Going(p, u)
  <2>1. PICK a : a = At("content")
    OBVIOUS
  <2>2. a = [tree |-> a.tree, at |-> a.at] /\ a.at \in Seq(Characters)
    BY <2>1, AtIs
  <2>3. u = [v EXCEPT !.c.state = "attributes", !.c.blob = a]
    BY <1>18, <2>1
  <2>4. /\ Is(u) /\ u.c.state = "attributes" /\ u.pc = v.pc /\ u.c.args = v.c.args
        /\ u.c.post = v.c.post /\ u.post = v.post /\ u.allocated = v.allocated
        /\ u.handler = v.handler /\ u.c.handler = v.c.handler /\ u.x = v.x /\ u.end = v.end
        /\ u.damaged = v.damaged
    BY <1>17, <2>2, <2>3 DEF Is, IsConnection
  <2>5. StateInv(u)
    BY <1>5, <1>6, <1>17, <2>4 DEF StateInv, States
  <2>6. RefInv(u)
    BY <1>1, <1>5, <1>17, <2>4 DEF RefInv
  <2>7. u.allocated = Owned(u.c, u.post)
    BY <1>17, <2>4 DEF Owned
  <2> QED
    BY <1>2, <1>5, <1>17, <2>4, <2>5, <2>6, <2>7, GoingExact DEF Frame
<1>20. p' \in {t, u}
  <2>1. PICK garbage \in BOOLEAN : p' = SearchBoundary(q, c, garbage)
    BY <1>3, <1>7 DEF ReadToBoundary
  <2>2. u = [q EXCEPT !.post.boundary = f, !.c.state = "attributes", !.c.blob = At("content")]
    BY <1>16, <1>18
  <2>3. SearchBoundary(q, c, garbage) \in {t, u}
    BY <1>9, <1>12, <1>13, <1>15, <2>2 DEF SearchBoundary
  <2> QED
    BY <2>1, <2>3
<1> QED
  BY <1>1, <1>14, <1>19, <1>20, LoopKeeps

\* doPostIn is called, or goes on.  It goes on with the stack of another where the
\* coroutine is no longer its own, which NoFault excludes.
LEMMA RunDoPostInStep ==
  ASSUME HeapInv, Orderly, NoFault', RunDoPostIn
  PROVE  HeapInv'
<1>1. p.pc = "data" /\ UNCHANGED <<request, sent, conn>>
  BY DEF RunDoPostIn
<1>2. /\ Is(p) /\ StateInv(p) /\ RefInv(p) /\ States(p.c, p.handler) /\ p.x \in Nat
      /\ p.allocated = Owned(p.c, p.post)
  BY <1>1, LoopHolds
<1>3. p.c.post = TRUE /\ p.c.state = "post_data" /\ p.handler # None
  BY <1>1, <1>2 DEF StateInv, States, PostStates, Is, IsConnection
<1>4. IsPost(p.post)
  BY <1>2, <1>3 DEF Is
<1>5. PICK b : b = p.post.boundary
  OBVIOUS
<1>6. b \in Boundaries \cup {None} /\ (b # None => b.buffer # None)
  BY <1>1, <1>4, <1>5 DEF IsPost, Orderly
\* The buffer is filled first.
<1>7. CASE p.post.co = "terminated" /\ b # None /\ b.index = NoIndex
  <2>1. PICK e : e = [b EXCEPT !.buffer = << >>, !.index = 0]
    OBVIOUS
  <2>2. Alike(b, e)
    BY <1>6, <1>7, <2>1, EmptyText, BufferAlike
  <2>3. PICK v : v = [p EXCEPT !.post.boundary = e]
    OBVIOUS
  <2>4. KeptOk(p, e, v)
    BY <1>2, <1>3, <1>5, <1>6, <1>7, <2>2, <2>3, BoundaryKept
  <2>5. /\ Is(v) /\ v.c = p.c /\ v.handler = p.handler /\ v.post.boundary = e
        /\ v.post.length = p.post.length /\ v.allocated = Owned(v.c, v.post)
        /\ v.x = p.x /\ v.end = p.end /\ v.damaged = p.damaged
    BY <2>4 DEF KeptOk, Frame
  <2>6. PICK t : t = [v EXCEPT !.c.state = "init_buffer", !.pc = "loop"]
    OBVIOUS
  <2>7. /\ Is(t) /\ t.c.state = "init_buffer" /\ t.pc = "loop" /\ t.c.args = p.c.args
        /\ t.c.post = TRUE /\ t.post = v.post /\ t.allocated = v.allocated
        /\ t.handler = p.handler /\ t.c.handler = p.c.handler /\ t.x = p.x /\ t.end = p.end
        /\ t.damaged = p.damaged
    BY <1>3, <2>5, <2>6 DEF Is, IsConnection
  <2>8. e.ref = b.ref /\ e.buffer # None /\ e # None
    BY <2>2, Nones DEF Alike
  <2>9. StateInv(t)
    BY <1>3, <2>5, <2>7, <2>8 DEF StateInv, States
  <2>10. RefInv(t)
    <3>1. /\ b.ref # << >> /\ (b.ref # Literal => b.ref[1] # CR)
          /\ b.ref = Literal => p.post.length = NoLength
      BY <1>2, <1>3, <1>5, <1>6, <1>7 DEF RefInv
    <3>2. t.post.boundary = e /\ t.post.length = p.post.length
      BY <2>5, <2>7
    <3> QED
      BY <1>3, <2>7, <2>8, <3>1, <3>2 DEF RefInv
  <2>11. t.allocated = Owned(t.c, t.post)
    <3>1. v.c.args = t.c.args /\ v.c.post = t.c.post
      BY <1>3, <2>5, <2>7
    <3>2. Owned(t.c, t.post) = Owned(v.c, v.post)
      BY <2>7, <3>1, Zenon DEF Owned
    <3> QED
      BY <2>5, <2>7, <3>2
  <2>12. Going(p, t)
    BY <1>2, <2>7, <2>9, <2>10, <2>11, GoingExact
  <2>13. t = [p EXCEPT !.post.boundary.index = 0, !.post.boundary.buffer = << >>,
                       !.c.state = "init_buffer", !.pc = "loop"]
    BY <1>2, <1>4, <1>5, <2>1, <2>3, <2>6 DEF Is, IsPost
  <2>14. p' = t
    BY <1>5, <1>7, <2>13 DEF RunDoPostIn, Fills
  <2> QED
    BY <1>1, <2>12, <2>14, LoopKeeps
\* doPostIn is called.
<1>8. CASE ~ Fills /\ (p.post.co = "terminated" \/ (p.post.co = "ready" /\ p.stack # "others"))
  <2>1. PICK e : e = IF b = None \/ p.post.co = "ready" THEN b ELSE [b EXCEPT !.index = 0]
    OBVIOUS
  <2>2. /\ e \in Boundaries \cup {None} /\ (e = None <=> b = None)
        /\ b # None => e.ref = b.ref /\ e.buffer # None
    <3>1. CASE b = None \/ p.post.co = "ready"
      BY <1>6, <2>1, <3>1
    <3>2. CASE b # None /\ p.post.co # "ready"
      <4>1. Alike(b, e)
        BY <1>6, <2>1, <3>2, IndexAlike
      <4> QED
        BY <3>2, <4>1, Nones DEF Alike
    <3> QED
      BY <3>1, <3>2
  <2>3. PICK d : d = [p.post EXCEPT !.co = "active", !.read = 0, !.boundary = e]
    OBVIOUS
  <2>4. IsPost(d) /\ d.boundary = e /\ d.file = p.post.file /\ d.length = p.post.length
    BY <1>4, <2>2, <2>3 DEF IsPost
  <2>5. PICK g : g = Append(p.got, [file |-> IF p.post.file = None THEN None ELSE p.post.file.name,
                                   data |-> << >>])
    OBVIOUS
  <2>6. PICK t : t = [p EXCEPT !.post = d, !.pc = "in", !.stack = "ours", !.got = g]
    OBVIOUS
  <2>7. /\ Is(t) /\ t.c = p.c /\ t.pc = "in" /\ t.post = d /\ t.allocated = p.allocated
        /\ t.handler = p.handler /\ t.x = p.x /\ t.end = p.end /\ t.damaged = p.damaged
    BY <1>2, <2>4, <2>6 DEF Is
  <2>8. StateInv(t)
    BY <1>2, <1>3, <2>2, <2>4, <2>7 DEF StateInv
  <2>9. RefInv(t)
    BY <1>2, <1>3, <1>5, <1>6, <2>2, <2>4, <2>7 DEF RefInv
  <2>10. t.allocated = Owned(t.c, t.post)
    BY <1>2, <1>5, <1>6, <2>2, <2>4, <2>7 DEF Owned
  <2>11. Going(p, t)
    BY <1>2, <1>3, <2>7, <2>8, <2>9, <2>10, GoingExact
  <2>12. t = [p EXCEPT !.post.co = "active", !.post.read = 0, !.pc = "in", !.stack = "ours",
                       !.post.boundary = e, !.got = g]
    BY <1>2, <2>3, <2>6 DEF Is
  <2>13. p' = t
    BY <1>5, <1>8, <2>1, <2>5, <2>12 DEF RunDoPostIn
  <2> QED
    BY <1>1, <2>11, <2>13, LoopKeeps
\* A coroutine that was interrupted goes on.
<1>9. CASE ~ (p.post.co = "terminated" \/ (p.post.co = "ready" /\ p.stack # "others"))
  <2>1. PICK t : t = [p EXCEPT !.pc = "in"]
    OBVIOUS
  <2>2. /\ Is(t) /\ t.c = p.c /\ t.pc = "in" /\ t.post = p.post /\ t.allocated = p.allocated
        /\ t.handler = p.handler /\ t.x = p.x /\ t.end = p.end /\ t.damaged = p.damaged
    BY <1>2, <2>1 DEF Is
  <2>3. StateInv(t)
    BY <1>2, <1>3, <1>5, <1>6, <2>2 DEF StateInv
  <2>4. RefInv(t)
    BY <1>2, <1>3, <2>2 DEF RefInv
  <2>5. Going(p, t)
    BY <1>2, <1>3, <2>2, <2>3, <2>4, GoingExact
  <2>6. p' \in {t, Fault(p, "stack")}
    BY <1>9, <2>1 DEF RunDoPostIn, Fills
  <2>7. Fault(p, "stack").fault # None
    <3>1. PICK f : f = Fault(p, "stack")
      OBVIOUS
    <3>2. f = [p EXCEPT !.fault = "stack", !.pc = "end"]
      BY <3>1 DEF Fault
    <3>3. "stack" # None
      BY Nones DEF Faults
    <3> QED
      BY <1>2, <3>1, <3>2, <3>3 DEF Is
  <2>8. p' = t
    BY <2>6, <2>7 DEF NoFault
  <2> QED
    BY <1>1, <2>5, <2>8, LoopKeeps
<1> QED
  BY <1>5, <1>7, <1>8, <1>9 DEF Fills

\* cr_prepare has no room: the connection is the one that was stored, and Orderly
\* says that the blocks are still its own.
LEMMA UnpreparedStep ==
  ASSUME HeapInv, Orderly, Unprepared
  PROVE  HeapInv'
<1>1. p.pc = "data" /\ CannotPrepare /\ UNCHANGED <<request, sent, conn>>
  BY DEF Unprepared, CannotPrepare
<1>2. /\ Is(p) /\ StateInv(p) /\ RefInv(p) /\ States(p.c, p.handler) /\ p.x \in Nat
      /\ p.allocated = Owned(p.c, p.post)
  BY <1>1, LoopHolds
<1>3. p.c.post = TRUE /\ IsPost(p.post)
  BY <1>1, <1>2 DEF StateInv, States, PostStates, Is, IsConnection
<1>4. /\ conn.post = TRUE /\ conn.args = p.c.args /\ conn.state \in Header
      /\ p.post.boundary # None => p.post.boundary.ref # Literal
  <2>1. IsConnection(conn)
    BY DEF HeapInv, ConnInv
  <2> QED
    BY <1>1, <2>1 DEF Orderly, IsConnection
<1>5. IsConnection(conn) /\ States(conn, conn.handler)
  BY DEF HeapInv, ConnInv
<1>6. PICK b : b = p.post.boundary
  OBVIOUS
<1>7. PICK e : e = IF b = None THEN b ELSE [b EXCEPT !.index = 0]
  OBVIOUS
<1>8. /\ e \in Boundaries \cup {None} /\ (e = None <=> b = None)
      /\ b # None => e.ref = b.ref /\ e.buffer = b.buffer
  <2>1. CASE b = None
    BY <1>7, <2>1
  <2>2. CASE b # None
    <3>1. b \in Boundaries /\ b.buffer # None
      BY <1>1, <1>3, <1>6, <2>2 DEF IsPost, Orderly
    <3>2. BoundaryRecord(b)
      BY <3>1, BoundariesAre
    <3>3. e = [b EXCEPT !.index = 0]
      BY <1>7, <2>2
    <3>4. BoundaryRecord(e) /\ e.ref = b.ref /\ e.buffer = b.buffer
      BY <3>2, <3>3 DEF BoundaryRecord
    <3>5. e \in Boundaries
      BY <3>4, BoundariesAre
    <3> QED
      BY <2>2, <3>4, <3>5, Nones
  <2> QED
    BY <2>1, <2>2
<1>9. PICK d : d = [p.post EXCEPT !.co = "ready", !.boundary = e]
  OBVIOUS
<1>10. IsPost(d) /\ d.boundary = e /\ d.file = p.post.file /\ d.length = p.post.length
  BY <1>3, <1>8, <1>9 DEF IsPost
<1>11. PICK v : v = [p EXCEPT !.post = d, !.pc = "idle"]
  OBVIOUS
<1>12. v = [p EXCEPT !.post.co = "ready", !.pc = "idle",
                     !.post.boundary = IF @ = None THEN @ ELSE [@ EXCEPT !.index = 0]]
  BY <1>2, <1>3, <1>6, <1>7, <1>9, <1>11 DEF Is, IsPost
<1>13. p' = v
  BY <1>12 DEF Unprepared
<1>14. /\ Is(v) /\ v.pc = "idle" /\ v.post = d /\ v.allocated = p.allocated
       /\ v.damaged = p.damaged
  BY <1>2, <1>10, <1>11 DEF Is
<1>15. PICK t : t = [v EXCEPT !.c = conn, !.handler = conn.handler, !.pc = "loop"]
  OBVIOUS
<1>16. t = Resumed'
  BY <1>1, <1>13, <1>15 DEF Resumed
<1>17. /\ Is(t) /\ t.c = conn /\ t.handler = conn.handler /\ t.pc = "loop" /\ t.post = d
       /\ t.allocated = p.allocated
  BY <1>5, <1>10, <1>14, <1>15 DEF Is
<1>18. StateInv(t)
  BY <1>4, <1>5, <1>17 DEF StateInv, Header
<1>19. RefInv(t)
  <2>1. b # None => /\ b.ref # << >> /\ b.ref # Literal => b.ref[1] # CR
                    /\ b.ref = << >> => b.buffer = None
                    /\ b.ref # Literal
    BY <1>2, <1>3, <1>4, <1>6 DEF RefInv
  <2> QED
    BY <1>8, <1>10, <1>17, <2>1 DEF RefInv
<1>20. t.allocated = Owned(t.c, t.post)
  BY <1>2, <1>3, <1>4, <1>6, <1>8, <1>10, <1>17 DEF Owned
<1>21. WhereInv'
  BY <1>1, <1>13, <1>14 DEF HeapInv, WhereInv
<1>22. ConnInv'
  BY <1>1, <1>13, <1>14 DEF HeapInv, ConnInv
<1>23. Good(Resumed')
  BY <1>16, <1>17, <1>18, <1>19, <1>20 DEF Good
<1> QED
  BY <1>13, <1>14, <1>21, <1>22, <1>23 DEF HeapInv

\* in() gives a character.
LEMMA InStep ==
  ASSUME HeapInv, in
  PROVE  HeapInv'
<1>1. p.pc = "in" /\ p.x < p.end /\ UNCHANGED <<request, sent, conn>>
  BY DEF in
<1>2. /\ Is(p) /\ StateInv(p) /\ RefInv(p) /\ States(p.c, p.handler) /\ p.x \in Nat
      /\ p.allocated = Owned(p.c, p.post)
  BY <1>1, LoopHolds
<1>3. p.c.post = TRUE /\ p.c.state = "post_data" /\ p.handler # None
  BY <1>1, <1>2 DEF StateInv, States, PostStates, Is, IsConnection
<1>4. IsPost(p.post)
  BY <1>2, <1>3 DEF Is
<1>5. PICK b : b = p.post.boundary
  OBVIOUS
<1>6. b \in Boundaries \cup {None} /\ (b # None => b.buffer # None)
  BY <1>1, <1>2, <1>4, <1>5 DEF IsPost, StateInv
<1>7. PICK c : c = Text[p.x + 1]
  OBVIOUS
<1>8. c \in Characters
  BY <1>1, <1>7, NextCharacter
<1>9. PICK e : e = IF b = None THEN b ELSE InBoundary(b, c)
  OBVIOUS
<1>10. /\ e \in Boundaries \cup {None} /\ (e = None <=> b = None)
       /\ b # None => e.ref = b.ref /\ e.buffer # None
  <2>1. CASE b = None
    BY <1>9, <2>1
  <2>2. CASE b # None
    <3>1. Alike(b, e)
      BY <1>6, <1>8, <1>9, <2>2, InBoundaryAlike
    <3> QED
      BY <2>2, <3>1, Nones DEF Alike
  <2> QED
    BY <2>1, <2>2
<1>11. PICK n : n = Counted(p.post.length)
  OBVIOUS
<1>12. p.post.length = NoLength => n = NoLength
  BY <1>11 DEF Counted
<1>13. PICK d : d = [p.post EXCEPT !.length = n, !.read = @ + 1, !.boundary = e]
  OBVIOUS
<1>14. IsPost(d) /\ d.boundary = e /\ d.file = p.post.file /\ d.length = n
  BY <1>4, <1>10, <1>13 DEF IsPost
<1>15. PICK g : g = [p.got EXCEPT ![Len(p.got)].data = Append(@, IF b = None THEN c ELSE b.buffer[b.index + 1])]
  OBVIOUS
<1>16. PICK t : t = [p EXCEPT !.x = p.x + 1, !.post = d, !.got = g]
  OBVIOUS
<1>17. /\ Is(t) /\ t.c = p.c /\ t.pc = "in" /\ t.post = d /\ t.allocated = p.allocated
       /\ t.handler = p.handler /\ t.x = p.x + 1 /\ t.end = p.end /\ t.damaged = p.damaged
  BY <1>1, <1>2, <1>14, <1>16 DEF Is
<1>18. StateInv(t)
  BY <1>2, <1>3, <1>10, <1>14, <1>17 DEF StateInv
<1>19. RefInv(t)
  BY <1>2, <1>3, <1>5, <1>6, <1>10, <1>12, <1>14, <1>17 DEF RefInv
<1>20. t.allocated = Owned(t.c, t.post)
  BY <1>2, <1>5, <1>6, <1>10, <1>14, <1>17 DEF Owned
<1>21. Going(p, t)
  BY <1>2, <1>3, <1>17, <1>18, <1>19, <1>20, GoingExact
<1>22. t = [p EXCEPT !.x = @ + 1, !.post.length = Counted(@), !.post.read = @ + 1,
                     !.post.boundary = e,
                     !.got[Len(p.got)].data = Append(@, IF b = None THEN c ELSE b.buffer[b.index + 1])]
  BY <1>2, <1>4, <1>11, <1>13, <1>15, <1>16 DEF Is, IsPost
<1>23. p' = t
  BY <1>5, <1>7, <1>9, <1>22 DEF in
<1> QED
  BY <1>1, <1>21, <1>23, LoopKeeps

\* The name of the file is given back.
FreedOk(q, t) ==
  /\ Is(t) /\ Frame(q, t) /\ t.c = q.c /\ t.handler = q.handler /\ t.pc = q.pc /\ t.fault = q.fault
  /\ t.post.file = None /\ t.post.boundary = q.post.boundary /\ t.post.length = q.post.length
  /\ q.allocated = Owned(q.c, q.post) => t.allocated = Owned(t.c, t.post)

\* The block of the name of the file is given back if it is there.
LEMMA FileFreedIs ==
  ASSUME NEW q, Is(q), q.c.post = TRUE
  PROVE  FreedOk(q, FileFreed(q))
<1>1. CASE q.post.file = None
  BY <1>1 DEF FreedOk, FileFreed, Frame
<1>2. CASE q.post.file # None
  <2>1. IsPost(q.post)
    BY DEF Is
  <2>2. PICK d : d = [q.post EXCEPT !.file = None]
    OBVIOUS
  <2>3. IsPost(d) /\ d.file = None /\ d.boundary = q.post.boundary /\ d.length = q.post.length
    BY <2>1, <2>2 DEF IsPost
  <2>4. PICK v : v = [q EXCEPT !.post = d]
    OBVIOUS
  <2>5. /\ Is(v) /\ Frame(q, v) /\ v.allocated = q.allocated /\ v.post = d /\ v.c = q.c
        /\ v.handler = q.handler /\ v.pc = q.pc /\ v.fault = q.fault
    BY <2>3, <2>4 DEF Is, Frame
  <2>6. PICK t : t = Gave(v, "filename")
    OBVIOUS
  <2>7. GaveOk(v, "filename", t)
    BY <2>5, <2>6, GaveIs
  <2>8. /\ Is(t) /\ Frame(v, t) /\ t.allocated = [v.allocated EXCEPT !["filename"] = @ - 1]
        /\ t.post = v.post /\ t.c = v.c /\ t.handler = v.handler /\ t.pc = v.pc
        /\ t.fault = v.fault
    BY <2>7 DEF GaveOk
  <2>9. \A k \in Kinds : Owned(t.c, t.post)[k] =
          Owned(q.c, q.post)[k] + (IF k = "filename" THEN -1 ELSE 0)
    BY <1>2, <2>3, <2>5, <2>8, OwnedKinds DEF Kinds, One
  <2>10. q.allocated = Owned(q.c, q.post) => t.allocated = Owned(t.c, t.post)
    BY <2>5, <2>8, <2>9, OwnedChange DEF Kinds
  <2>11. FreedOk(q, t)
    BY <2>3, <2>5, <2>8, <2>10 DEF FreedOk, Frame
  <2>12. FileFreed(q) = t
    <3>1. v = [q EXCEPT !.post.file = None]
      BY <2>2, <2>4
    <3> QED
      BY <1>2, <2>6, <3>1 DEF FileFreed
  <2> QED
    BY <2>11, <2>12
<1> QED
  BY <1>1, <1>2

\* doPostIn returns: the name of the file is given back.
LEMMA DoPostInReturnsStep ==
  ASSUME HeapInv, DoPostInReturns
  PROVE  HeapInv'
<1>1. p.pc = "in" /\ UNCHANGED <<request, sent, conn>>
  BY DEF DoPostInReturns
<1>2. /\ Is(p) /\ StateInv(p) /\ RefInv(p) /\ States(p.c, p.handler) /\ p.x \in Nat
      /\ p.allocated = Owned(p.c, p.post)
  BY <1>1, LoopHolds
<1>3. p.c.post = TRUE /\ p.c.state = "post_data" /\ p.handler # None
  BY <1>1, <1>2 DEF StateInv, States, PostStates, Is, IsConnection
<1>4. PICK f : f = FileFreed(p)
  OBVIOUS
<1>5. FreedOk(p, f)
  BY <1>2, <1>3, <1>4, FileFreedIs
<1>6. /\ Is(f) /\ f.c = p.c /\ f.handler = p.handler /\ f.pc = "in"
      /\ f.post.file = None /\ f.post.boundary = p.post.boundary /\ f.post.length = p.post.length
      /\ f.allocated = Owned(f.c, f.post) /\ f.x = p.x /\ f.end = p.end /\ f.damaged = p.damaged
  BY <1>1, <1>2, <1>5 DEF FreedOk, Frame
<1>7. IsPost(f.post)
  BY <1>3, <1>6 DEF Is
<1>8. PICK d : d = [f.post EXCEPT !.co = "terminated"]
  OBVIOUS
<1>9. /\ IsPost(d) /\ d.file = None /\ d.boundary = p.post.boundary /\ d.length = p.post.length
  BY <1>6, <1>7, <1>8 DEF IsPost
<1>10. PICK q : q = [f EXCEPT !.post = d, !.stack = "free"]
  OBVIOUS
<1>11. /\ Is(q) /\ q.c = p.c /\ q.handler = p.handler /\ q.pc = "in" /\ q.post = d
       /\ q.allocated = f.allocated /\ q.x = p.x /\ q.end = p.end /\ q.damaged = p.damaged
  BY <1>3, <1>6, <1>9, <1>10 DEF Is
<1>12. q.allocated = Owned(q.c, q.post)
  BY <1>6, <1>9, <1>11 DEF Owned
<1>13. q = [FileFreed(p) EXCEPT !.post.co = "terminated", !.stack = "free"]
  BY <1>4, <1>8, <1>10
<1>14. PICK b : b = p.post.boundary
  OBVIOUS
<1>15. /\ b # None => b \in Boundaries /\ b.buffer # None /\ b.ref # << >>
       /\ b # None /\ b.ref # Literal => b.ref[1] # CR
       /\ b # None /\ b.ref = Literal => p.post.length = NoLength
  <2>1. b # None => b \in Boundaries /\ b.buffer # None
    BY <1>1, <1>2, <1>9, <1>14 DEF IsPost, StateInv
  <2> QED
    BY <1>2, <1>3, <1>14, <2>1 DEF RefInv
<1>16. CASE b = None \/ p.post.length = NoLength
  <2>1. PICK t : t = [q EXCEPT !.c.state = "end", !.c.ready = TRUE, !.pc = "end"]
    OBVIOUS
  <2>2. /\ Is(t) /\ t.c.state = "end" /\ t.pc = "end" /\ t.c.args = q.c.args /\ t.c.post = q.c.post
        /\ t.post = d /\ t.allocated = q.allocated /\ t.handler = p.handler
        /\ t.c.handler = p.c.handler /\ t.x = p.x /\ t.end = p.end /\ t.damaged = p.damaged
    BY <1>11, <2>1 DEF Is, IsConnection
  <2>3. StateInv(t)
    BY <2>2 DEF StateInv, States, PostStates
  <2>4. RefInv(t)
    BY <1>3, <1>9, <1>14, <1>15, <2>2 DEF RefInv
  <2>5. t.allocated = Owned(t.c, t.post)
    BY <1>11, <1>12, <2>2 DEF Owned
  <2>6. Going(p, t)
    BY <1>2, <2>2, <2>3, <2>4, <2>5, GoingExact
  <2>7. p' = t
    BY <1>13, <1>14, <1>16, <2>1 DEF DoPostInReturns
  <2> QED
    BY <1>1, <2>6, <2>7, LoopKeeps
<1>17. CASE b # None /\ p.post.length # NoLength
  <2>1. PICK e : e = [b EXCEPT !.part = @ + 1]
    OBVIOUS
  <2>2. Alike(b, e)
    <3>1. BoundaryRecord(b)
      <4>1. b \in Boundaries
        BY <1>15, <1>17
      <4> QED
        BY <4>1, BoundariesAre
    <3>2. BoundaryRecord(e) /\ e.ref = b.ref /\ e.buffer = b.buffer
      <4>1. PICK n : n = b.part + 1
        OBVIOUS
      <4>2. n \in Nat
        BY <3>1, <4>1 DEF BoundaryRecord
      <4>3. e = [b EXCEPT !.part = n]
        BY <2>1, <4>1
      <4> QED
        BY <3>1, <4>2, <4>3 DEF BoundaryRecord
    <3> QED
      BY <1>15, <1>17, <3>2, BoundariesAre DEF Alike
  <2>3. PICK v : v = [q EXCEPT !.post.boundary = e]
    OBVIOUS
  <2>4. KeptOk(q, e, v)
    BY <1>3, <1>9, <1>11, <1>12, <1>14, <1>15, <1>17, <2>2, <2>3, BoundaryKept
  <2>5. /\ Is(v) /\ v.c = p.c /\ v.handler = p.handler /\ v.post.boundary = e
        /\ v.post.length = p.post.length /\ v.allocated = Owned(v.c, v.post)
        /\ v.x = p.x /\ v.end = p.end /\ v.damaged = p.damaged
    BY <1>9, <1>11, <2>4 DEF KeptOk, Frame
  <2>6. e.ref = b.ref /\ e.buffer # None /\ e # None
    BY <2>2, Nones DEF Alike
  <2>7. b.ref # Literal
    BY <1>15, <1>17
  <2>8. PICK a : a = At("content")
    OBVIOUS
  <2>9. a = [tree |-> a.tree, at |-> a.at] /\ a.at \in Seq(Characters)
    BY <2>8, AtIs
  <2>10. PICK t : t = [v EXCEPT !.c.state = "boundary", !.pc = "loop"]
    OBVIOUS
  <2>11. /\ Is(t) /\ t.c.state = "boundary" /\ t.pc = "loop" /\ t.c.args = v.c.args
         /\ t.c.post = v.c.post /\ t.post = v.post /\ t.allocated = v.allocated
         /\ t.handler = p.handler /\ t.c.handler = p.c.handler /\ t.x = p.x /\ t.end = p.end
         /\ t.damaged = p.damaged
    BY <2>5, <2>10 DEF Is, IsConnection
  <2>12. PICK u : u = [v EXCEPT !.c.state = "attributes", !.c.blob = a, !.pc = "loop"]
    OBVIOUS
  <2>13. /\ Is(u) /\ u.c.state = "attributes" /\ u.pc = "loop" /\ u.c.args = v.c.args
         /\ u.c.post = v.c.post /\ u.post = v.post /\ u.allocated = v.allocated
         /\ u.handler = p.handler /\ u.c.handler = p.c.handler /\ u.x = p.x /\ u.end = p.end
         /\ u.damaged = p.damaged
    BY <2>5, <2>9, <2>12 DEF Is, IsConnection
  <2>14. Going(p, t)
    <3>1. StateInv(t)
      BY <1>3, <2>5, <2>6, <2>11 DEF StateInv, States
    <3>2. RefInv(t)
      BY <1>15, <1>17, <2>5, <2>6, <2>7, <2>11 DEF RefInv
    <3>3. t.allocated = Owned(t.c, t.post)
      BY <2>5, <2>11 DEF Owned
    <3> QED
      BY <1>2, <2>11, <3>1, <3>2, <3>3, GoingExact
  <2>15. Going(p, u)
    <3>1. StateInv(u)
      BY <1>3, <2>5, <2>6, <2>13 DEF StateInv, States
    <3>2. RefInv(u)
      BY <1>15, <1>17, <2>5, <2>6, <2>7, <2>13 DEF RefInv
    <3>3. u.allocated = Owned(u.c, u.post)
      BY <2>5, <2>13 DEF Owned
    <3> QED
      BY <1>2, <2>13, <3>1, <3>2, <3>3, GoingExact
  <2>16. /\ t = [q EXCEPT !.c.state = "boundary", !.post.boundary.part = @ + 1, !.pc = "loop"]
         /\ u = [q EXCEPT !.c.state = "attributes", !.c.blob = At("content"),
                          !.post.boundary.part = @ + 1, !.pc = "loop"]
    <3>1. t = [q EXCEPT !.c.state = "boundary", !.post.boundary = e, !.pc = "loop"]
      BY <1>11, <2>3, <2>10 DEF Is
    <3>2. u = [q EXCEPT !.c.state = "attributes", !.c.blob = a, !.post.boundary = e, !.pc = "loop"]
      BY <1>11, <2>3, <2>12 DEF Is
    <3>3. e = [q.post.boundary EXCEPT !.part = @ + 1]
      BY <1>9, <1>11, <1>14, <2>1
    <3>4. t = [q EXCEPT !.c.state = "boundary", !.post.boundary.part = @ + 1, !.pc = "loop"]
      BY <3>1, <3>3
    <3>5. u = [q EXCEPT !.c.state = "attributes", !.c.blob = At("content"),
                        !.post.boundary.part = @ + 1, !.pc = "loop"]
      BY <2>8, <3>2, <3>3
    <3> QED
      BY <3>4, <3>5
  <2>17. p' \in {t, u}
    <3>1. CASE b.index # NoIndex
      BY <1>13, <1>14, <1>17, <2>16, <3>1 DEF DoPostInReturns
    <3>2. CASE b.index = NoIndex
      BY <1>13, <1>14, <1>17, <2>16, <3>2 DEF DoPostInReturns
    <3> QED
      BY <3>1, <3>2
  <2> QED
    BY <1>1, <2>14, <2>15, <2>17, LoopKeeps
<1> QED
  BY <1>16, <1>17

----------------------------------------------------------------------------
\* After the loop.

\* Blocks are given back, and nothing else is changed but what points to them.
CleanOk(q, t) ==
  /\ Is(t) /\ t.c.state = q.c.state /\ t.c.handler = q.c.handler /\ t.handler = q.handler
  /\ t.end = q.end /\ t.damaged = q.damaged
  /\ t.allocated = Owned(t.c, t.post)
  /\ t.c.post => q.c.post /\ t.post.boundary = None /\ t.post.file = None
  /\ t.c.args => q.c.args

\* A boundary that is half made.
Broken(q) ==
  q.c.post /\ q.post.boundary # None
  /\ (~ q.post.boundary.live \/ q.post.boundary.buffer = None)

\* The cleaning finds what it does not expect.
Faulty(t) == Is(t) /\ t.fault # None

\* What the cleaning does not expect is a fault.
LEMMA FaultIs ==
  ASSUME NEW q, Is(q), NEW what \in Faults
  PROVE  Faulty(Fault(q, what))
<1>1. PICK t : t = [q EXCEPT !.fault = what, !.pc = "end"]
  OBVIOUS
<1>2. what # None
  BY Nones
<1>3. Faulty(t)
  BY <1>1, <1>2 DEF Faulty, Is
<1> QED
  BY <1>1, <1>3 DEF Fault

\* What the boundary must be for its cleaning.
RefOk(q) ==
  q.c.post /\ q.post.boundary # None =>
    /\ q.post.boundary.ref = << >> => q.post.boundary.buffer = None
    /\ q.post.boundary.ref = Literal <=> q.post.length = NoLength

\* A whole boundary and the two blocks it points to are given back; a boundary half made
\* is a fault.
LEMMA BoundaryFreedIs ==
  ASSUME NEW q, Is(q), q.c.post = TRUE, q.post.file = None, RefOk(q),
         q.allocated = Owned(q.c, q.post) \/ Broken(q)
  PROVE  Faulty(BoundaryFreed(q)) \/ CleanOk(q, BoundaryFreed(q))
<1>1. PICK b : b = q.post.boundary
  OBVIOUS
<1>2. IsPost(q.post)
  BY DEF Is
<1>3. CASE b = None
  <2>1. BoundaryFreed(q) = q
    BY <1>1, <1>3 DEF BoundaryFreed
  <2>2. q.allocated = Owned(q.c, q.post)
    BY <1>1, <1>3 DEF Broken
  <2>3. CleanOk(q, q)
    BY <1>1, <1>3, <2>2 DEF CleanOk
  <2> QED
    BY <2>1, <2>3
<1>4. CASE b # None /\ ~ b.live
  <2>1. BoundaryFreed(q) = Fault(q, "freed twice")
    BY <1>1, <1>4 DEF BoundaryFreed
  <2>2. "freed twice" \in Faults
    BY DEF Faults
  <2> QED
    BY <2>1, <2>2, FaultIs
<1>5. CASE b # None /\ b.live /\ b.buffer = None
  <2>1. BoundaryFreed(q) = Fault(q, "uninitialised pointer")
    BY <1>1, <1>5 DEF BoundaryFreed
  <2>2. "uninitialised pointer" \in Faults
    BY DEF Faults
  <2> QED
    BY <2>1, <2>2, FaultIs
<1>6. CASE b # None /\ b.live /\ b.buffer # None
  <2>1. q.allocated = Owned(q.c, q.post)
    BY <1>1, <1>6 DEF Broken
  <2>2. b.ref # << >> /\ (b.ref = Literal <=> q.post.length = NoLength)
    BY <1>1, <1>6 DEF RefOk
  <2>3. PICK g : g = IF q.post.length = NoLength \/ b.ref = << >> THEN q ELSE Gave(q, "boundary_ref")
    OBVIOUS
  <2>4. /\ Is(g) /\ g.c = q.c /\ g.handler = q.handler /\ g.end = q.end
        /\ g.damaged = q.damaged /\ g.post = q.post
        /\ g.allocated = IF b.ref = Literal THEN q.allocated
                         ELSE [q.allocated EXCEPT !["boundary_ref"] = @ - 1]
    <3>1. CASE b.ref = Literal
      BY <2>2, <2>3, <3>1
    <3>2. CASE b.ref # Literal
      <4>1. g = Gave(q, "boundary_ref")
        BY <2>2, <2>3, <3>2
      <4>2. GaveOk(q, "boundary_ref", g)
        BY <4>1, GaveIs
      <4> QED
        BY <3>2, <4>2 DEF GaveOk, Frame
    <3> QED
      BY <3>1, <3>2
  <2>5. PICK d : d = [q.post EXCEPT !.boundary = None]
    OBVIOUS
  <2>6. IsPost(d) /\ d.file = q.post.file /\ d.boundary = None
    BY <1>2, <2>5 DEF IsPost
  <2>7. PICK v : v = [g EXCEPT !.post = d]
    OBVIOUS
  <2>8. /\ Is(v) /\ v.c = q.c /\ v.handler = q.handler /\ v.end = q.end
        /\ v.damaged = q.damaged /\ v.post = d /\ v.allocated = g.allocated
    BY <2>4, <2>6, <2>7 DEF Is
  <2>9. PICK w : w = Gave(v, "boundary_buffer")
    OBVIOUS
  <2>10. GaveOk(v, "boundary_buffer", w)
    BY <2>8, <2>9, GaveIs
  <2>11. /\ Is(w) /\ w.c = q.c /\ w.handler = q.handler /\ w.end = q.end /\ w.damaged = q.damaged
         /\ w.post = d /\ w.allocated = [g.allocated EXCEPT !["boundary_buffer"] = @ - 1]
    BY <2>8, <2>10 DEF GaveOk, Frame
  <2>12. PICK t : t = Gave(w, "boundary")
    OBVIOUS
  <2>13. GaveOk(w, "boundary", t)
    BY <2>11, <2>12, GaveIs
  <2>14. /\ Is(t) /\ t.c = q.c /\ t.handler = q.handler /\ t.end = q.end /\ t.damaged = q.damaged
         /\ t.post = d /\ t.allocated = [w.allocated EXCEPT !["boundary"] = @ - 1]
    BY <2>11, <2>13 DEF GaveOk, Frame
  <2>15. t.allocated = Owned(q.c, d)
    <3>1. PICK a : a = Owned(q.c, q.post)
      OBVIOUS
    <3>2. PICK z : z = Owned(q.c, d)
      OBVIOUS
    <3>3. /\ a = [k \in Kinds |-> a[k]] /\ z = [k \in Kinds |-> z[k]]
          /\ \A k \in Kinds : a[k] \in Int /\ z[k] \in Int
      BY <3>1, <3>2 DEF Owned, Counts, Kinds, One
    <3>4. /\ z["args"] = a["args"] /\ z["post_data"] = a["post_data"]
          /\ z["filename"] = a["filename"]
          /\ z["boundary"] = a["boundary"] - 1 /\ z["boundary_buffer"] = a["boundary_buffer"] - 1
          /\ z["boundary_ref"] = IF b.ref = Literal THEN a["boundary_ref"]
                                 ELSE a["boundary_ref"] - 1
      BY <1>1, <1>6, <2>6, <3>1, <3>2, OwnedKinds DEF One
    <3>5. CASE b.ref = Literal
      <4>1. t.allocated = [[a EXCEPT !["boundary_buffer"] = @ - 1] EXCEPT !["boundary"] = @ - 1]
        BY <2>1, <2>4, <2>11, <2>14, <3>1, <3>5
      <4> QED
        BY <3>2, <3>3, <3>4, <3>5, <4>1 DEF Kinds
    <3>6. CASE b.ref # Literal
      <4>1. t.allocated = [[[a EXCEPT !["boundary_ref"] = @ - 1] EXCEPT !["boundary_buffer"] = @ - 1]
                             EXCEPT !["boundary"] = @ - 1]
        BY <2>1, <2>4, <2>11, <2>14, <3>1, <3>6
      <4> QED
        BY <3>2, <3>3, <3>4, <3>6, <4>1 DEF Kinds
    <3> QED
      BY <3>5, <3>6
  <2>16. CleanOk(q, t)
    BY <2>6, <2>14, <2>15 DEF CleanOk
  <2>17. BoundaryFreed(q) = t
    <3>1. v = [g EXCEPT !.post.boundary = None]
      BY <2>4, <2>5, <2>7
    <3> QED
      BY <1>1, <1>6, <2>3, <2>9, <2>12, <3>1 DEF BoundaryFreed
  <2> QED
    BY <2>16, <2>17
<1> QED
  BY <1>3, <1>4, <1>5, <1>6

\* The name of the file and the boundary are given back.
LEMMA PostCleanedIs ==
  ASSUME NEW q, Is(q), RefOk(q), q.allocated = Owned(q.c, q.post) \/ Broken(q)
  PROVE  Faulty(PostCleaned(q)) \/ CleanOk(q, PostCleaned(q))
<1>1. CASE ~ q.c.post
  <2>1. PostCleaned(q) = q
    BY <1>1 DEF PostCleaned
  <2>2. q.allocated = Owned(q.c, q.post)
    BY <1>1 DEF Broken
  <2>3. CleanOk(q, q)
    BY <1>1, <2>2 DEF CleanOk
  <2> QED
    BY <2>1, <2>3
<1>2. CASE q.c.post /\ q.post.file # None /\ ~ q.post.file.closed
  <2>1. PostCleaned(q) = Fault(q, "size of the file name")
    BY <1>2 DEF PostCleaned
  <2>2. "size of the file name" \in Faults
    BY DEF Faults
  <2> QED
    BY <2>1, <2>2, FaultIs
<1>3. CASE q.c.post /\ ~ (q.post.file # None /\ ~ q.post.file.closed)
  <2>1. q.c.post = TRUE
    BY <1>3 DEF Is, IsConnection
  <2>2. PICK f : f = FileFreed(q)
    OBVIOUS
  <2>3. FreedOk(q, f)
    BY <2>1, <2>2, FileFreedIs
  <2>4. /\ Is(f) /\ f.c = q.c /\ f.handler = q.handler /\ f.end = q.end /\ f.damaged = q.damaged
        /\ f.post.boundary = q.post.boundary /\ f.post.length = q.post.length /\ f.post.file = None
        /\ q.allocated = Owned(q.c, q.post) => f.allocated = Owned(f.c, f.post)
    BY <2>3 DEF FreedOk, Frame
  <2>5. RefOk(f) /\ (f.allocated = Owned(f.c, f.post) \/ Broken(f))
    BY <2>4 DEF RefOk, Broken
  <2>6. Faulty(BoundaryFreed(f)) \/ CleanOk(f, BoundaryFreed(f))
    BY <2>1, <2>4, <2>5, BoundaryFreedIs
  <2>7. PostCleaned(q) = BoundaryFreed(f)
    BY <1>3, <2>2 DEF PostCleaned
  <2>8. ASSUME NEW t, CleanOk(f, t) PROVE CleanOk(q, t)
    BY <2>4, <2>8 DEF CleanOk
  <2> QED
    BY <2>6, <2>7, <2>8
<1> QED
  BY <1>1, <1>2, <1>3

\* An error page holds no block.
ErrorOk(q, t) ==
  /\ Is(t) /\ t.c.state = q.c.state /\ t.c.handler = q.c.handler
  /\ t.end = q.end /\ t.damaged = q.damaged /\ t.post = q.post
  /\ t.allocated = Owned(t.c, t.post)
  /\ t.c.post => q.c.post /\ ~ Failed(q)
  /\ t.c.args => q.c.args /\ ~ Failed(q)

\* An error page gives back the post data and the arguments.
LEMMA ErrorCleanedIs ==
  ASSUME NEW q, Is(q), q.allocated = Owned(q.c, q.post),
         q.c.post => q.post.file = None /\ q.post.boundary = None
  PROVE  Faulty(ErrorCleaned(q)) \/ ErrorOk(q, ErrorCleaned(q))
<1>1. CASE ~ Failed(q)
  <2>1. ErrorCleaned(q) = q
    BY <1>1 DEF ErrorCleaned
  <2>2. ErrorOk(q, q)
    BY <1>1 DEF ErrorOk
  <2> QED
    BY <2>1, <2>2
<1>2. CASE Failed(q)
  <2>1. PICK t : t = IF q.c.post THEN Gave([q EXCEPT !.c.post = FALSE], "post_data") ELSE q
    OBVIOUS
  <2>2. /\ Is(t) /\ t.c.state = q.c.state /\ t.c.handler = q.c.handler
        /\ t.end = q.end /\ t.damaged = q.damaged /\ t.post = q.post
        /\ t.c.post = FALSE /\ t.c.args = q.c.args /\ t.allocated = Owned(t.c, t.post)
    <3>1. CASE q.c.post
      <4>1. q.c.post = TRUE /\ q.post.file = None /\ q.post.boundary = None
        BY <3>1 DEF Is, IsConnection
      <4>2. PICK v : v = [q EXCEPT !.c.post = FALSE]
        OBVIOUS
      <4>3. /\ Is(v) /\ v.c.state = q.c.state /\ v.c.handler = q.c.handler
            /\ v.end = q.end /\ v.damaged = q.damaged /\ v.post = q.post
            /\ v.c.post = FALSE /\ v.c.args = q.c.args /\ v.allocated = q.allocated
        BY <4>2 DEF Is, IsConnection
      <4>4. GaveOk(v, "post_data", t)
        BY <2>1, <3>1, <4>2, <4>3, GaveIs
      <4>5. /\ Is(t) /\ Frame(v, t) /\ t.allocated = [q.allocated EXCEPT !["post_data"] = @ - 1]
            /\ t.post = q.post /\ t.c = v.c
        BY <4>3, <4>4 DEF GaveOk
      <4>6. \A k \in Kinds : Owned(t.c, t.post)[k] =
              Owned(q.c, q.post)[k] + (IF k = "post_data" THEN -1 ELSE 0)
        BY <4>1, <4>3, <4>5, OwnedKinds DEF Kinds, One
      <4>7. t.allocated = Owned(t.c, t.post)
        BY <4>5, <4>6, OwnedChange DEF Kinds
      <4> QED
        BY <4>3, <4>5, <4>7 DEF Frame
    <3>2. CASE ~ q.c.post
      <4>1. t = q /\ q.c.post = FALSE
        BY <2>1, <3>2 DEF Is, IsConnection
      <4> QED
        BY <4>1
    <3> QED
      BY <3>1, <3>2
  <2>3. CASE t.c.args /\ ~ t.sized
    <3>1. ErrorCleaned(q) = Fault(t, "size of the arguments")
      BY <1>2, <2>1, <2>3 DEF ErrorCleaned
    <3>2. "size of the arguments" \in Faults
      BY DEF Faults
    <3> QED
      BY <2>2, <3>1, <3>2, FaultIs
  <2>4. CASE t.c.args /\ t.sized
    <3>1. t.c.args = TRUE
      BY <2>2, <2>4 DEF Is, IsConnection
    <3>2. PICK v : v = [t EXCEPT !.c.args = FALSE]
      OBVIOUS
    <3>3. /\ Is(v) /\ v.c.state = q.c.state /\ v.c.handler = q.c.handler
          /\ v.end = q.end /\ v.damaged = q.damaged /\ v.post = q.post
          /\ v.c.post = FALSE /\ v.c.args = FALSE /\ v.allocated = t.allocated
      BY <2>2, <3>2 DEF Is, IsConnection
    <3>4. PICK u : u = Gave(v, "args")
      OBVIOUS
    <3>5. GaveOk(v, "args", u)
      BY <3>3, <3>4, GaveIs
    <3>6. /\ Is(u) /\ Frame(v, u) /\ u.allocated = [t.allocated EXCEPT !["args"] = @ - 1]
          /\ u.post = q.post /\ u.c = v.c
      BY <3>3, <3>5 DEF GaveOk
    <3>7. \A k \in Kinds : Owned(u.c, u.post)[k] =
            Owned(t.c, t.post)[k] + (IF k = "args" THEN -1 ELSE 0)
      BY <2>2, <3>1, <3>3, <3>6, OwnedKinds DEF Kinds, One
    <3>8. u.allocated = Owned(u.c, u.post)
      BY <2>2, <3>6, <3>7, OwnedChange DEF Kinds
    <3>9. ErrorOk(q, u)
      BY <3>3, <3>6, <3>8 DEF ErrorOk, Frame
    <3>10. ErrorCleaned(q) = u
      BY <1>2, <2>1, <2>4, <3>2, <3>4 DEF ErrorCleaned
    <3> QED
      BY <3>9, <3>10
  <2>5. CASE ~ t.c.args
    <3>1. ErrorCleaned(q) = t
      BY <1>2, <2>1, <2>5 DEF ErrorCleaned
    <3>2. ErrorOk(q, t)
      BY <2>2, <2>5 DEF ErrorOk
    <3> QED
      BY <3>1, <3>2
  <2> QED
    BY <2>3, <2>4, <2>5
<1> QED
  BY <1>1, <1>2

\* A fault of the cleaning stays one.
LEMMA FaultyStays ==
  ASSUME NEW q, Faulty(q)
  PROVE  Faulty(ErrorCleaned(q))
<1>1. Is(q) /\ q.fault # None
  BY DEF Faulty
<1>2. CASE ~ Failed(q)
  BY <1>2 DEF ErrorCleaned
<1>3. CASE Failed(q)
  <2>1. PICK t : t = IF q.c.post THEN Gave([q EXCEPT !.c.post = FALSE], "post_data") ELSE q
    OBVIOUS
  <2>2. Is(t) /\ t.fault # None
    <3>1. PICK v : v = [q EXCEPT !.c.post = FALSE]
      OBVIOUS
    <3>2. Is(v) /\ v.fault = q.fault
      BY <1>1, <3>1 DEF Is, IsConnection
    <3>3. GaveOk(v, "post_data", Gave(v, "post_data"))
      BY <3>2, GaveIs
    <3>4. Is(Gave(v, "post_data")) /\ Gave(v, "post_data").fault = q.fault
      BY <3>2, <3>3 DEF GaveOk
    <3>5. t \in {q, Gave(v, "post_data")}
      BY <2>1, <3>1
    <3> QED
      BY <1>1, <3>4, <3>5
  <2>3. CASE t.c.args /\ ~ t.sized
    <3>1. ErrorCleaned(q) = Fault(t, "size of the arguments")
      BY <1>3, <2>1, <2>3 DEF ErrorCleaned
    <3>2. "size of the arguments" \in Faults
      BY DEF Faults
    <3> QED
      BY <2>2, <3>1, <3>2, FaultIs
  <2>4. CASE t.c.args /\ t.sized
    <3>1. PICK v : v = [t EXCEPT !.c.args = FALSE]
      OBVIOUS
    <3>2. Is(v) /\ v.fault = t.fault
      BY <2>2, <3>1 DEF Is, IsConnection
    <3>3. PICK u : u = Gave(v, "args")
      OBVIOUS
    <3>4. GaveOk(v, "args", u)
      BY <3>2, <3>3, GaveIs
    <3>5. Faulty(u)
      BY <2>2, <3>2, <3>4 DEF GaveOk, Faulty
    <3>6. ErrorCleaned(q) = u
      BY <1>3, <2>1, <2>4, <3>1, <3>3 DEF ErrorCleaned
    <3> QED
      BY <3>5, <3>6
  <2>5. CASE ~ t.c.args
    <3>1. ErrorCleaned(q) = t
      BY <1>3, <2>1, <2>5 DEF ErrorCleaned
    <3> QED
      BY <2>2, <3>1 DEF Faulty
  <2> QED
    BY <2>3, <2>4, <2>5
<1> QED
  BY <1>2, <1>3

\* At the end of the loop, the state of a request that is parsed being set.
Ready(q) ==
  /\ Is(q) /\ q.pc = "end" /\ StateInv(q) /\ RefInv(q)
  /\ q.allocated = Owned(q.c, q.post) \/ Doomed(q)
  /\ q.c.state # "out"
  /\ Failed(q) => q.c.state \in {"end", "cmd"}
  /\ q.c.handler # None => q.handler # None
  /\ q.c.state = "end" => RefOk(q)

\* conn, once the request is installed.
InstalledOk(q, t) ==
  /\ Is(t) /\ t.end = q.end /\ t.damaged = q.damaged
  /\ t.allocated = Owned(t.c, t.post)
  /\ States(t.c, t.c.handler)
  /\ StateInv([t EXCEPT !.handler = t.c.handler, !.pc = "loop"])
  /\ RefInv([t EXCEPT !.handler = t.c.handler, !.pc = "loop"])
  /\ t.c.state = "out" /\ t.c.handler = None => ~ t.c.args /\ ~ t.c.post
  /\ t.c.args => q.c.args
  /\ t.c.post => q.c.post

\* What is stored at the end of a segment holds the blocks that are allocated, if the
\* cleaning has met no fault.
LEMMA InstalledIs ==
  ASSUME NEW q, Ready(q)
  PROVE  Faulty(Installed(q)) \/ InstalledOk(q, Installed(q))
<1>1. /\ Is(q) /\ q.pc = "end" /\ StateInv(q) /\ RefInv(q) /\ States(q.c, q.handler)
      /\ q.allocated = Owned(q.c, q.post) \/ Doomed(q)
      /\ q.c.state # "out"
      /\ Failed(q) => q.c.state \in {"end", "cmd"}
      /\ q.c.handler # None => q.handler # None
      /\ q.c.state = "end" => RefOk(q)
  BY DEF Ready, StateInv
<1>2. PICK t : t = IF q.handler # None /\ q.c.state # "cmd" THEN [q EXCEPT !.c.handler = q.handler] ELSE q
  OBVIOUS
<1>3. /\ Is(t) /\ t.pc = "end" /\ t.c.state = q.c.state /\ t.c.args = q.c.args
      /\ t.c.post = q.c.post /\ t.post = q.post /\ t.handler = q.handler
      /\ t.allocated = q.allocated /\ t.end = q.end /\ t.damaged = q.damaged
      /\ t.c.handler = IF q.handler # None /\ q.c.state # "cmd" THEN q.handler ELSE q.c.handler
  <2>1. PICK u : u = [q EXCEPT !.c.handler = q.handler]
    OBVIOUS
  <2>2. /\ Is(u) /\ u.pc = "end" /\ u.c.state = q.c.state /\ u.c.args = q.c.args
        /\ u.c.post = q.c.post /\ u.post = q.post /\ u.handler = q.handler
        /\ u.allocated = q.allocated /\ u.end = q.end /\ u.damaged = q.damaged
        /\ u.c.handler = q.handler
    BY <1>1, <2>1 DEF Is, IsConnection
  <2>3. CASE q.handler # None /\ q.c.state # "cmd"
    BY <1>2, <2>1, <2>2, <2>3
  <2>4. CASE ~ (q.handler # None /\ q.c.state # "cmd")
    BY <1>1, <1>2, <2>4
  <2> QED
    BY <2>3, <2>4
<1>4. CASE ~ (q.handler # None /\ q.c.state \in {"end", "cmd"})
  <2>1. Installed(q) = t
    BY <1>2, <1>4 DEF Installed
  <2>2. ~ Failed(q)
    BY <1>1, <1>4, Nones DEF Failed
  <2>3. t.allocated = Owned(t.c, t.post)
    BY <1>1, <1>3, <2>2 DEF Owned, Doomed
  <2>4. PICK r : r = [t EXCEPT !.handler = t.c.handler, !.pc = "loop"]
    OBVIOUS
  <2>5. r.c = t.c /\ r.post = t.post /\ r.handler = t.c.handler /\ r.pc = "loop"
    BY <1>3, <2>4 DEF Is
  <2>6. t.c.handler = q.handler \/ (q.c.state = "cmd" /\ q.handler = None)
    BY <1>1, <1>3, <1>4
  <2>7. States(t.c, t.c.handler)
    BY <1>1, <1>3, <1>4 DEF States, PostStates
  <2>8. StateInv(r)
    BY <1>1, <1>3, <2>5, <2>7 DEF StateInv
  <2>9. RefInv(r)
    <3>1. q.c.post /\ q.post.boundary # None /\ q.post.boundary.ref = Literal =>
             q.handler # None /\ q.c.state \in {"post_data", "init_buffer"}
      BY <1>1, <1>4, <2>2 DEF RefInv
    <3> QED
      BY <1>1, <1>3, <2>5, <2>6, <3>1 DEF RefInv
  <2>10. InstalledOk(q, t)
    BY <1>1, <1>3, <2>3, <2>4, <2>7, <2>8, <2>9 DEF InstalledOk
  <2> QED
    BY <2>1, <2>10
<1>5. CASE q.handler # None /\ q.c.state \in {"end", "cmd"}
  <2>1. PICK u : u = PostCleaned(t)
    OBVIOUS
  <2>2. Faulty(u) \/ CleanOk(t, u)
    <3>1. RefOk(t)
      BY <1>1, <1>3, <1>5 DEF RefOk, States
    <3>2. t.allocated = Owned(t.c, t.post) \/ Broken(t)
      BY <1>1, <1>3 DEF Owned, Doomed, Broken
    <3> QED
      BY <1>3, <2>1, <3>1, <3>2, PostCleanedIs
  <2>3. PICK w : w = ErrorCleaned(u)
    OBVIOUS
  <2>4. Faulty(w) \/ (CleanOk(t, u) /\ ErrorOk(u, w))
    BY <2>2, <2>3, ErrorCleanedIs, FaultyStays DEF CleanOk
  <2>5. PICK v : v = [w EXCEPT !.c.state = "out", !.c.blob = At("rqt"), !.c.arg_ref = None]
    OBVIOUS
  <2>6. Installed(q) = v
    BY <1>2, <1>5, <2>1, <2>3, <2>5 DEF Installed
  <2>7. Is(w) => /\ Is(v) /\ v.c.state = "out" /\ v.c.args = w.c.args /\ v.c.post = w.c.post
                 /\ v.post = w.post /\ v.allocated = w.allocated /\ v.end = w.end
                 /\ v.damaged = w.damaged /\ v.c.handler = w.c.handler /\ v.fault = w.fault
    <3>1. PICK a : a = At("rqt")
      OBVIOUS
    <3>2. a = [tree |-> a.tree, at |-> a.at] /\ a.at \in Seq(Characters)
      BY <3>1, AtIs
    <3>3. v = [w EXCEPT !.c.state = "out", !.c.blob = a, !.c.arg_ref = None]
      BY <2>5, <3>1
    <3> QED
      BY <3>2, <3>3 DEF Is, IsConnection
  <2>8. CASE Faulty(w)
    BY <2>6, <2>7, <2>8 DEF Faulty
  <2>9. CASE CleanOk(t, u) /\ ErrorOk(u, w)
    <3>1. /\ u.c.handler = t.c.handler /\ u.handler = t.handler /\ u.end = t.end
          /\ u.damaged = t.damaged /\ (u.c.args => t.c.args)
          /\ u.c.post => t.c.post /\ u.post.boundary = None
      BY <2>9 DEF CleanOk
    <3>2. /\ Is(w) /\ w.c.handler = u.c.handler /\ w.end = u.end /\ w.damaged = u.damaged
          /\ w.post = u.post /\ w.allocated = Owned(w.c, w.post)
          /\ w.c.post => u.c.post /\ ~ Failed(u)
          /\ w.c.args => u.c.args /\ ~ Failed(u)
      BY <2>9 DEF ErrorOk
    <3>3. v.allocated = Owned(v.c, v.post)
      BY <2>7, <3>2 DEF Owned
    <3>4. PICK r : r = [v EXCEPT !.handler = v.c.handler, !.pc = "loop"]
      OBVIOUS
    <3>5. r.c = v.c /\ r.post = v.post /\ r.handler = v.c.handler /\ r.pc = "loop"
      BY <2>7, <3>2, <3>4 DEF Is
    <3>6. States(v.c, v.c.handler)
      BY <2>7, <3>2 DEF States, PostStates
    <3>7. StateInv(r)
      BY <2>7, <3>2, <3>5, <3>6 DEF StateInv
    <3>8. RefInv(r)
      BY <2>7, <3>1, <3>2, <3>5 DEF RefInv
    <3>9. v.c.handler = None => ~ v.c.args /\ ~ v.c.post
      <4>1. CASE q.c.state # "cmd"
        BY <1>3, <1>5, <2>7, <3>1, <3>2, <4>1
      <4>2. CASE q.c.state = "cmd"
        <5>1. Failed(q)
          BY <1>1, <1>5, <4>2 DEF States, Failed
        <5>2. Failed(u)
          BY <1>3, <3>1, <5>1 DEF Failed
        <5> QED
          BY <2>7, <3>2, <5>2
      <4> QED
        BY <4>1, <4>2
    <3>10. InstalledOk(q, v)
      BY <1>3, <2>7, <3>1, <3>2, <3>3, <3>4, <3>6, <3>7, <3>8, <3>9 DEF InstalledOk
    <3> QED
      BY <2>6, <3>10
  <2> QED
    BY <2>4, <2>8, <2>9
<1> QED
  BY <1>4, <1>5

\* The loop has ended: the request may be installed.
LEMMA FinishedReady ==
  ASSUME HeapInv, Orderly, p.pc = "end"
  PROVE  /\ Ready(Finished(p))
         /\ Finished(p).end = p.end /\ Finished(p).damaged = p.damaged
         /\ Finished(p).c.args = p.c.args /\ Finished(p).c.post = p.c.post
<1>1. /\ Is(p) /\ StateInv(p) /\ RefInv(p) /\ States(p.c, p.handler)
      /\ p.allocated = Owned(p.c, p.post) \/ Doomed(p)
      /\ p.c.state # "out" /\ (p.c.handler # None => p.handler # None)
  BY DEF HeapInv, Good, StateInv
<1>2. (p.c.state = "end" \/ Failed(p)) /\ p.c.post /\ p.post.boundary # None
         /\ p.post.boundary.ref # Literal => p.post.length # NoLength
  BY DEF Orderly
<1>3. CASE (p.c.state = "post_args" /\ p.post.length = 0) \/ (Failed(p) /\ p.c.state # "cmd")
  <2>1. PICK t : t = [p EXCEPT !.c.state = "end", !.c.ready = TRUE]
    OBVIOUS
  <2>2. Finished(p) = t
    BY <1>3, <2>1 DEF Finished
  <2>3. /\ Is(t) /\ t.c.state = "end" /\ t.c.args = p.c.args /\ t.c.post = p.c.post
        /\ t.post = p.post /\ t.handler = p.handler /\ t.pc = p.pc /\ t.end = p.end
        /\ t.damaged = p.damaged /\ t.allocated = p.allocated /\ t.c.handler = p.c.handler
    BY <1>1, <2>1 DEF Is, IsConnection
  <2>4. StateInv(t)
    BY <2>3 DEF StateInv, States, PostStates
  <2>5. RefInv(t)
    BY <1>1, <2>3 DEF RefInv
  <2>6. t.allocated = Owned(t.c, t.post) \/ Doomed(t)
    BY <1>1, <2>3 DEF Owned, Doomed, Failed
  <2>7. RefOk(t)
    <3>1. p.c.post /\ p.post.boundary # None =>
            /\ p.post.boundary.ref = << >> => p.post.boundary.buffer = None
            /\ p.post.boundary.ref = Literal => p.post.length = NoLength
      BY <1>1 DEF RefInv
    <3>2. p.c.post /\ p.post.boundary # None /\ p.post.length = NoLength =>
            p.post.boundary.ref = Literal
      BY <1>2, <1>3 DEF NoLength
    <3> QED
      BY <2>3, <3>1, <3>2 DEF RefOk
  <2>8. Ready(t)
    BY <1>1, <2>3, <2>4, <2>5, <2>6, <2>7 DEF Ready
  <2> QED
    BY <2>2, <2>3, <2>8
<1>4. CASE ~ ((p.c.state = "post_args" /\ p.post.length = 0) \/ (Failed(p) /\ p.c.state # "cmd"))
  <2>1. Finished(p) = p
    BY <1>4 DEF Finished
  <2>2. p.c.state = "end" => RefOk(p)
    BY <1>1, <1>2 DEF RefOk, RefInv
  <2>3. Ready(p)
    BY <1>1, <1>4, <2>2 DEF Ready
  <2> QED
    BY <2>1, <2>3
<1> QED
  BY <1>3, <1>4

\* The segment is acknowledged.
LEMMA StoredStep ==
  ASSUME HeapInv, Orderly, NoFault', Stored
  PROVE  HeapInv'
<1>1. p.pc = "end"
  BY DEF Stored
<1>2. PICK t : t = Installed(Finished(p))
  OBVIOUS
<1>3. /\ Ready(Finished(p)) /\ Finished(p).end = p.end /\ Finished(p).damaged = p.damaged
      /\ Finished(p).c.args = p.c.args /\ Finished(p).c.post = p.c.post
  BY <1>1, FinishedReady
<1>4. Faulty(t) \/ InstalledOk(Finished(p), t)
  BY <1>2, <1>3, InstalledIs
<1>5. PICK v : v = [t EXCEPT !.pc = "idle"]
  OBVIOUS
<1>6. p' = v /\ conn' = t.c /\ sent' = p.end /\ request' = request
  BY <1>2, <1>5 DEF Stored
<1>7. Is(t) => /\ Is(v) /\ v.c = t.c /\ v.post = t.post /\ v.allocated = t.allocated /\ v.pc = "idle"
               /\ v.fault = t.fault /\ v.damaged = t.damaged
  BY <1>5 DEF Is
<1>8. InstalledOk(Finished(p), t)
  BY <1>4, <1>6, <1>7 DEF Faulty, NoFault
<1>9. /\ Is(t) /\ t.end = p.end /\ t.damaged = p.damaged /\ t.allocated = Owned(t.c, t.post)
      /\ States(t.c, t.c.handler)
      /\ t.c.state = "out" /\ t.c.handler = None => ~ t.c.args /\ ~ t.c.post
      /\ t.c.args => p.c.args
      /\ t.c.post => p.c.post
  BY <1>3, <1>8 DEF InstalledOk
<1>10. WhereInv'
  <2>1. p.end \in 0 .. Len(Text) /\ request \in Requests
    BY <1>1 DEF HeapInv, WhereInv
  <2>2. p.end \in Nat
    BY <2>1
  <2> QED
    BY <1>6, <1>7, <1>9, <2>1, <2>2 DEF WhereInv
<1>11. ConnInv'
  <2>1. IsConnection(t.c)
    BY <1>9 DEF Is
  <2>2. p.damaged < request.damages => ~ p.c.post /\ ~ p.c.args
    BY DEF Orderly
  <2>3. v.damaged = p.damaged
    BY <1>7, <1>9
  <2> QED
    BY <1>6, <1>9, <2>1, <2>2, <2>3 DEF ConnInv
<1>12. Good(Resumed')
  <2>1. PICK r : r = [t EXCEPT !.handler = t.c.handler, !.pc = "loop"]
    OBVIOUS
  <2>2. r = Resumed'
    BY <1>5, <1>6, <1>9, <2>1 DEF Resumed, Is
  <2>3. StateInv(r) /\ RefInv(r)
    BY <1>8, <2>1 DEF InstalledOk
  <2>4. Is(r) /\ r.c = t.c /\ r.post = t.post /\ r.allocated = t.allocated
    BY <1>9, <2>1 DEF Is
  <2> QED
    BY <1>9, <2>2, <2>3, <2>4 DEF Good
<1>13. p'.pc = "idle"
  BY <1>6, <1>7, <1>9
<1> QED
  BY <1>10, <1>11, <1>12, <1>13 DEF HeapInv

\* The segment is damaged.  The blocks that the parser allocates or gives back for it are
\* not put back: Orderly says that the request holds none.
LEMMA DroppedStep ==
  ASSUME HeapInv, Orderly, NoFault', Dropped
  PROVE  HeapInv'
<1>1. p.pc = "end" /\ p.damaged < request.damages
  BY DEF Dropped
<1>2. ~ p.c.post /\ ~ p.c.args /\ ~ conn.args /\ ~ conn.post
  BY <1>1 DEF Orderly, HeapInv, ConnInv
<1>3. PICK t : t = Installed(Finished(p))
  OBVIOUS
<1>4. /\ Ready(Finished(p))
      /\ Finished(p).c.args = p.c.args /\ Finished(p).c.post = p.c.post
  BY <1>1, FinishedReady
<1>5. Faulty(t) \/ InstalledOk(Finished(p), t)
  BY <1>3, <1>4, InstalledIs
<1>6. PICK v : v = [t EXCEPT !.pc = "idle", !.damaged = @ + 1]
  OBVIOUS
<1>7. p' = v /\ conn' = conn /\ sent' = sent /\ request' = request
  BY <1>3, <1>6 DEF Dropped
<1>8. Is(t) => /\ Is(v) /\ v.c = t.c /\ v.post = t.post /\ v.allocated = t.allocated
               /\ v.pc = "idle" /\ v.fault = t.fault
  BY <1>6 DEF Is
<1>9. InstalledOk(Finished(p), t)
  BY <1>5, <1>7, <1>8 DEF Faulty, NoFault
<1>10. /\ Is(t) /\ t.allocated = Owned(t.c, t.post)
       /\ t.c.args => p.c.args
       /\ t.c.post => p.c.post
  BY <1>4, <1>9 DEF InstalledOk
<1>11. IsConnection(conn) /\ States(conn, conn.handler)
  BY DEF HeapInv, ConnInv
<1>12. WhereInv'
  BY <1>1, <1>7, <1>8, <1>10 DEF HeapInv, WhereInv
<1>13. ConnInv'
  BY <1>2, <1>7, <1>11 DEF ConnInv
<1>14. Good(Resumed')
  <2>1. PICK r : r = [v EXCEPT !.c = conn, !.handler = conn.handler, !.pc = "loop"]
    OBVIOUS
  <2>2. r = Resumed'
    BY <1>7, <2>1 DEF Resumed
  <2>3. /\ Is(r) /\ r.c = conn /\ r.handler = conn.handler /\ r.pc = "loop"
        /\ r.allocated = v.allocated
    BY <1>2, <1>8, <1>10, <1>11, <2>1 DEF Is
  <2>4. StateInv(r)
    BY <1>2, <1>11, <2>3 DEF StateInv, States, PostStates
  <2>5. RefInv(r)
    BY <1>2, <2>3 DEF RefInv
  <2>6. r.allocated = Owned(r.c, r.post)
    BY <1>2, <1>8, <1>10, <2>3 DEF Owned, One
  <2> QED
    BY <2>2, <2>3, <2>4, <2>5, <2>6 DEF Good
<1>15. p'.pc = "idle"
  BY <1>7, <1>8, <1>10
<1> QED
  BY <1>12, <1>13, <1>14, <1>15 DEF HeapInv

\* Where a segment ends.
LEMMA SegmentEnds ==
  ASSUME WhereInv, sent < Len(Text), NEW n \in Cuts \cup {Len(Text) - sent}, sent + n <= Len(Text)
  PROVE  sent \in Nat /\ sent + n \in 0 .. Len(Text)
<1>1. request.text \in Seq(Characters) /\ Cuts \subseteq Nat
  BY RequestAssumption DEF WhereInv
<1>2. Len(Text) \in Nat
  <2>1. PICK u : u = request.text
    OBVIOUS
  <2>2. u \in Seq(Characters)
    BY <1>1, <2>1
  <2>3. Len(u) \in Nat
    BY <2>2
  <2> QED
    BY <2>1, <2>3 DEF Text
<1>3. sent \in Nat
  BY DEF WhereInv
<1> QED
  BY <1>1, <1>2, <1>3

\* A segment begins, on the connection that was stored or on a new one.
LEMMA StartStep ==
  ASSUME HeapInv, Start
  PROVE  HeapInv'
<1>1. p.pc = "idle" /\ sent < Len(Text) /\ ~ Settled
  BY DEF Start
<1>2. PICK n \in Cuts \cup {Len(Text) - sent} :
        /\ sent + n <= Len(Text)
        /\ LET c == IF conn.state = "out"
                    THEN [conn EXCEPT !.args = FALSE, !.arg_ref = None, !.blob = At("rqt"),
                                      !.state = "cmd", !.ready = TRUE, !.handler = None,
                                      !.post = FALSE, !.post_url = FALSE]
                    ELSE conn IN
           p' = [p EXCEPT !.pc = "loop", !.x = sent, !.end = sent + n, !.c = c,
                          !.handler = c.handler, !.sized = c.arg_ref # None]
  BY DEF Start
<1>3. UNCHANGED <<request, sent, conn>>
  BY DEF Start
<1>4. PICK c : c = IF conn.state = "out"
                   THEN [conn EXCEPT !.args = FALSE, !.arg_ref = None, !.blob = At("rqt"),
                                     !.state = "cmd", !.ready = TRUE, !.handler = None,
                                     !.post = FALSE, !.post_url = FALSE]
                   ELSE conn
  OBVIOUS
<1>5. PICK t : t = [p EXCEPT !.pc = "loop", !.x = sent, !.end = sent + n, !.c = c,
                             !.handler = c.handler, !.sized = c.arg_ref # None]
  OBVIOUS
<1>6. p' = t
  BY <1>2, <1>4, <1>5
<1>7. IsConnection(conn) /\ States(conn, conn.handler)
      /\ (conn.state = "out" /\ conn.handler = None => ~ conn.args /\ ~ conn.post)
  BY DEF HeapInv, ConnInv
<1>8. PICK r : r = Resumed
  OBVIOUS
<1>9. Good(r)
  BY <1>1, <1>8 DEF HeapInv
<1>10. r = [p EXCEPT !.c = conn, !.handler = conn.handler, !.pc = "loop"]
  BY <1>8 DEF Resumed
<1>11. /\ IsConnection(c) /\ c.state # "out" /\ States(c, c.handler)
       /\ c.args = conn.args /\ c.post = conn.post
       /\ c = conn \/ c.state = "cmd"
  <2>1. CASE conn.state = "out"
    <3>1. PICK a : a = At("rqt")
      OBVIOUS
    <3>2. a = [tree |-> a.tree, at |-> a.at] /\ a.at \in Seq(Characters)
      BY <3>1, AtIs
    <3>3. c = [conn EXCEPT !.args = FALSE, !.arg_ref = None, !.blob = a,
                           !.state = "cmd", !.ready = TRUE, !.handler = None,
                           !.post = FALSE, !.post_url = FALSE]
      BY <1>4, <2>1, <3>1
    <3>4. ~ conn.args /\ ~ conn.post
      BY <1>1, <1>7, <2>1 DEF Settled
    <3>5. /\ IsConnection(c) /\ c.state = "cmd" /\ c.handler = None
          /\ c.args = FALSE /\ c.post = FALSE
      BY <1>7, <3>2, <3>3 DEF IsConnection
    <3>6. conn.args = FALSE /\ conn.post = FALSE
      BY <1>7, <3>4 DEF IsConnection
    <3>7. States(c, c.handler)
      BY <3>5 DEF States, PostStates
    <3> QED
      BY <3>5, <3>6, <3>7
  <2>2. CASE conn.state # "out"
    BY <1>4, <1>7, <2>2
  <2> QED
    BY <2>1, <2>2
<1>12. PICK z : z = [r EXCEPT !.c = c, !.handler = c.handler]
  OBVIOUS
<1>13. /\ Is(r) /\ r.c = conn /\ r.handler = conn.handler /\ r.pc = "loop"
       /\ StateInv(r) /\ RefInv(r) /\ r.allocated = Owned(r.c, r.post)
  BY <1>9, <1>10 DEF Good, Is, Doomed
<1>14. /\ t.pc = "loop" /\ t.c = c /\ t.handler = c.handler /\ t.post = r.post
       /\ t.allocated = r.allocated /\ t.x = sent /\ t.end = sent + n /\ t.damaged = p.damaged
  BY <1>5, <1>10, <1>13 DEF Is
<1>15. Is(t)
  <2>1. p.c = p.c /\ DOMAIN p = DOMAIN r
    BY <1>10
  <2>2. t = [r EXCEPT !.x = sent, !.end = sent + n, !.c = c,
                      !.handler = c.handler, !.sized = c.arg_ref # None]
    BY <1>5, <1>10, <1>13 DEF Is
  <2> QED
    BY <1>11, <1>13, <2>2 DEF Is
<1>16. StateInv(t)
  <2>1. c.state \notin {"init_buffer", "boundary"} \/ c = conn
    BY <1>11
  <2> QED
    BY <1>11, <1>13, <1>14, <2>1 DEF StateInv
<1>17. RefInv(t)
  <2>1. CASE c = conn
    BY <1>13, <1>14, <2>1 DEF RefInv
  <2>2. CASE c.state = "cmd"
    BY <1>11, <1>14, <2>2 DEF RefInv, States
  <2> QED
    BY <1>11, <2>1, <2>2
<1>18. t.allocated = Owned(t.c, t.post)
  BY <1>11, <1>13, <1>14 DEF Owned
<1>19. Good(t)
  BY <1>15, <1>16, <1>17, <1>18 DEF Good
<1>20. WhereInv'
  <2>1. WhereInv
    BY DEF HeapInv
  <2>2. sent \in Nat /\ sent + n \in 0 .. Len(Text)
    BY <1>1, <1>2, <2>1, SegmentEnds
  <2>3. Text' = Text
    BY <1>3 DEF Text
  <2> QED
    BY <1>3, <1>6, <1>14, <2>1, <2>2, <2>3 DEF WhereInv
<1>21. ConnInv'
  BY <1>3, <1>6, <1>14 DEF HeapInv, ConnInv
<1> QED
  BY <1>6, <1>11, <1>14, <1>19, <1>20, <1>21 DEF HeapInv

\* The coroutine of another connection begins or ends.
LEMMA OthersStep ==
  ASSUME HeapInv, OthersRun \/ OthersEnd
  PROVE  HeapInv'
<1>1. PICK o, v : v = [p EXCEPT !.stack = o] /\ p' = v
  BY DEF OthersRun, OthersEnd
<1>2. p.pc = "idle" /\ p' = v /\ UNCHANGED <<request, sent, conn>>
  BY <1>1 DEF OthersRun, OthersEnd
<1>3. PICK r : r = Resumed
  OBVIOUS
<1>4. Good(r) /\ r = [p EXCEPT !.c = conn, !.handler = conn.handler, !.pc = "loop"]
  BY <1>2, <1>3 DEF HeapInv, Resumed
<1>5. Is(r)
  BY <1>4 DEF Good
<1>6. PICK t : t = [v EXCEPT !.c = conn, !.handler = conn.handler, !.pc = "loop"]
  OBVIOUS
<1>7. t = Resumed'
  BY <1>2, <1>6 DEF Resumed
<1>8. /\ t.c = r.c /\ t.handler = r.handler /\ t.pc = r.pc /\ t.post = r.post
      /\ t.allocated = r.allocated /\ Is(t)
  <2>1. t = [r EXCEPT !.stack = o]
    BY <1>1, <1>4, <1>5, <1>6 DEF Is
  <2> QED
    BY <1>5, <2>1 DEF Is
<1>9. v.pc = p.pc /\ v.damaged = p.damaged
  BY <1>1
<1>10. Good(t)
  <2>1. StateInv(t)
    BY <1>4, <1>8 DEF Good, StateInv
  <2>2. RefInv(t)
    BY <1>4, <1>8 DEF Good, RefInv, Failed
  <2>3. t.allocated = Owned(t.c, t.post) \/ Doomed(t)
    BY <1>4, <1>8 DEF Good, Doomed, Failed
  <2> QED
    BY <1>8, <2>1, <2>2, <2>3 DEF Good
<1>11. WhereInv'
  BY <1>2, <1>9 DEF HeapInv, WhereInv
<1>12. ConnInv'
  <2>1. ConnInv
    BY DEF HeapInv
  <2> QED
    BY <1>2, <1>9, <2>1 DEF ConnInv
<1> QED
  BY <1>2, <1>7, <1>9, <1>10, <1>11, <1>12 DEF HeapInv

\* Nothing changes.
LEMMA StuttersStep ==
  ASSUME HeapInv, UNCHANGED vars
  PROVE  HeapInv'
<1>1. request' = request /\ sent' = sent /\ conn' = conn /\ p' = p
  BY DEF vars
<1>2. Resumed' = Resumed /\ Text' = Text
  BY <1>1 DEF Resumed, Text
<1>3. WhereInv'
  BY <1>1, <1>2 DEF HeapInv, WhereInv
<1>4. ConnInv'
  BY <1>1 DEF HeapInv, ConnInv
<1> QED
  BY <1>1, <1>2, <1>3, <1>4 DEF HeapInv

\* Nothing is allocated at first.
LEMMA HeapInit == Init => HeapInv
<1> SUFFICES ASSUME Init PROVE HeapInv
  OBVIOUS
<1>1. PICK a : a = At("rqt")
  OBVIOUS
<1>2. a = [tree |-> a.tree, at |-> a.at] /\ a.at \in Seq(Characters)
  BY <1>1, AtIs
<1>3. conn = [state |-> "out", blob |-> a, ready |-> FALSE, handler |-> None,
              args |-> FALSE, arg_ref |-> None, post |-> FALSE, post_url |-> FALSE]
  BY <1>1 DEF Init
<1>4. /\ IsConnection(conn) /\ conn.state = "out" /\ conn.handler = None
      /\ conn.args = FALSE /\ conn.post = FALSE
  BY <1>2, <1>3 DEF IsConnection
<1>5. p = [pc |-> "idle", x |-> 0, end |-> 0, c |-> conn, handler |-> None, sized |-> FALSE,
           args |-> None, post |-> None, allocated |-> [k \in Kinds |-> 0], got |-> << >>,
           stack |-> "free", damaged |-> 0, fault |-> None]
  BY DEF Init
<1>6. PICK r : r = [p EXCEPT !.c = conn, !.handler = conn.handler, !.pc = "loop"]
  OBVIOUS
<1>7. /\ Is(r) /\ r.c = conn /\ r.handler = None /\ r.pc = "loop"
      /\ r.allocated = [k \in Kinds |-> 0]
  BY <1>4, <1>5, <1>6 DEF Is
<1>8. States(conn, None)
  BY <1>4 DEF States, PostStates
<1>9. StateInv(r) /\ RefInv(r)
  BY <1>4, <1>7, <1>8 DEF StateInv, RefInv
<1>10. r.allocated = Owned(r.c, r.post)
  BY <1>4, <1>7 DEF Owned, Counts, Kinds, One
<1>11. Good(r)
  BY <1>7, <1>9, <1>10 DEF Good
<1>12. r = Resumed
  BY <1>6 DEF Resumed
<1>13. p.pc = "idle"
  BY <1>5
<1>14. WhereInv
  BY <1>13 DEF WhereInv, Init
<1>15. ConnInv
  BY <1>4, <1>8 DEF ConnInv
<1> QED
  BY <1>11, <1>12, <1>13, <1>14, <1>15 DEF HeapInv

\* Every step of the parser keeps the invariant.
LEMMA HeapStep ==
  ASSUME HeapInv, Orderly, NoFault', [Next]_vars
  PROVE  HeapInv'
<1>1. CASE Start
  BY <1>1, StartStep
<1>2. CASE EndParts
  BY <1>2, EndPartsStep
<1>3. CASE ReadCharacter
  BY <1>3, ReadCharacterStep
<1>4. CASE ReadInBuffer
  BY <1>4, ReadInBufferStep
<1>5. CASE ReadToBoundary
  BY <1>5, ReadToBoundaryStep
<1>6. CASE ResumeData
  BY <1>6, ResumeDataStep
<1>7. CASE RunDoPostIn
  BY <1>7, RunDoPostInStep
<1>8. CASE in
  BY <1>8, InStep
<1>9. CASE InYields
  BY <1>9, InYieldsStep
<1>10. CASE DoPostInReturns
  BY <1>10, DoPostInReturnsStep
<1>11. CASE EndLoop
  BY <1>11, EndLoopStep
<1>12. CASE Stored
  BY <1>12, StoredStep
<1>13. CASE Dropped
  BY <1>13, DroppedStep
<1>14. CASE OthersRun \/ OthersEnd
  BY <1>14, OthersStep
<1>15. CASE UNCHANGED vars
  BY <1>15, StuttersStep
<1>16. CASE Unprepared
  BY <1>16, UnpreparedStep
<1> QED
  BY <1>1, <1>2, <1>3, <1>4, <1>5, <1>6, <1>7, <1>8, <1>9, <1>10, <1>11, <1>12, <1>13,
     <1>14, <1>15, <1>16 DEF Next, Receive

\* Between the segments the invariant says that the heap is exact.
LEMMA HeapInvExact == HeapInv => HeapExact
<1> SUFFICES ASSUME HeapInv, p.pc = "idle" PROVE HeapExact
  BY DEF HeapExact
<1>1. PICK r : r = [p EXCEPT !.c = conn, !.handler = conn.handler, !.pc = "loop"]
  OBVIOUS
<1>2. Good(r)
  BY <1>1 DEF HeapInv, Resumed
<1>3. Is(r)
  BY <1>2 DEF Good
<1>4. r.c = conn /\ r.pc = "loop" /\ r.post = p.post /\ r.allocated = p.allocated
  BY <1>1, <1>3 DEF Is
<1>5. p.allocated = Owned(conn, p.post)
  BY <1>2, <1>4 DEF Good, Doomed
<1> QED
  BY <1>5, SMT DEF HeapExact, Owned, Counts, One, Literal

\* Between two segments of a request smews_receive has allocated the blocks that
\* the connection holds and no other, whatever the requests and the trees are,
\* however the text is cut and whatever mem_alloc refuses: no way out of its loop
\* loses a block or gives one back twice.  This is so as long as the requests are
\* Orderly and no fault occurs.
THEOREM RequestHeapExact == Spec /\ [](Orderly /\ NoFault) => []HeapExact
<1>1. HeapInv /\ Orderly /\ NoFault /\ NoFault' /\ [Next]_vars => HeapInv'
  BY HeapStep
<1> QED
  BY <1>1, HeapInit, HeapInvExact, PTL DEF Spec

=============================================================================
