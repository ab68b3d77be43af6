------------------------------ MODULE Request -------------------------------
(***************************************************************************)
(* The HTTP parser of smews_receive (core/input.c): commands, URLs, their  *)
(* arguments, the attributes of a POST header and the body that doPostIn   *)
(* reads through in().  The text arrives in segments cut anywhere; ref_ack *)
(* is sent before the next one.                                            *)
(*                                                                         *)
(* Characters are strings of length one.  A place in one of the generated  *)
(* trees (a blob) is the beginning of a word that has been read; what the  *)
(* walk of input.c does on the bytes of a tree is checked in Blob.  In the *)
(* record p, c is tmp_connection, which is stored at the end of a segment, *)
(* and args and post are the blocks it points to, which are not.           *)
(***************************************************************************)
EXTENDS Integers, Sequences, FiniteSets, SequencesExt

CONSTANTS Requests,    \* the texts, what may go wrong and what is expected
          Resources,   \* urls_tree and resources_index
          Mimes,       \* mimes_tree
          Multipart,   \* multipart/form-data
          Form,        \* application/x-www-form-urlencoded
          Attributes,  \* blob_http_header_content
          Commands,    \* blob_http_rqt
          Cuts,        \* the lengths of the segments but the last
          CHUNK,       \* how much mem_realloc adds
          None

CR == "\r"
LF == "\n"
QUOTE == "\""
Page404 == <<"404">>   \* http_404_handler
Page505 == <<"505">>
NoLength == 65535
NoIndex == 255

Kinds == {"args", "post_data", "filename", "boundary", "boundary_ref", "boundary_buffer"}

Lower == <<"a", "b", "c", "d", "e", "f", "g", "h", "i", "j", "k", "l", "m",
           "n", "o", "p", "q", "r", "s", "t", "u", "v", "w", "x", "y", "z">>
Upper == <<"A", "B", "C", "D", "E", "F", "G", "H", "I", "J", "K", "L", "M",
           "N", "O", "P", "Q", "R", "S", "T", "U", "V", "W", "X", "Y", "Z">>
ToUpper(c) == IF \E i \in 1 .. 26 : Lower[i] = c THEN Upper[CHOOSE i \in 1 .. 26 : Lower[i] = c] ELSE c

\* The characters of the texts, and those that the code adds.
Characters == (UNION {Range(r.text) : r \in Requests}) \cup Range(Upper) \cup {CR, LF, "-"}

\* struct boundary, and the name of a file with its size and its capacity.
Boundaries == [ref : Seq(Characters), size : Nat, index : Nat, part : Nat,
               buffer : Seq(Characters) \cup {None}, counting : BOOLEAN, live : BOOLEAN]
Files == [name : Seq(Characters), size : Nat, capacity : Nat, closed : BOOLEAN]

\* What p.fault may be.
Faults == {"handler", "buffer", "stack", "freed twice", "uninitialised pointer",
           "size of the file name", "size of the arguments"}

ASSUME RequestAssumption ==
  /\ {Multipart, Form} \subseteq Mimes
  /\ DOMAIN Commands = {"GET", "POST"}
  /\ DOMAIN Attributes = {"type", "length", "filename", "boundary"}
  /\ \A u, v \in DOMAIN Resources : IsPrefix(u, v) /\ Resources[u].post => u = v
  /\ \A r \in Requests : /\ r.text \in Seq(Characters) /\ r.refused \subseteq Kinds \cup {"new_tab"}
                         /\ r.unprepared \subseteq 0 .. Len(r.text)
  /\ CHUNK \in Nat \ {0} /\ Cuts \subseteq Nat \ {0}
  /\ None \notin Seq(Characters) \cup Boundaries \cup Files \cup Faults \cup Mimes
                \cup {Page404, Page505}

\* The loop of smews_receive, and where it stands: "idle" between segments,
\* "loop" at its head, "data" where post data are parsed, "in" in a coroutine
\* that runs doPostIn, "end" after the loop.
VARIABLES request,   \* the request of this behaviour
          sent,      \* how much of its text has been acknowledged
          conn,      \* the fields of struct http_connection
          p          \* tmp_connection, the local variables and the blocks

vars == <<request, sent, conn, p>>

----------------------------------------------------------------------------
\* The trees.

At(tree) == [tree |-> tree, at |-> << >>]

Words(tree, handler) ==
  CASE tree = "rqt"     -> Range(Commands)
    [] tree = "urls"    -> DOMAIN Resources
    [] tree = "mimes"   -> Mimes
    [] tree = "content" -> Range(Attributes)
    [] tree = "end"     -> {<<CR, LF, CR>>}
    [] tree = "args"    -> DOMAIN Resources[handler].args
    [] tree = "value"   -> {}

\* blob_curr >= 128
Marked(blob, handler) == blob.at \in Words(blob.tree, handler)
IsAttribute(blob, name) == blob = [tree |-> "content", at |-> Attributes[name]]

\* blob_curr, where it is a character of the end of a header
Expected(blob) == <<CR, LF, CR>>[Len(blob.at) + 1]

\* tmp_char - '0', which is 10 for the colon
Value(c) == CHOOSE i \in 0 .. 10 :
              <<"0", "1", "2", "3", "4", "5", "6", "7", "8", "9", ":">>[i + 1] = c

----------------------------------------------------------------------------
\* Steps of the parser, on p.

Found(q, handler) == [q EXCEPT !.handler = IF @ = None THEN handler ELSE @]
Error(q, handler) == [q EXCEPT !.handler = handler, !.pc = "end"]
Took(q, kind) == [q EXCEPT !.allocated[kind] = @ + 1]
Gave(q, kind) == [q EXCEPT !.allocated[kind] = @ - 1]
Fault(q, what) == [q EXCEPT !.fault = what, !.pc = "end"]

\* One step of the walk of a tree.
Walk(q, c) ==
  LET at == Append(q.c.blob.at, IF q.c.state = "attributes" THEN ToUpper(c) ELSE c) IN
  IF \E w \in Words(q.c.blob.tree, q.handler) : IsPrefix(at, w) THEN [q EXCEPT !.c.blob.at = at]
  ELSE IF q.c.state = "attributes" THEN [q EXCEPT !.c.blob = At("content")]
  ELSE Error(q, Page404)

\* A character of the value of an argument.
ArgValue(q, c) ==
  LET arg == q.c.arg_ref
      type == Resources[q.handler].args[arg] IN
  CASE type.kind # "str" ->
         [q EXCEPT !.args[arg] = (@ * 10 + Value(c)) % (IF type.kind = "ui8" THEN 256 ELSE 65536)]
    [] type.kind = "str" /\ q.args[arg].left = 0 -> q
    [] type.kind = "str" /\ q.args[arg].left # 0 ->
         [q EXCEPT !.args[arg].text[type.size - q.args[arg].left] = c, !.args[arg].left = @ - 1]

\* What follows the search for a resource.  curr is blob_curr.
Rest(q, c, curr) ==
  LET state == IF q.c.state = "attributes" /\ c = CR THEN "post_end"
               ELSE IF q.c.state = "post_end" /\ c # Expected(curr) THEN "attributes"
               ELSE q.c.state
      t == [q EXCEPT !.c.state = state,
                     !.c.blob = CASE state = q.c.state     -> @
                                  [] state = "post_end"    -> At("end")
                                  [] state = "attributes"  -> At("content")] IN
  IF t.c.arg_ref # None THEN
    CASE c = "&" -> [t EXCEPT !.c.arg_ref = None, !.c.blob = At("args")]
      [] c = " " -> [t EXCEPT !.c.ready = TRUE, !.c.state = "end", !.pc = "end"]
      [] OTHER   -> ArgValue(t, c)
  ELSE IF state = "post_end" THEN [t EXCEPT !.c.blob.at = Append(@, c)]
  ELSE IF \/ state = "content_type" /\ c \in {" ", ":"}
          \/ state = "attributes" /\ \E a \in {"length", "boundary", "filename"} : IsAttribute(curr, a)
       THEN t
  ELSE Walk(t, c)

----------------------------------------------------------------------------
\* What happens at the end of a word; refused is the kind of block that
\* mem_alloc refuses, if any.

\* A command: its URL begins with this character.
Command(q, refused) ==
  LET t == [q EXCEPT !.c.state = "url", !.c.blob = At("urls")] IN
  IF q.c.blob.at # Commands["POST"] THEN t
  ELSE IF refused = "post_data" THEN Error(q, Page404)
  ELSE Took([t EXCEPT !.c.post = TRUE,
                      !.post = [length |-> NoLength, type |-> None, file |-> None,
                                boundary |-> None, co |-> "terminated", read |-> 0]],
            "post_data")

\* The arguments begin.
Question(q, c, refused) ==
  LET t == [Found(q, q.c.blob.at) EXCEPT !.c.ready = FALSE]
      types == Resources[t.handler].args IN
  IF DOMAIN types = {} THEN Rest(t, c, t.c.blob)
  ELSE IF refused = "args" THEN Error([t EXCEPT !.sized = TRUE, !.c.args = FALSE], Page404)
  ELSE Took([t EXCEPT !.c.blob = At("args"), !.c.args = TRUE, !.sized = TRUE,
                      !.args = [a \in DOMAIN types |->
                         IF types[a].kind = "str"
                         THEN [text |-> [i \in 1 .. types[a].size - 1 |-> ""], left |-> 0]
                         ELSE 0]], "args")

Equal(q) ==
  LET arg == q.c.blob.at
      type == Resources[q.handler].args[arg]
      t == [q EXCEPT !.c.arg_ref = arg] IN
  IF type.kind = "str" THEN [t EXCEPT !.args[arg].left = type.size - 1] ELSE t

\* The end of the URL, or of a name of an argument.
EndUrl(q, c) ==
  LET t == Found(q, q.c.blob.at) IN
  CASE q.c.post /\ ~ q.c.post_url -> Error(q, Page404)
    [] q.c.post /\ q.c.post_url ->
         Rest([t EXCEPT !.c.state = "attributes", !.c.blob = At("content"), !.c.ready = FALSE],
              c, At("content"))
    [] ~ q.c.post -> [t EXCEPT !.c.state = "end", !.pc = "end"]

InUrl(q, c, refused) ==
  CASE c = " " -> EndUrl(q, c)
    [] c = "?" \/ (c = LF /\ q.c.state = "post_args") -> Question(q, c, refused)
    [] c = "=" /\ q.c.args -> Equal(q)
    [] c = "&" -> IF q.handler = None THEN Fault(q, "handler")
                  ELSE Rest([q EXCEPT !.c.blob = At("args")], c, At("args"))
    [] OTHER -> Rest(IF q.c.arg_ref = None THEN q ELSE [q EXCEPT !.c.blob = At("value")],
                     c, At("value"))

\* A resource for POST has an end character of its own.
Url(q, c, refused) ==
  LET ofPost == q.c.blob.tree = "urls" /\ Resources[q.c.blob.at].post
      t == IF ofPost /\ q.c.state = "url" THEN [q EXCEPT !.c.post_url = TRUE] ELSE q IN
  IF ofPost /\ q.c.state = "url" /\ ~ q.c.post THEN Error(q, Page404) ELSE InUrl(t, c, refused)

\* The end of the header of the request or of a part.  Without a boundary and
\* a length the data end with a void line.
EndHeader(q, c, refused) ==
  LET counting == [q EXCEPT !.post.boundary.counting = TRUE]
      data == [q EXCEPT !.c.state = "post_data", !.pc = "data"]
      literal == [ref |-> <<CR, LF, CR, LF>>, size |-> 4, index |-> NoIndex, part |-> 0,
                  buffer |-> << >>, counting |-> FALSE, live |-> TRUE] IN
  CASE q.post.type = None -> Error(q, Page505)
    [] q.post.type # None /\ q.post.boundary # None ->
         IF q.post.type = Multipart
         THEN [counting EXCEPT !.c.state = "attributes", !.c.blob = At("content")]
         ELSE [counting EXCEPT !.c.state = "post_data", !.pc = "data"]
    [] q.post.type = Form /\ q.post.boundary = None ->
         Url([q EXCEPT !.c.state = "post_args"], c, refused)
    [] q.post.type \notin {None, Form} /\ q.post.boundary = None ->
         CASE q.post.length # NoLength    -> data
           [] q.post.length = NoLength /\ refused = "boundary" -> Error(q, Page404)
           [] q.post.length = NoLength /\ refused = "boundary_buffer" ->
                Error([q EXCEPT !.post.boundary = [literal EXCEPT !.live = FALSE]], Page404)
           [] OTHER -> Took(Took([data EXCEPT !.post.boundary = literal], "boundary"),
                            "boundary_buffer")

Blanks == {" ", CR}

\* A length of 255 is taken for the one that is not known yet: it is lost
\* before the next character.
ContentLength(q, c) ==
  LET length == IF q.post.length = 255 THEN 0 ELSE q.post.length IN
  [q EXCEPT !.post.length = IF c \in Blanks THEN length ELSE (length * 10 + Value(c)) % 65536]

\* Mutant: the pointer is kept when the name could not grow.
FilenameKept(q, c, refused) ==
  LET file == q.post.file IN
  CASE file = None ->
         IF refused = "filename" THEN Error(q, Page404)
         ELSE Took([q EXCEPT !.post.file = [name |-> << >>, size |-> 2, capacity |-> CHUNK,
                                            closed |-> FALSE]], "filename")
    [] file # None /\ c = QUOTE -> [q EXCEPT !.post.file.closed = TRUE, !.c.blob = At("content")]
    [] file # None /\ c # QUOTE ->
         IF file.size = file.capacity /\ refused = "filename" THEN Error(Gave(q, "filename"), Page404)
         ELSE [q EXCEPT !.post.file.name = Append(@, c), !.post.file.size = @ + 1]

\* The name of a file.  The first character is its quote; size and capacity
\* are kept in its first two bytes until the closing one.
Filename(q, c, refused) ==
  LET file == q.post.file IN
  CASE file = None ->
         IF refused = "filename" THEN Error(q, Page404)
         ELSE Took([q EXCEPT !.post.file = [name |-> << >>, size |-> 2, capacity |-> CHUNK,
                                            closed |-> FALSE]], "filename")
    [] file # None /\ c = QUOTE ->
         IF refused = "new_tab" THEN Error(q, Page404)
         ELSE [q EXCEPT !.post.file.closed = TRUE, !.c.blob = At("content")]
    [] file # None /\ c # QUOTE ->
         IF file.size = file.capacity /\ refused = "filename"
         THEN Error(Gave([q EXCEPT !.post.file = None], "filename"), Page404)
         ELSE [q EXCEPT !.post.file.name = Append(@, c), !.post.file.size = @ + 1,
                        !.post.file.capacity = IF file.size = file.capacity THEN @ + CHUNK ELSE @]

\* The boundary between the parts: it is looked for after an end of line.
Boundary(q, c, refused) ==
  LET b == q.post.boundary IN
  IF c # CR THEN
    IF b.index = b.size /\ refused = "boundary_ref"
    THEN Error(Gave([q EXCEPT !.post.boundary.ref = << >>], "boundary_ref"), Page404)
    ELSE [q EXCEPT !.post.boundary.ref = Append(@, c), !.post.boundary.index = @ + 1,
                   !.post.boundary.size = IF b.index = b.size THEN @ + CHUNK ELSE @]
  ELSE IF refused = "new_tab" THEN Error(q, Page404)
  ELSE LET t == [q EXCEPT !.post.boundary.ref = <<LF, CR, LF, "-", "-">> \o @,
                          !.post.boundary.size = b.index + 5, !.post.boundary.index = NoIndex] IN
       IF refused = "boundary_buffer" THEN Error([t EXCEPT !.post.boundary.live = FALSE], Page404)
       ELSE Took([t EXCEPT !.post.boundary.buffer = << >>], "boundary_buffer")

\* In an attribute of the header.
Attribute(q, c, refused) ==
  CASE IsAttribute(q.c.blob, "type") -> [q EXCEPT !.c.state = "content_type", !.c.blob = At("mimes")]
    [] IsAttribute(q.c.blob, "length")   -> ContentLength(q, c)
    [] IsAttribute(q.c.blob, "filename") -> Filename(q, c, refused)
    [] IsAttribute(q.c.blob, "boundary") -> Boundary(q, c, refused)
    [] OTHER -> q

\* The type of the content must be one the resource accepts.
ContentType(q, refused) ==
  LET type == q.c.blob.at
      accepted == Resources[q.handler].mimes
      t == [q EXCEPT !.post.type = type, !.c.state = "attributes", !.c.blob = At("content")] IN
  CASE type = Multipart ->
         CASE refused = "boundary" -> Error([q EXCEPT !.post.boundary = None], Page404)
           [] refused = "boundary_ref" ->
                Error([q EXCEPT !.post.boundary = [ref |-> << >>, size |-> CHUNK, index |-> 0, part |-> 0,
                         buffer |-> None, counting |-> FALSE, live |-> FALSE]], Page404)
           [] OTHER -> Took(Took([t EXCEPT !.post.boundary =
                         [ref |-> << >>, size |-> CHUNK, index |-> 0, part |-> 0,
                          buffer |-> None, counting |-> FALSE, live |-> TRUE]],
                                 "boundary"), "boundary_ref")
    [] type # Multipart /\ (accepted = {} \/ type \in accepted) -> t
    [] type # Multipart /\ accepted # {} /\ type \notin accepted ->
         Error([q EXCEPT !.post.type = None], Page404)

\* A character in any state but those of multipart data.
Character(q, c, refused) ==
  LET blob == q.c.blob
      then(t) == IF t.pc = "end" THEN t ELSE Rest(t, c, t.c.blob) IN
  IF ~ Marked(blob, q.handler) THEN Rest(q, c, blob)
  ELSE CASE q.c.state = "post_end"     -> EndHeader(q, c, refused)
         [] q.c.state = "attributes"   -> then(Attribute(q, c, refused))
         [] q.c.state = "content_type" -> then(ContentType(q, refused))
         [] q.c.state = "cmd"          -> then(Command(q, refused))
         [] OTHER                      -> Url(q, c, refused)

----------------------------------------------------------------------------
\* Multipart data.  buffer holds the last characters, in a circle from index
\* on.

Store(b, c) == [b EXCEPT !.buffer = IF Len(@) = b.index THEN Append(@, c)
                                    ELSE [@ EXCEPT ![b.index + 1] = c],
                         !.index = @ + 1]
Wrapped(b) == IF b.index = b.size THEN [b EXCEPT !.index = 0] ELSE b

\* The boundary but its last character is in the buffer.
BeginsAt(b) == \A i \in 0 .. b.size - 2 :
                 b.buffer[((b.index + i) % b.size) + 1] = b.ref[i + 1]
\* So is the character at place i, which should be the one before index.
LastIs(b, i) == b.buffer[i + 1] = b.ref[b.size]

\* The buffer is filled before doPostIn is called.  The comparison with the
\* boundary reads beyond it.
InitBuffer(q, c) ==
  LET b == Store(q.post.boundary, c)
      t == [q EXCEPT !.post.boundary = b] IN
  CASE b.index # b.size -> t
    [] b.index = b.size /\ LastIs(b, b.size - 1) -> Fault(t, "buffer")
    [] b.index = b.size /\ ~ LastIs(b, b.size - 1) ->
         [t EXCEPT !.c.state = "post_data", !.pc = "data"]

\* doPostIn has returned early: the boundary is looked for.  The character
\* after it is skipped.  Where index is 0 the character before the buffer is
\* compared: garbage says whether it is the last one of the boundary.
SearchBoundary(q, c, garbage) ==
  LET b == Wrapped(q.post.boundary) IN
  IF BeginsAt(b) /\ (IF b.index = 0 THEN garbage ELSE LastIs(b, b.index - 1))
  THEN [q EXCEPT !.post.boundary = [b EXCEPT !.index = NoIndex],
                 !.c.state = "attributes", !.c.blob = At("content")]
  ELSE [q EXCEPT !.post.boundary = Store(b, c)]

\* Mutant: the boundary is looked for before the character is stored.
InBoundaryLate(b, c) ==
  LET last == IF b.index = 0 THEN b.size - 1 ELSE b.index - 1 IN
  IF BeginsAt(b) /\ LastIs(b, last) THEN [b EXCEPT !.index = NoIndex]
  ELSE Wrapped([b EXCEPT !.buffer[b.index + 1] = c, !.index = @ + 1])

\* in(): the oldest character is given for the new one, and the boundary is
\* looked for.  The index before 0 is 255, modulo the size.
InBoundary(b, c) ==
  LET s == Wrapped([b EXCEPT !.buffer[b.index + 1] = c, !.index = @ + 1])
      last == IF s.index = 0 THEN 255 % s.size ELSE s.index - 1 IN
  IF BeginsAt(s) /\ LastIs(s, last) THEN [s EXCEPT !.index = NoIndex] ELSE s

----------------------------------------------------------------------------
\* The loop.

Text == request.text
More == p.pc = "loop" /\ p.x < p.end /\ p.handler \notin {Page404, Page505}
InBody == p.c.post /\ p.post.boundary # None
Counting == InBody /\ p.post.boundary.counting
Counted(length) == IF length = NoLength THEN length ELSE (length - 1) % 65536

\* The multipart data end before the length does.
LastPart == Counting /\ p.post.length < 3

\* DEV_GETC: one more character of the segment.
Next1 == [p EXCEPT !.x = @ + 1,
                   !.post = IF p.c.state \in {"init_buffer", "post_args"} \/ Counting
                            THEN [p.post EXCEPT !.length = Counted(@)] ELSE p.post]

EndParts ==
  /\ More /\ LastPart
  /\ p' = [p EXCEPT !.c.ready = TRUE, !.c.state = "end", !.pc = "end"]
  /\ UNCHANGED <<request, sent, conn>>

ReadCharacter ==
  /\ More /\ ~ LastPart
  /\ p.c.state \notin {"post_data", "init_buffer", "boundary"}
  /\ \E refused \in request.refused \cup {None} :
       p' = Character(Next1, Text[p.x + 1], refused)
  /\ UNCHANGED <<request, sent, conn>>

ReadInBuffer ==
  /\ More /\ ~ LastPart /\ p.c.state = "init_buffer"
  /\ p' = InitBuffer(Next1, Text[p.x + 1])
  /\ UNCHANGED <<request, sent, conn>>

ReadToBoundary ==
  /\ More /\ ~ LastPart /\ p.c.state = "boundary"
  /\ \E garbage \in BOOLEAN : p' = SearchBoundary(Next1, Text[p.x + 1], garbage)
  /\ UNCHANGED <<request, sent, conn>>

ResumeData ==
  /\ More /\ ~ LastPart /\ p.c.state = "post_data"
  /\ p' = [p EXCEPT !.pc = "data"]
  /\ UNCHANGED <<request, sent, conn>>

\* A part begins: its buffer is filled first.
Fills == p.post.co = "terminated" /\ p.post.boundary # None /\ p.post.boundary.index = NoIndex

\* Then doPostIn is called in a coroutine, which cr_prepare gives the shared
\* stack.  A coroutine that was interrupted, or that could not be prepared for
\* an earlier segment, is not prepared again: it takes the stack as it is.
RunDoPostIn ==
  LET b == p.post.boundary
      co == p.post.co
      begins == co = "terminated" \/ (co = "ready" /\ p.stack # "others") IN
  /\ p.pc = "data"
  /\ p' = CASE Fills -> [p EXCEPT !.post.boundary.index = 0, !.post.boundary.buffer = << >>,
                                  !.c.state = "init_buffer", !.pc = "loop"]
            [] ~ Fills /\ begins ->
                 [p EXCEPT !.post.co = "active", !.post.read = 0, !.pc = "in", !.stack = "ours",
                           !.post.boundary = IF b = None \/ co = "ready" THEN b
                                             ELSE [b EXCEPT !.index = 0],
                           !.got = Append(@, [file |-> IF p.post.file = None THEN None
                                                       ELSE p.post.file.name,
                                              data |-> << >>])]
            [] ~ begins -> IF co = "active" /\ p.stack = "ours" THEN [p EXCEPT !.pc = "in"]
                           ELSE Fault(p, "stack")
  /\ UNCHANGED <<request, sent, conn>>

\* cr_prepare has no room for what another coroutine has in the stack.
CannotPrepare ==
  /\ p.pc = "data" /\ p.post.co = "terminated" /\ ~ Fills
  /\ p.stack = "others"
  /\ sent \in request.unprepared

\* smews_receive returns in the middle of the segment: tmp_connection is lost,
\* the blocks are not, and the segment will come again.
Unprepared ==
  /\ CannotPrepare
  /\ p' = [p EXCEPT !.post.co = "ready", !.pc = "idle",
                    !.post.boundary = IF @ = None THEN @ ELSE [@ EXCEPT !.index = 0]]
  /\ UNCHANGED <<request, sent, conn>>

\* in() returns -1.
InputEnded ==
  \/ p.post.length = 0
  \/ p.post.boundary # None /\ p.post.boundary.index = NoIndex

\* The application reads until -1 or until it has enough.
HasEnough == p.post.read = Resources[p.handler].reads

in ==
  /\ p.pc = "in" /\ ~ InputEnded /\ ~ HasEnough /\ p.x < p.end
  /\ LET c == Text[p.x + 1]
         b == p.post.boundary
         given == IF b = None THEN c ELSE b.buffer[b.index + 1] IN
     p' = [p EXCEPT !.x = @ + 1, !.post.length = Counted(@), !.post.read = @ + 1,
                    !.post.boundary = IF b = None THEN b ELSE InBoundary(b, c),
                    !.got[Len(p.got)].data = Append(@, given)]
  /\ UNCHANGED <<request, sent, conn>>

\* Mutant: in() waits for the next segment without returning.
InYieldsWaits ==
  /\ p.pc = "in" /\ ~ InputEnded /\ ~ HasEnough /\ p.x = p.end
  /\ UNCHANGED vars

\* in() returns to smews_receive at the end of the segment.
InYields ==
  /\ p.pc = "in" /\ ~ InputEnded /\ ~ HasEnough /\ p.x = p.end
  /\ p' = [p EXCEPT !.pc = "end"]
  /\ UNCHANGED <<request, sent, conn>>

FileFreed(q) == IF q.post.file = None THEN q ELSE Gave([q EXCEPT !.post.file = None], "filename")

DoPostInReturns ==
  /\ p.pc = "in" /\ (InputEnded \/ HasEnough)
  /\ LET q == [FileFreed(p) EXCEPT !.post.co = "terminated", !.stack = "free"]
         last == p.post.boundary = None \/ p.post.length = NoLength IN
     p' = CASE last -> [q EXCEPT !.c.state = "end", !.c.ready = TRUE, !.pc = "end"]
            [] ~ last /\ p.post.boundary.index # NoIndex ->
                 [q EXCEPT !.c.state = "boundary", !.post.boundary.part = @ + 1, !.pc = "loop"]
            [] ~ last /\ p.post.boundary.index = NoIndex ->
                 [q EXCEPT !.c.state = "attributes", !.c.blob = At("content"),
                           !.post.boundary.part = @ + 1, !.pc = "loop"]
  /\ UNCHANGED <<request, sent, conn>>

EndLoop ==
  /\ p.pc = "loop" /\ ~ More
  /\ p' = [p EXCEPT !.pc = "end"]
  /\ UNCHANGED <<request, sent, conn>>

----------------------------------------------------------------------------
\* After the loop.

Failed(q) == q.handler \in {Page404, Page505}

Finished(q) ==
  IF (q.c.state = "post_args" /\ q.post.length = 0) \/ (Failed(q) /\ q.c.state # "cmd")
  THEN [q EXCEPT !.c.state = "end", !.c.ready = TRUE] ELSE q

\* Mutant: the buffer is not given back.
BoundaryFreedNoBuffer(q) ==
  IF q.post.boundary = None THEN q
  ELSE LET t == Gave([q EXCEPT !.post.boundary = None], "boundary") IN
       IF q.post.length = NoLength \/ q.post.boundary.ref = << >> THEN t
       ELSE Gave(t, "boundary_ref")

\* The blocks of a request that is parsed are given back, but args and post.
BoundaryFreed(q) ==
  LET b == q.post.boundary
      t == IF q.post.length = NoLength \/ b.ref = << >> THEN q ELSE Gave(q, "boundary_ref") IN
  CASE b = None -> q
    [] b # None /\ ~ b.live        -> Fault(q, "freed twice")
    [] b # None /\ b.live /\ b.buffer = None -> Fault(q, "uninitialised pointer")
    [] OTHER -> Gave(Gave([t EXCEPT !.post.boundary = None], "boundary_buffer"), "boundary")

PostCleaned(q) ==
  IF ~ q.c.post THEN q
  ELSE IF q.post.file # None /\ ~ q.post.file.closed THEN Fault(q, "size of the file name")
  ELSE BoundaryFreed(FileFreed(q))

ErrorCleaned(q) ==
  LET t == IF q.c.post THEN Gave([q EXCEPT !.c.post = FALSE], "post_data") ELSE q IN
  CASE ~ Failed(q) -> q
    [] Failed(q) /\ t.c.args /\ ~ t.sized -> Fault(t, "size of the arguments")
    [] Failed(q) /\ t.c.args /\ t.sized   -> Gave([t EXCEPT !.c.args = FALSE], "args")
    [] Failed(q) /\ ~ t.c.args            -> t

Installed(q) ==
  LET t == IF q.handler # None /\ q.c.state # "cmd" THEN [q EXCEPT !.c.handler = q.handler] ELSE q IN
  IF q.handler # None /\ q.c.state \in {"end", "cmd"}
  THEN [ErrorCleaned(PostCleaned(t)) EXCEPT !.c.state = "out", !.c.blob = At("rqt"),
                                            !.c.arg_ref = None]
  ELSE t

\* The request is parsed.  What the client may still send of it begins a new
\* one, which is in Smews.
Settled == conn.state = "out" /\ conn.handler # None

\* The bound "between parts" of the request: what could not be prepared comes
\* again when the other coroutine has ended.
InTheWay ==
  request.others = "between parts" /\ conn.post /\ p.post.co = "ready" /\ p.stack = "others"

\* A segment begins; the last one ends the text.
Start ==
  /\ p.pc = "idle" /\ sent < Len(Text) /\ ~ Settled /\ ~ InTheWay
  /\ \E n \in Cuts \cup {Len(Text) - sent} :
       /\ sent + n <= Len(Text)
       /\ LET new == conn.state = "out"
              c == IF new THEN [conn EXCEPT !.args = FALSE, !.arg_ref = None, !.blob = At("rqt"),
                                            !.state = "cmd", !.ready = TRUE, !.handler = None,
                                            !.post = FALSE, !.post_url = FALSE]
                          ELSE conn IN
          p' = [p EXCEPT !.pc = "loop", !.x = sent, !.end = sent + n, !.c = c,
                         !.handler = c.handler, !.sized = c.arg_ref # None]
  /\ UNCHANGED <<request, sent, conn>>

\* The checksum is right.
Stored ==
  /\ p.pc = "end" /\ p.fault = None
  /\ LET q == Installed(Finished(p)) IN
     /\ p' = [q EXCEPT !.pc = "idle"]
     /\ conn' = q.c
  /\ sent' = p.end
  /\ UNCHANGED request

\* The checksum is wrong: the segment will come again.
Dropped ==
  /\ p.pc = "end" /\ p.fault = None /\ p.damaged < request.damages
  /\ p' = [Installed(Finished(p)) EXCEPT !.pc = "idle", !.damaged = @ + 1]
  /\ UNCHANGED <<request, sent, conn>>

\* Another connection runs a coroutine, in the shared stack.
OthersRun ==
  /\ p.pc = "idle" /\ p.stack # "others"
  /\ \/ request.others = "any time"
     \/ request.others = "between parts" /\ (conn.post => p.post.co = "terminated")
  /\ p' = [p EXCEPT !.stack = "others"]
  /\ UNCHANGED <<request, sent, conn>>

\* It has ended.
OthersEnd ==
  /\ p.pc = "idle" /\ p.stack = "others"
  /\ p' = [p EXCEPT !.stack = "free"]
  /\ UNCHANGED <<request, sent, conn>>

Init ==
  /\ request \in Requests
  /\ sent = 0
  /\ conn = [state |-> "out", blob |-> At("rqt"), ready |-> FALSE, handler |-> None,
             args |-> FALSE, arg_ref |-> None, post |-> FALSE, post_url |-> FALSE]
  /\ p = [pc |-> "idle", x |-> 0, end |-> 0, c |-> conn, handler |-> None, sized |-> FALSE,
          args |-> None, post |-> None, allocated |-> [k \in Kinds |-> 0], got |-> << >>,
          stack |-> "free", damaged |-> 0, fault |-> None]

\* The client sends what is not acknowledged, and smews_receive goes on.
Receive == \/ Start \/ EndParts \/ ReadCharacter \/ ReadInBuffer \/ ReadToBoundary
           \/ ResumeData \/ RunDoPostIn \/ Unprepared \/ in \/ InYields \/ DoPostInReturns
           \/ EndLoop \/ Stored \/ Dropped

Next == Receive \/ OthersRun \/ OthersEnd

Spec == Init /\ [][Next]_vars /\ WF_vars(Receive) /\ WF_vars(OthersEnd)

----------------------------------------------------------------------------
\* Properties.

Done == p.pc = "idle" /\ (Settled \/ sent = Len(Text))

\* However a request is cut, the handler, the values of the arguments and
\* what each call of doPostIn reads are the same, and the answer may be sent.
\* A request that mem_alloc refuses a block is answered by the 404 page.
CutsDoNotMatter ==
  Done =>
    /\ conn.state = "out" /\ conn.ready
    /\ \/ /\ conn.handler = request.handler
          /\ conn.args => p.args = request.args
          /\ p.got = request.parts
       \/ request.refused # {} /\ conn.handler = Page404

\* Between two segments the blocks that are allocated are those the
\* connection holds: nothing is lost or given back twice on any way out of
\* the loop.
HeapExact ==
  LET one(b) == IF b THEN 1 ELSE 0
      post == conn.post
      file == post /\ p.post.file # None
      boundary == post /\ p.post.boundary # None
      ref == boundary /\ p.post.boundary.ref # <<CR, LF, CR, LF>>
      buffer == boundary /\ p.post.boundary.buffer # None IN
  p.pc = "idle" =>
    p.allocated = [args |-> one(conn.args), post_data |-> one(post), filename |-> one(file),
                   boundary |-> one(boundary), boundary_ref |-> one(ref),
                   boundary_buffer |-> one(buffer)]

\* No block is used or given back that is not there, nor is a stack.
NoFault == p.fault = None

\* The loop ends for every segment and every request is parsed.
ParsingEnds == <> Done
=============================================================================
