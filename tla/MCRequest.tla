----------------------------- MODULE MCRequest ------------------------------
EXTENDS Request

MCCommands == [GET |-> <<"G", " ">>, POST |-> <<"P", " ">>]
MCAttributes == [type |-> <<"T", "Y">>, length |-> <<"T", "L">>, filename |-> <<"F", "=">>,
       boundary |-> <<"B", "=">>]
ui8 == [kind |-> "ui8", size |-> 1]
str == [kind |-> "str", size |-> 3]
NoArgs == << >>
Two == (<<"i">> :> ui8) @@ (<<"s">> :> str)
Page(post, args, mimes, reads) == [post |-> post, args |-> args, mimes |-> mimes, reads |-> reads]
All == 1000
MCResources == (<<"/", "a">> :> Page(FALSE, NoArgs, {}, All)) @@ (<<"/", "a", "b">> :> Page(FALSE, Two, {}, All))
      @@ (<<"/", "f">> :> Page(TRUE, Two, {}, All)) @@ (<<"/", "p">> :> Page(TRUE, NoArgs, {<<"t">>}, All))
      @@ (<<"/", "e">> :> Page(TRUE, NoArgs, {}, 1))
MCMultipart == <<"m">>
MCForm == <<"u">>
MCMimes == {MCMultipart, MCForm, <<"t">>}

Req(text, refused, handler, args, parts) ==
  [text |-> text, refused |-> refused, damages |-> 0, others |-> "between parts", unprepared |-> {},
   handler |-> handler, args |-> args, parts |-> parts]
Value2(i, a, b) == (<<"i">> :> i) @@ (<<"s">> :> [text |-> <<a, b>>, left |-> 0])
Part(file, data) == [file |-> file, data |-> data]

Line(s) == s \o <<CR, LF>>
Type(t) == Line(<<"t", "y", ":", " ", t>>)
Length(n) == Line(<<"T", "l", ":", " ">> \o n)
Post(url, header, body) == <<"P", " ", "/", url, " ">> \o Line(<<"H">>) \o header \o <<CR, LF>> \o body
MultiType == Line(<<"T", "Y", ":", " ", "m", ";", " ", "b", "=", "x", "y", "z">>)
MCBoundary == <<CR, LF, "-", "-", "x", "y", "z">>
PartHead(f) == Line(<<"D", " ", "f", "=", "\"", f, "\"">>) \o Type("t") \o <<CR, LF>>
File == <<"a", "b", "c", "d", "e", "f", "g", "h">>
Parts(f, g) == Tail(Tail(MCBoundary)) \o <<CR, LF>> \o PartHead("v") \o f \o MCBoundary \o <<CR, LF>>
               \o PartHead("w") \o g \o MCBoundary \o <<"-", "-", CR, LF>>
TwoFiles == Parts(File \o <<LF>>, <<"k">> \o File \o <<LF>>)
LongFiles == Parts(<<"k">> \o File \o <<LF>>, <<"k">> \o File \o <<LF>>)
Digits == <<"0", "1", "2", "3", "4", "5", "6", "7", "8", "9">>
Number(n) == IF n >= 100 THEN <<Digits[(n \div 100) + 1], Digits[((n \div 10) % 10) + 1], Digits[(n % 10) + 1]>>
             ELSE <<Digits[(n \div 10) + 1], Digits[(n % 10) + 1]>>

Get == Req(<<"G", " ", "/", "a", " ">>, {}, <<"/", "a">>, None, << >>)
\* doPostIn may not be prepared in a segment that begins with the end of the header.
Known == Post("p", Type("t") \o Length(<<"1", "1">>), File \o <<"i", "j", "k">>)
EndOfHeader == {Len(Known) - 13, Len(Known) - 12}
MCRequests ==
  {[Get EXCEPT !.damages = 1],
   Req(<<"G", " ", "/", "a", "c">>, {}, Page404, None, << >>),
   Req(<<"P", " ", "/", "a", " ">>, {}, Page404, None, << >>),
   Req(<<"G", " ", "/", "a", "b", "?", "i", "=", "2", "6", "0", "&", "s", "=", "x", "y", "z", " ">>, {"args"},
       <<"/", "a", "b">>, Value2(4, "x", "y"), << >>),
   Req(Post("f", Type("u") \o Length(<<"9">>), <<"i", "=", "7", "&", "s", "=", "x", "y", "z">>),
       {"args"}, <<"/", "f">>, Value2(7, "x", "y"), << >>),
   [Req(Known, {}, <<"/", "p">>, None, <<Part(None, File \o <<"i", "j", "k">>)>>)
      EXCEPT !.unprepared = EndOfHeader],
   Req(Post("p", Type("t") \o Length(<<"2", "5", "5", "2">>), <<"a", "b">>),
       {}, <<"/", "p">>, None, <<Part(None, <<"a", "b">>)>>),
   Req(Post("p", Type("t"), <<"a", "b", CR, "c", LF, CR, LF, CR, LF>>),
       {"boundary"}, <<"/", "p">>, None, <<Part(None, <<"a", "b", CR, "c", LF>>)>>),
   Req(Post("p", Type("t"), <<"a", "b", "c", "d", CR, LF, CR, LF>>),
       {"boundary"}, <<"/", "p">>, None, <<Part(None, <<"a", "b", "c", "d">>)>>),
   Req(Post("p", Length(<<"9">>), <<"a">>), {}, Page505, None, << >>),
   Req(Post("p", Type("u"), << >>), {}, Page404, None, << >>),
   Req(Post("p", MultiType \o Length(Number(Len(TwoFiles))), TwoFiles),
       {"boundary", "filename"}, <<"/", "p">>, None,
       <<Part(<<"v">>, File), Part(<<"w">>, <<"k">> \o File)>>),
   Req(Post("e", MultiType \o Length(Number(Len(LongFiles))), LongFiles),
       {}, <<"/", "e">>, None, <<Part(<<"v">>, <<"k">>), Part(<<"w">>, <<"k">>)>>)
   }

\* Two files, the last lines of which do not end.
UnendedFiles ==
  LET body == Parts(File, File) IN
  {Req(Post("p", MultiType \o Length(Number(Len(body))), body), {}, <<"/", "p">>, None,
       <<Part(<<"v">>, File), Part(<<"w">>, File)>>)}

\* A body of 255 characters.
Length255 ==
  LET body == [i \in 1 .. 255 |-> "a"] IN
  {Req(Post("p", Type("t") \o Length(Number(255)), body), {}, <<"/", "p">>, None, <<Part(None, body)>>)}

\* doPostIn may not be prepared in any segment.
NotPrepared == {[r EXCEPT !.unprepared = 0 .. Len(r.text)] : r \in MCRequests}

\* The blocks whose refusal the code does not stand.
Unrefusable == {[r EXCEPT !.refused = {"boundary_ref", "boundary_buffer"}] : r \in MCRequests}
=============================================================================
