------------------------------- MODULE Media -------------------------------
(***************************************************************************)
(* What NetworkPluginServer::wrapIncomingMedia makes of a message of the   *)
(* legacy network that shows images: with service.oob_split the message is *)
(* cut into messages of one image or one piece of text, otherwise the      *)
(* images become OOB payloads of the message itself.                       *)
(*                                                                         *)
(* A text is a sequence of parts.  In the XHTML a URL stands for the whole *)
(* tag that shows it and Broken for an "<img" the expression does not      *)
(* match; in the plain body a URL stands for itself.                       *)
(***************************************************************************)
EXTENDS Naturals, SequencesExt

CONSTANTS Words,      \* the visible pieces of text
          Urls,       \* the images
          Attached,   \* the attachments a message may have, sequences of URLs
          NoXHTML,    \* a message without an XHTML payload
          MaxParts    \* bound: the parts of a message

VARIABLES oobMode,    \* what the configuration asks for
          shown,      \* the message that arrived, <<>> before
          delivered   \* what wrapIncomingMedia returned

mediaVars == <<oobMode, shown, delivered>>

Space == " "
Broken == "<img>"

(* What the client gets: a message with its XHTML, body and OOB payloads. *)
Message(xhtml, body, oobs) == [xhtml |-> xhtml, body |-> body, oobs |-> oobs]

(* Both trims drop what is blank at the two ends. *)
xhtml_trim(s) ==
    LET black == {i \in DOMAIN s : s[i] # Space}
    IN IF black = {} THEN <<>>
       ELSE SubSeq(s, CHOOSE i \in black : \A j \in black : i <= j,
                      CHOOSE i \in black : \A j \in black : i >= j)

plaintext_trim(s) == xhtml_trim(s)

(* Every other payload is kept, those of the attachments too. *)
copySwiftMessage(msg, xhtml, body) == [msg EXCEPT !.xhtml = xhtml, !.body = body]

addOobPayload(msg, url) == [msg EXCEPT !.oobs = Append(@, url)]

(* The images boost::regex_search finds, in their order. *)
Images(xhtml) == SelectSeq([i \in DOMAIN xhtml |-> i], LAMBDA i : xhtml[i] \in Urls)

(* body.find: the first occurrence of the URL from a position on, or 0. *)
Find(body, url, from) ==
    LET at == {i \in DOMAIN body : i >= from /\ body[i] = url}
    IN IF at = {} THEN 0 ELSE CHOOSE i \in at : \A j \in at : i <= j

(* A piece of text is posted when either version of it is not empty. *)
Posted(out, msg, xhtml, body) ==
    IF xhtml = <<>> /\ body = <<>> THEN out
                                   ELSE Append(out, copySwiftMessage(msg, xhtml, body))

BeforeMatchMutant(s, msg, i) ==
    [s EXCEPT !.out = Posted(@, msg, xhtml_trim(SubSeq(msg.xhtml, s.xhtmlPos, i - 1)), <<>>),
              !.bodyPos = Find(msg.body, msg.xhtml[i], @) + 1]

(* What is before the image: the plain text is searched, and its position  *)
(* moves, only when there is something between the images.                 *)
BeforeMatch(s, msg, i) ==
    IF i = s.xhtmlPos THEN s
    ELSE LET hit  == Find(msg.body, msg.xhtml[i], s.bodyPos)
             prev == xhtml_trim(SubSeq(msg.xhtml, s.xhtmlPos, i - 1))
         IN IF hit = 0
            THEN [s EXCEPT !.out = Posted(@, msg, prev, <<>>)]
            ELSE [s EXCEPT !.out = Posted(@, msg, prev,
                              plaintext_trim(SubSeq(msg.body, s.bodyPos, hit - 1))),
                           !.bodyPos = hit + 1]

TheMatch(s, msg, i) ==
    LET url == msg.xhtml[i]
    IN [s EXCEPT !.out = Append(@, addOobPayload(copySwiftMessage(msg, <<url>>, <<url>>), url)),
                 !.xhtmlPos = i + 1]

(* The rest of the text, unless the XHTML ends with an image. *)
Remainder(s, msg) ==
    IF s.xhtmlPos > Len(msg.xhtml) THEN s.out
    ELSE Posted(s.out, msg, xhtml_trim(SubSeq(msg.xhtml, s.xhtmlPos, Len(msg.xhtml))),
                            plaintext_trim(SubSeq(msg.body, s.bodyPos, Len(msg.body))))

Split(msg) ==
    Remainder(FoldLeft(LAMBDA s, i : TheMatch(BeforeMatch(s, msg, i), msg, i),
                       [xhtmlPos |-> 1, bodyPos |-> 1, out |-> <<>>],
                       Images(msg.xhtml)),
              msg)

(* The other modes keep one message: with all its images, or with the      *)
(* first of them also in the place of the body.                            *)
Whole(msg) ==
    LET urls == [k \in DOMAIN Images(msg.xhtml) |-> msg.xhtml[Images(msg.xhtml)[k]]]
    IN IF oobMode = "OobExclusive" /\ urls # <<>>
       THEN addOobPayload([msg EXCEPT !.body = <<urls[1]>>], urls[1])
       ELSE FoldLeft(addOobPayload, msg, urls)

NoMedia(xhtml) == xhtml = NoXHTML \/ \A i \in DOMAIN xhtml : xhtml[i] \notin Urls \cup {Broken}

wrapIncomingMedia(msg) ==
    CASE NoMedia(msg.xhtml) -> <<msg>>
      [] ~ NoMedia(msg.xhtml) /\ oobMode = "OobSplit" -> Split(msg)
      [] OTHER -> <<Whole(msg)>>

-----------------------------------------------------------------------------
(* The backend sends the same text twice: "normally it's up to the backend *)
(* to provide us with <body> matching the <xhtml> version".                *)
PlainOf(xhtml) == SelectSeq(xhtml, LAMBDA p : p # Broken)

Init ==
    /\ oobMode \in {"OobWrapAll", "OobExclusive", "OobSplit"}
    /\ shown = <<>>
    /\ delivered = <<>>

(* One message: wrapIncomingMedia keeps nothing from one to the next. *)
handleConvMessagePayload(xhtml, hasXhtml, attachments) ==
    /\ shown = <<>>
    /\ shown' = xhtml
    /\ delivered' = wrapIncomingMedia(
                       FoldLeft(addOobPayload,
                                Message(IF hasXhtml THEN xhtml ELSE NoXHTML, PlainOf(xhtml), <<>>),
                                attachments))
    /\ UNCHANGED oobMode

Next ==
    \E xhtml \in BoundedSeq(Words \cup Urls \cup {Space, Broken}, MaxParts) \ {<<>>} :
    \E hasXhtml \in BOOLEAN, attachments \in Attached :
        handleConvMessagePayload(xhtml, hasXhtml, attachments)

-----------------------------------------------------------------------------
WithoutBlanks(s) == SelectSeq(s, LAMBDA p : p # Space)
WordsOf(s) == SelectSeq(s, LAMBDA p : p \in Words)
UrlsOf(s) == SelectSeq(s, LAMBDA p : p \in Urls)
Joined(field) == FlattenSeq([k \in DOMAIN delivered |-> delivered[k][field]])
HasXHTML == \E k \in DOMAIN delivered : delivered[k].xhtml # NoXHTML

(* Every image reaches the client in exactly one OOB payload, in the order *)
(* of the text, and in split mode alone in its message, but for the        *)
(* attachments, which each part repeats; with oob_replace_body only the    *)
(* first image does.                                                       *)
EveryImageOnce ==
    HasXHTML =>
        /\ oobMode # "OobExclusive" => UrlsOf(Joined("oobs")) = UrlsOf(shown)
        /\ oobMode = "OobExclusive" =>
              UrlsOf(Joined("oobs")) = SubSeq(UrlsOf(shown), 1, IF UrlsOf(shown) = <<>> THEN 0 ELSE 1)
        /\ oobMode = "OobSplit" /\ Len(delivered) > 1 =>
              \A k \in DOMAIN delivered :
                  LET images == UrlsOf(delivered[k].oobs)
                  IN IF images = <<>> THEN UrlsOf(delivered[k].xhtml) = <<>>
                                      ELSE delivered[k].xhtml = images

(* Cutting a message up loses none of its text and keeps its order, in the *)
(* XHTML and in the plain text too; in the plain text as long as no image  *)
(* is shown twice (the search for a URL then finds the wrong occurrence).  *)
NoTextLost ==
    /\ HasXHTML => WithoutBlanks(Joined("xhtml")) = WithoutBlanks(shown)
    /\ oobMode # "OobExclusive" /\ IsInjective(UrlsOf(shown)) =>
           WordsOf(Joined("body")) = WordsOf(shown)
=============================================================================
