---------------------------- MODULE HTTPMessages ----------------------------
(***************************************************************************)
(* Package net/http without the network: headers, messages and their       *)
(* bodies, cookies, byte ranges, the file server and the handlers around   *)
(* them.  Texts are sequences of tokens; where the code counts JavaScript  *)
(* string units and the protocol counts bytes, a token has both.           *)
(***************************************************************************)
EXTENDS Integers, Sequences, SequencesExt, FiniteSets

Nil == "nil"
Smaller(a, b) == IF a <= b THEN a ELSE b
Drop(s, n) == SubSeq(s, n + 1, Len(s))

-----------------------------------------------------------------------------
\* Headers: a function from canonical keys to sequences of values.  A key is
\* [name, spelling]; its canonical form has the spelling "canonical".
NoHeader == <<>>
CanonicalHeaderKey(key) == [key EXCEPT !.spelling = "canonical"]
HeaderValues(h, key) == LET k == CanonicalHeaderKey(key) IN IF k \in DOMAIN h THEN h[k] ELSE <<>>
HeaderGet(h, key) == IF HeaderValues(h, key) = <<>> THEN Nil ELSE HeaderValues(h, key)[1]
Put(h, key, values) == [k \in DOMAIN h \cup {key} |-> IF k = key THEN values ELSE h[k]]
HeaderSet(h, key, value) == Put(h, CanonicalHeaderKey(key), <<value>>)
HeaderAddRaw(h, key, value) == Put(h, key, Append(IF key \in DOMAIN h THEN h[key] ELSE <<>>, value))
HeaderAdd(h, key, value) == HeaderAddRaw(h, CanonicalHeaderKey(key), value)
HeaderDel(h, key) == [k \in DOMAIN h \ {CanonicalHeaderKey(key)} |-> h[k]]

\* The lines of a message's head: a field, the continuation of the line before,
\* or a line without a colon, which spoils the message.
ParseHeadLine(acc, line) ==
    CASE ~acc.ok -> acc
      [] line.t = "continuation" /\ acc.last # Nil ->
           LET values == acc.header[acc.key]
           IN [acc EXCEPT !.header = Put(@, acc.key, [values EXCEPT ![Len(values)] = @ \o line.v])]
      [] line.t = "field" -> [acc EXCEPT !.header = HeaderAdd(@, line.key, line.v),
                                         !.key = CanonicalHeaderKey(line.key), !.last = "set"]
      [] OTHER -> [acc EXCEPT !.ok = FALSE]
ParseHead(lines) ==
    FoldLeft(ParseHeadLine, [ok |-> TRUE, header |-> NoHeader, key |-> [name |-> Nil, spelling |-> Nil], last |-> Nil], lines)

-----------------------------------------------------------------------------
\* Bodies.  A unit is [t, bytes]: "text" or "wide" (more bytes than units),
\* "crlf" (its two characters as one token), or "size" (a chunk's length line).
\* A crlf token counts two units.
Units(s)  == FoldLeft(LAMBDA acc, u : acc + (IF u.t = "crlf" THEN 2 ELSE 1), 0, s)
Bytes(s)  == FoldLeft(LAMBDA acc, u : acc + u.bytes, 0, s)
CRLF == [t |-> "crlf", bytes |-> 2]
Size(n) == [t |-> "size", bytes |-> n]
EncodeChunked(chunks) == FlattenSeq([i \in DOMAIN chunks |-> <<Size(Bytes(chunks[i])), CRLF>> \o chunks[i] \o <<CRLF>>])
                         \o <<Size(0), CRLF, CRLF>>
\* The code takes size units where the sender counted size bytes.
RECURSIVE TakeUnits(_, _)
TakeUnits(s, n) == IF n <= 0 \/ s = <<>> THEN <<>>
                   ELSE <<Head(s)>> \o TakeUnits(Tail(s), n - Units(<<Head(s)>>))
RECURSIVE DecodeChunkedFrom(_, _)
DecodeChunkedFrom(s, body) ==
    LET size  == s[1].bytes
        rest  == Drop(s, 2)
        chunk == TakeUnits(rest, size)
        after == Drop(rest, Len(chunk))
    IN IF Len(s) < 2 THEN [body |-> <<>>, err |-> "unexpected EOF"]
       ELSE IF s[1].t # "size" \/ s[2] # CRLF THEN [body |-> <<>>, err |-> "invalid chunk length"]
       ELSE IF size = 0 THEN [body |-> body, err |-> Nil]
       ELSE IF Units(rest) < size + 2 THEN [body |-> <<>>, err |-> "unexpected EOF"]
       ELSE IF Units(chunk) # size \/ after = <<>> \/ after[1] # CRLF THEN [body |-> <<>>, err |-> "malformed chunk"]
       ELSE DecodeChunkedFrom(Tail(after), body \o chunk)
DecodeChunkedBody(s) == DecodeChunkedFrom(s, <<>>)
\* parseHTTPBody with a Content-Length: the rest of the message is cut off.
LengthBody(s, contentLength) == TakeUnits(s, contentLength)

-----------------------------------------------------------------------------
\* maxBytesReader over a reader that gives at most what is asked for and its
\* end together with the last bytes or alone (eager).
MaxRead(st, want, eager) ==
    LET readLen == IF want - 1 > st.remaining THEN st.remaining + 1 ELSE want
        n   == Smaller(readLen, Len(st.data))
        end == n = Len(st.data) /\ (eager \/ n = 0)
    IN IF st.err # Nil \/ want = 0 THEN st
       ELSE IF n <= st.remaining
            THEN [st EXCEPT !.got = @ \o SubSeq(st.data, 1, n), !.data = Drop(@, n),
                            !.remaining = @ - n, !.err = IF end THEN "EOF" ELSE Nil]
            ELSE [st EXCEPT !.got = @ \o SubSeq(st.data, 1, st.remaining), !.data = Drop(@, n),
                            !.remaining = 0, !.err = "too large"]
MaxBytesReader(data, limit) == [got |-> <<>>, data |-> data, remaining |-> IF limit < 0 THEN 0 ELSE limit, err |-> Nil]

-----------------------------------------------------------------------------
\* Byte ranges.  None stands for an empty number.
None == -1
RangeError == [ok |-> FALSE]
ParseHTTPRange(first, last, size) ==
    CASE first = None /\ last = None -> RangeError
      [] first = None /\ last # None ->
           IF last <= 0 \/ size = 0 THEN RangeError
           ELSE [ok |-> TRUE, start |-> size - Smaller(last, size), length |-> Smaller(last, size)]
      [] first # None ->
           IF first >= size \/ (last # None /\ last < first) THEN RangeError
           ELSE [ok |-> TRUE, start |-> first,
                 length |-> (IF last = None THEN size - 1 ELSE Smaller(last, size - 1)) - first + 1]
\* serveContent of seekable content for GET; a HEAD answers the same without
\* the bytes.  hasRange tells whether the request has a Range header.
ServeContent(content, hasRange, first, last, method) ==
    LET r == ParseHTTPRange(first, last, Len(content))
        body(start, n) == IF method = "HEAD" THEN <<>> ELSE SubSeq(content, start + 1, start + n)
    IN IF ~hasRange THEN [status |-> 200, length |-> Len(content), body |-> body(0, Len(content))]
       ELSE IF ~r.ok THEN [status |-> 416, length |-> 0, body |-> <<>>]
       ELSE [status |-> 206, length |-> r.length, body |-> body(r.start, r.length)]

\* Paths as sequences of elements.
CleanFileServerPath(parts) ==
    FoldLeft(LAMBDA acc, p : IF p \in {"", "."} THEN acc
                             ELSE IF p = ".." THEN (IF acc = <<>> THEN acc ELSE Front(acc))
                             ELSE Append(acc, p), <<>>, parts)
\* FileServer: an open file is closed whatever happens to it.
FileServer(method, parts, tree) ==
    LET name == CleanFileServerPath(parts)
    IN IF method \notin {"GET", "HEAD"} THEN [status |-> 405, opened |-> 0, closed |-> 0]
       ELSE IF name \notin DOMAIN tree THEN [status |-> 404, opened |-> 0, closed |-> 0]
       ELSE [status |-> IF tree[name] = "broken" THEN 500 ELSE IF tree[name] = "dir" THEN 404 ELSE 200,
             opened |-> 1, closed |-> 1]
\* StripPrefix: the handler sees a request only when both forms of the path
\* lost the prefix.
StripPrefix(prefix, path, rawPath) ==
    LET Stripped(p) == IF IsPrefix(prefix, p) THEN Drop(p, Len(prefix)) ELSE p
    IN IF prefix = <<>> THEN [ok |-> TRUE, path |-> path, raw |-> rawPath]
       ELSE IF Len(Stripped(path)) < Len(path) /\ (rawPath = <<>> \/ Len(Stripped(rawPath)) < Len(rawPath))
            THEN [ok |-> TRUE, path |-> Stripped(path), raw |-> Stripped(rawPath)]
            ELSE [ok |-> FALSE]

-----------------------------------------------------------------------------
\* Cookies.  A value is a sequence of characters, some of which a cookie cannot
\* carry; a cookie is written as parts [attr, v] and read from them.
Special == {"quote", "backslash", "semicolon"}
QuoteCookieValue(v) == <<"quote">> \o
    FlattenSeq([i \in DOMAIN v |-> IF v[i] \in {"quote", "backslash"} THEN <<"backslash", v[i]>> ELSE <<v[i]>>]) \o <<"quote">>
CookieString(c) ==
    <<[attr |-> "name", v |-> IF c.Quoted THEN QuoteCookieValue(c.Value) ELSE c.Value]>>
    \o (IF c.Path # <<>> THEN <<[attr |-> "path", v |-> c.Path]>> ELSE <<>>)
    \o (IF c.MaxAge # 0 THEN <<[attr |-> "max-age", v |-> <<IF c.MaxAge > 0 THEN c.MaxAge ELSE 0>>]>> ELSE <<>>)
    \o (IF c.HttpOnly THEN <<[attr |-> "httponly", v |-> <<>>]>> ELSE <<>>)
    \o (IF c.Secure THEN <<[attr |-> "secure", v |-> <<>>]>> ELSE <<>>)
    \o (IF c.SameSite > 1 THEN <<[attr |-> "samesite", v |-> <<c.SameSite>>]>> ELSE <<>>)
ParseCookieValue(raw, allowDoubleQuote) ==
    LET quoted == allowDoubleQuote /\ Len(raw) > 1 /\ raw[1] = "quote" /\ Last(raw) = "quote"
        v == IF quoted THEN SubSeq(raw, 2, Len(raw) - 1) ELSE raw
    IN [v |-> v, quoted |-> quoted, ok |-> \A i \in DOMAIN v : v[i] \notin Special]
ParseSetCookie(parts) ==
    LET p == ParseCookieValue(parts[1].v, TRUE)
        Has(a) == \E i \in 2..Len(parts) : parts[i].attr = a
        Of(a)  == parts[CHOOSE i \in 2..Len(parts) : parts[i].attr = a].v
    IN IF ~p.ok THEN [ok |-> FALSE]
       ELSE [ok |-> TRUE, c |-> [Value |-> p.v, Quoted |-> p.quoted,
               Path |-> IF Has("path") THEN Of("path") ELSE <<>>,
               MaxAge |-> IF Has("max-age") THEN (IF Of("max-age")[1] <= 0 THEN -1 ELSE Of("max-age")[1]) ELSE 0,
               HttpOnly |-> Has("httponly"), Secure |-> Has("secure"),
               SameSite |-> IF Has("samesite") THEN Of("samesite")[1] ELSE 0]]

-----------------------------------------------------------------------------
\* A chunked body comes back as it was sent, whatever the sizes of the chunks.
ChunksComeBack(chunks) == DecodeChunkedBody(EncodeChunked(chunks)) = [body |-> FlattenSeq(chunks), err |-> Nil]

\* That for bodies whose units are bytes; no truncation of such a body is taken
\* for a complete one, and a body of a given length is cut there and nowhere
\* else (decodeChunkedBody, parseHTTPBody).
BodyPromise(chunks) ==
    LET sent == EncodeChunked(chunks)
        all  == FlattenSeq(chunks)
    IN (\A i \in DOMAIN all : all[i].t # "wide") =>
       /\ ChunksComeBack(chunks)
       /\ \A n \in 0..(Len(sent) - 3) : DecodeChunkedBody(SubSeq(sent, 1, n)).err # Nil
       /\ LengthBody(all \o sent, Bytes(all)) = all

\* Header names differ by spelling only: whatever operations and lines built
\* a header, its keys are canonical, the values of a name are in order, and a
\* continuation belongs to the field before it (Header_Add, parseHTTPWire).
HeadPromise(lines) ==
    LET p == ParseHead(lines)
        fields == SelectSeq(lines, LAMBDA l : l.t = "field")
        names  == {fields[i].key.name : i \in DOMAIN fields}
    IN p.ok => /\ \A k \in DOMAIN p.header : k.spelling = "canonical"
               /\ {k.name : k \in DOMAIN p.header} = names
               /\ \A s \in {"canonical", "other"} : \A x \in names :
                     LET mine == SelectSeq(fields, LAMBDA l : l.key.name = x)
                         key  == [name |-> x, spelling |-> s]
                     IN /\ Len(HeaderValues(p.header, key)) = Len(mine)
                        /\ \A i \in DOMAIN mine : IsPrefix(mine[i].v, HeaderValues(p.header, key)[i])
                        /\ HeaderGet(HeaderSet(p.header, key, "v"), key) = "v"
                        /\ HeaderValues(HeaderDel(p.header, key), key) = <<>>
               /\ \A i \in DOMAIN lines : lines[i].t = "continuation" => i > 1

\* Reads of any size through maxBytesReader give the first limit bytes and end
\* with the error the whole body deserves: a body of exactly the limit is not
\* too large (maxBytesReader.Read).
LimitPromise(data, limit, want, eager) ==
    LET st == FoldLeft(LAMBDA acc, i : MaxRead(acc, want, eager), MaxBytesReader(data, limit), [i \in 1..(Len(data) + 2) |-> i])
    IN /\ st.got = SubSeq(data, 1, Smaller(Len(data), limit))
       /\ st.err = IF Len(data) > limit THEN "too large" ELSE "EOF"

\* The bytes served for a range are the bytes asked for that exist; the length
\* announced is the length sent; asking for nothing that exists is refused
\* (parseHTTPRange, serveContent).
RangePromise(content, first, last) ==
    LET size == Len(content)
        asked == {i \in 0..(size - 1) : IF first = None THEN i >= size - last
                                        ELSE i >= first /\ (last = None \/ i <= last)}
        sane == ~(first = None /\ last = None) /\ ~(first # None /\ last # None /\ last < first)
        a == ServeContent(content, TRUE, first, last, "GET")
    IN /\ a.length = Len(a.body)
       /\ ServeContent(content, TRUE, first, last, "HEAD") = [a EXCEPT !.body = <<>>]
       /\ IF sane /\ asked # {}
          THEN /\ a.status = 206 /\ a.length = Cardinality(asked)
               /\ \A k \in 1..a.length : a.body[k] = content[(CHOOSE i \in asked : \A j \in asked : i <= j) + k]
          ELSE a.status = 416

\* A cookie survives being written and read, unless its value holds what a
\* cookie cannot carry, which the reader refuses instead of changing it
\* (Cookie.String, ParseSetCookie).
CookiePromise(c) ==
    LET back == ParseSetCookie(CookieString(c))
        fine == \A i \in DOMAIN c.Value : c.Value[i] \notin Special
        wasQuoted == ~c.Quoted /\ Len(c.Value) > 1 /\ c.Value[1] = "quote" /\ Last(c.Value) = "quote"
    IN IF fine THEN back = [ok |-> TRUE, c |-> [c EXCEPT !.MaxAge = IF @ < 0 THEN -1 ELSE @,
                                                         !.SameSite = IF @ = 1 THEN 0 ELSE @]]
       ELSE ~back.ok \/ wasQuoted

\* A served path never leaves the root, naming it twice changes nothing, files
\* are closed as often as opened, and a stripped request still names the same
\* file below the prefix (cleanFileServerPath, FileServer, StripPrefix).
PathPromise(prefix, parts, tree) ==
    LET clean == CleanFileServerPath(parts)
        s == StripPrefix(prefix, parts, <<>>)
        served == FileServer("GET", parts, tree)
    IN /\ \A i \in DOMAIN clean : clean[i] \notin {"", ".", ".."}
       /\ CleanFileServerPath(clean) = clean
       /\ CleanFileServerPath(<<"..">> \o parts) = clean
       /\ served.opened = served.closed
       /\ served.status = 200 => clean \in DOMAIN tree /\ tree[clean] = "file"
       /\ s.ok => prefix \o s.path = parts
=============================================================================
