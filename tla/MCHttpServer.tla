---------------------------- MODULE MCHttpServer ----------------------------
(* Small instances of HttpServer for TLC. *)
EXTENDS HttpServer, TLC

\* Every length of up to two characters, some of them not a number and one, 11,
\* beyond the word.
RawLengths == UNION {[1..k -> Characters] : k \in 0..2}

RequestHead(lengths) ==
    [ended |-> TRUE, oversized |-> FALSE, strict |-> TRUE, unsupported |-> FALSE,
     lengths |-> lengths, expects |-> <<>>]

\* Heads with a body, one without, and each way of not being a request.
SomeHeads ==
    {RequestHead(<<raw>>) : raw \in RawLengths}
        \cup {RequestHead(<<>>), RequestHead(<<<<1>>, <<0>>>>),
              [RequestHead(<<>>) EXCEPT !.ended = FALSE],
              [RequestHead(<<>>) EXCEPT !.oversized = TRUE],
              [RequestHead(<<>>) EXCEPT !.strict = FALSE],
              [RequestHead(<<>>) EXCEPT !.unsupported = TRUE],
              [RequestHead(<<<<1>>>>) EXCEPT !.expects = <<"100-continue">>],
              [RequestHead(<<>>) EXCEPT !.expects = <<"100-continue", "100-continue">>],
              [RequestHead(<<>>) EXCEPT !.expects = <<"other">>]}
=============================================================================
