----------------------------- MODULE MCHttpClient -----------------------------
\* Every response of at most four lines after the status line, with or without
\* data behind them, and truncated anywhere.
EXTENDS HttpClient

MCResponses ==
  {<<>>} \cup
  {<<status>> \o lines \o data :
     status \in {"200", "other", "invalid"},
     lines  \in BoundedSeq({"line", "blank"}, 4),
     data   \in {<<>>, <<"data">>}}
=============================================================================
