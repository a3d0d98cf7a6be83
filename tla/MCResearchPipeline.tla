-------------------------- MODULE MCResearchPipeline --------------------------
EXTENDS ResearchPipeline

Bar(raw, open, close, source, price) ==
  [market |-> Market, timeframe |-> "2s", open |-> open, close |-> close, source |-> source,
   price |-> price, raw |-> raw]
Page(id, request, raw, bars) ==
  [id |-> id, request |-> request, source |-> "feed", raw |-> raw, bars |-> bars]

First  == <<Bar(1, 0, 2, 2, 4), Bar(1, 2, 4, 4, 3), Bar(1, 4, 6, 6, 4), Bar(1, 6, 8, 8, 6)>>
Second == <<Bar(2, 8, 10, 10, 3)>>
Third  == <<Bar(3, 10, 12, 12, 6), Bar(3, 12, 14, 14, 6)>>

\* The history in three pages; the second fetched again, at price zero, off
\* the grid, sourced late and of another request; and an empty one.
Fetched ==
  {Page(1, 1, 1, First), Page(2, 1, 2, Second), Page(3, 1, 3, Third),
   Page(4, 1, 4, <<Bar(4, 8, 10, 10, 3)>>), Page(5, 1, 5, <<Bar(5, 8, 10, 10, 0)>>),
   Page(6, 1, 6, <<Bar(6, 7, 9, 9, 3)>>), Page(7, 1, 7, <<Bar(7, 8, 10, 11, 3)>>),
   Page(8, 2, 2, Second), Page(9, 1, 9, <<>>)}

HigherBars ==
  [i \in 1..3 |-> [Bar(10, 4 * i - 4, 4 * i, 4 * i, i) EXCEPT !.timeframe = "4s"]]

Quote(event, source) == [event |-> event, source |-> source, bid |-> 1, ask |-> 2]
Quoted == <<Quote(0, {}), Quote(3, {3}), Quote(7, {9}), Quote(13, {})>>

Schedules == {[id |-> 1, from |-> 0, to |-> {6}], [id |-> 2, from |-> 6, to |-> {}]}
Report == [start |-> 0, end |-> 14]

\* The last train row has no label: there is no observation at 12.
Observations == {[ts |-> t, value |-> t] : t \in {8, 10, 14, 16, 18}}

Chronology ==
  <<[split |-> "train", start |-> 0, end |-> 9], [split |-> "validation", start |-> 9, end |-> 11],
    [split |-> "test", start |-> 11, end |-> 15]>>
=============================================================================
