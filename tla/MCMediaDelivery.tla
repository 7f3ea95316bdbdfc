--------------------------- MODULE MCMediaDelivery ---------------------------
(* A small instance of MediaDelivery: jobs of every kind of output with up to *)
(* three candidates, one administrator and one client at a time.              *)
EXTENDS MediaDelivery

Plain(kind, score) ==
    [kind |-> kind, score |-> score, failed |-> FALSE, ad |-> FALSE,
     state |-> "Untested", protection |-> "None", auth |-> FALSE,
     silent |-> FALSE, origin |-> 1, format |-> {"mp4", "h264"}, height |-> NoNumber,
     bandwidth |-> NoNumber, label |-> NoNumber, index |-> NoNumber,
     inline |-> FALSE, dash |-> FALSE, tool |-> FALSE, page |-> FALSE, allowed |-> TRUE]

Scenario(outputs, target, list) ==
    [job |-> [outputs |-> outputs, target |-> target, limit |-> NoLimit],
     all |-> list, archived |-> FALSE, selections |-> 1]

\* The sort the store returns is by falling score.
Silent1080 == [Plain("Video", 120) EXCEPT !.silent = TRUE, !.height = 1080, !.bandwidth = 300000]
Silent480 == [Plain("Video", 100) EXCEPT !.silent = TRUE, !.height = 480, !.bandwidth = 200000,
                                         !.format = {"webm"}]
Silent2160 == [Silent1080 EXCEPT !.height = 2160, !.bandwidth = 18000000]
Sound == [Plain("Audio", 90) EXCEPT !.label = 140]
BlockedSound == [Sound EXCEPT !.state = "Drm"]
Stream == [Plain("Manifest", 80) EXCEPT !.tool = TRUE, !.page = TRUE, !.height = 720]
Signed == [Stream EXCEPT !.page = FALSE, !.auth = TRUE]
Blocked == [Plain("Manifest", 200) EXCEPT !.state = "RegionBlocked"]
Failed == [Plain("Video", 150) EXCEPT !.failed = TRUE, !.height = 720]
Inline == [Plain("Manifest", 60) EXCEPT !.tool = TRUE, !.inline = TRUE, !.auth = TRUE]
Dash == [Plain("Manifest", 50) EXCEPT !.dash = TRUE]
Picture(n) == [Plain("Image", 40) EXCEPT !.index = n]
AdPicture == [Plain("Image", 45) EXCEPT !.ad = TRUE]
Odd == Plain("Unknown", 10)
Page == Plain("Html", 30)

Media == {"Video", "Audio"}

MCScenarios ==
    {Scenario(Media, 720, <<Silent1080, Silent480, Sound>>),
     [Scenario(Media, 720, <<Silent1080, Sound>>) EXCEPT !.selections = 2],
     Scenario(Media, 720, <<Silent1080, BlockedSound, Stream>>),
     Scenario({"Video"}, 0, <<Blocked, Sound, Stream>>),
     Scenario({"Video"}, 480, <<Failed, Silent480, Inline>>),
     Scenario({"Audio"}, 0, <<Sound, Stream, Dash>>),
     Scenario({"Audio"}, 0, <<Plain("Video", 95), Inline, Signed>>),
     Scenario({"Image"}, 0, <<Picture(2), Picture(1), Odd>>),
     Scenario({"Video"}, 0, <<AdPicture, Picture(2), Picture(1)>>),
     Scenario({"Video"}, 0, <<Silent2160, Silent480, Odd>>),
     [Scenario({"PageHtml"}, 0, <<Page, Odd>>) EXCEPT !.archived = TRUE,
                                                             !.selections = 2],
     [Scenario({"Image"}, 0, <<Picture(1)>>) EXCEPT !.job.limit = 2, !.selections = 2]}

MCFields == <<"max_download_mb", "download_timeout_seconds">>
MCRanges == [f \in {"max_download_mb", "download_timeout_seconds"} |->
                IF f = "max_download_mb" THEN [min |-> 1, max |-> 9] ELSE [min |-> 5, max |-> 9]]
MCConfig == [f \in {"max_download_mb", "download_timeout_seconds"} |->
                IF f = "max_download_mb" THEN 3 ELSE 8]
FormOf(size, timeout) == [f \in {"max_download_mb", "download_timeout_seconds"} |->
                             IF f = "max_download_mb" THEN size ELSE timeout]
MCForms == {FormOf(2, 4), FormOf(2, 0)}

Header(shape, first, last) == [form |-> shape, first |-> first, last |-> last]
MCRangeHeaders ==
    {Header("none", NoBound, NoBound), Header("malformed", NoBound, NoBound)}
      \cup {Header("bytes", first, last) : first \in {NoBound, 0, 1, 3}, last \in {NoBound, Garbled, 0, 1, 4}}
=============================================================================
