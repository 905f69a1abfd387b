CONSTANTS
  TargetTexts = {"news"}  ChannelTexts = {"", "123"}
  SearchTexts = {"", " ", "news", "rss", "123"}  MaxSaved = 2
SPECIFICATION FeedsSpec
INVARIANT ActivatedArePolled
CHECK_DEADLOCK FALSE
