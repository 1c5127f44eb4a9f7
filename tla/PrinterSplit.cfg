SPECIFICATION Spec
PROPERTIES ReplyJudged
