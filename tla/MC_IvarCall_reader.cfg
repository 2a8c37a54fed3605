\* attr_reader calls through the JIT's ivar speculation.
CONSTANTS
    Objs <- MCObjs
    Ivars <- MCIvars
    Values <- MCValues
    EMBED_LEN_MAX <- MCEmbedLen
SPECIFICATION Spec
INVARIANT AttrReaderAgrees
