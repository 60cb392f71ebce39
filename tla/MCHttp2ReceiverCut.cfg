\* Another request reads the end of an answer while its receiver is busy.
SPECIFICATION Spec
CONSTANTS
    StreamCount = 2
    maximumConcurrentStreams = 2
    initialWindowSize = 2
    peerInitialWindowSize = 2
    kHttp2InitialWindowSize = 4
    kHttp2MaximumWindowSize = 4
    maximumFrameSize = 2
    kTerminatedStreamMemoryCount = 1
    Streaming = {1}
    Async = {}
    Early = {}
    Chunked = {}
    Trailered = {}
    responseSize <- AnswerThenDownload
    maximumBodySize = 0
    maximumRequestsPerConnection = 0
    kStreamingSendQueueLimit = 1
    MayShutDown = FALSE
    requestSize <- UploadThenDownload
    Streamed = {}
    Receiver = {2}
    Impatient = {}
    Cancellable = {}
    MayTimeOut = FALSE
    maximumResponseBodyBytes = 0
    maximumOpenedStreamCount = 2
INVARIANTS ReceiverGetsWholeAnswer
