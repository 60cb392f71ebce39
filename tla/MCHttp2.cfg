\* Everything that may go wrong does: cancels, deadlines, early answers, the request cap, a shutdown.
SPECIFICATION Spec
CONSTANTS
    StreamCount = 2
    maximumConcurrentStreams = 2
    initialWindowSize = 2
    peerInitialWindowSize = 2
    kHttp2InitialWindowSize = 4
    kHttp2MaximumWindowSize = 4
    maximumFrameSize = 2
    kTerminatedStreamMemoryCount = 1
    Streaming = {1}
    Async = {2}
    Early = {1}
    Chunked = {}
    Trailered = {1}
    responseSize <- AnswerThenDownload
    maximumBodySize = 0
    maximumRequestsPerConnection = 1
    kStreamingSendQueueLimit = 1
    MayShutDown = TRUE
    requestSize <- UploadThenDownload
    Streamed = {}
    Receiver = {2}
    Impatient = {}
    Cancellable = {1}
    MayTimeOut = TRUE
    maximumResponseBodyBytes = 0
    maximumOpenedStreamCount = 2
INVARIANTS  DownloadWindowsKept NobodyAccuses SafeToRetry 
